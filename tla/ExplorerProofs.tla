---------------------------- MODULE ExplorerProofs -----------------------------
(***************************************************************************)
(* Theorems of Explorer, for every height looked at, every depth limit and *)
(* every number of visits, resets, faults and overlapping requests.        *)
(***************************************************************************)
EXTENDS Explorer, SequenceTheorems, TLAPS

LEMMA RemoveAtType ==
  ASSUME NEW S, NEW s \in Seq(S), NEW i \in DOMAIN s
  PROVE  RemoveAt(s, i) \in Seq(S)
<1>1. i \in 1..Len(s) /\ Len(s) \in Nat
  OBVIOUS
<1>2. SubSeq(s, 1, i - 1) \in Seq(S) /\ SubSeq(s, i + 1, Len(s)) \in Seq(S)
  BY <1>1
<1> QED
  BY <1>2 DEF RemoveAt

-------------------------------------------------------------------------------
(* The invariant *)

\* Fetches under way; one has an item exactly when it was found.
Fetches == {r \in [state : {"sent", "found", "failed"}, item : Details \cup {None},
                   at : Moments \cup {None}, late : BOOLEAN] :
             r.item # None <=> r.state = "found"}

\* What a poll has got is dated no later than now, the blocks not before the status.
Dating(got) ==
  /\ got["status"] # None => NotBefore(Now, got["status"])
  /\ got["blocks"] # None => got["status"] # None /\ NotBefore(got["blocks"], got["status"])

Gots == [Parts -> Moments \cup {None}]
PollRecords == {p \in [got : Gots, failed : BOOLEAN] : Dating(p.got)}

NodeTyped ==
  /\ tip \in 0..MaxTip /\ era \in 0..MaxResets /\ faults \in 0..MaxFaults
  /\ stored \in BOOLEAN /\ txHeight \in {None, ItemHeight}

PageTyped == page \in [kind : PageKinds \cup {"closed"}, exists : BOOLEAN, era : 0..era]

ItemTyped ==
  /\ item \in Details \cup {None} /\ seen \in [item : Details \cup {None}, last : 0..MaxTip]
  /\ error \in BOOLEAN /\ loading \in BOOLEAN
  /\ lastKnown \in 0..MaxTip /\ event \in Moments \cup {None}
  /\ requests \in Seq(Fetches)

PollTyped ==
  /\ shown \in Gots /\ Dating(shown)
  /\ pollError \in BOOLEAN /\ pollLoading \in BOOLEAN
  /\ polls \in Seq(PollRecords)

ShellTyped ==
  /\ visits \in 0..MaxVisits /\ resetting \in BOOLEAN
  /\ posted \in Nat /\ posted + era <= MaxResets

\* Only the open page keeps anything.
OnePage ==
  /\ OnItemPage \/ NoItem
  /\ OnPolledPage \/ NoPolled

Inv ==
  /\ NodeTyped /\ PageTyped /\ ItemTyped /\ PollTyped /\ ShellTyped /\ OnePage
  /\ ShowsOneOutcome

LEMMA NowType ==
  ASSUME NodeTyped
  PROVE  Now \in Moments /\ Now.era = era /\ Now.tip = tip
BY DEF NodeTyped, Now, Moments

LEMMA DetailType ==
  ASSUME NodeTyped, Found(page)
  PROVE  Detail(page) \in Details /\ Detail(page) # None
<1>1. Now \in Moments
  BY NowType
<1>2. BlockFound => BlockConfirmations \in 0..MaxTip
  BY ApiConstants DEF BlockFound, BlockConfirmations, NodeTyped
<1>3. TxConfirmations \in 0..MaxTip
  BY ApiConstants DEF TxConfirmations, NodeTyped
<1>4. (IF page.kind = "block" THEN BlockConfirmations ELSE TxConfirmations) \in 0..MaxTip
  BY <1>2, <1>3 DEF Found
<1>5. Detail(page) \in Details
  BY <1>1, <1>4 DEF Detail, Details
<1> QED
  BY <1>5, NoneIsNothing

\* The node only moves on: what was not later than now stays so.
LEMMA LaterStillDated ==
  ASSUME NodeTyped, NodeTyped', era' > era \/ (era' = era /\ tip' >= tip), NEW got \in Gots, Dating(got)
  PROVE  Dating(got)'
<1>1. got["status"] # None => got["status"] \in Moments
  BY DEF Gots, Parts
<1>2. ASSUME NEW m \in Moments, NotBefore(Now, m)
      PROVE  NotBefore(Now', m)
  <2>1. m.era \in 0..MaxResets /\ m.tip \in 0..MaxTip
    BY DEF Moments
  <2>2. Now.era = era /\ Now.tip = tip /\ Now'.era = era' /\ Now'.tip = tip'
    BY DEF Now
  <2>3. era > m.era \/ (era = m.era /\ tip >= m.tip)
    BY <1>2, <2>2 DEF NotBefore
  <2>4. era' > m.era \/ (era' = m.era /\ tip' >= m.tip)
    BY <2>1, <2>3, ApiConstants DEF NodeTyped
  <2> QED
    BY <2>2, <2>4 DEF NotBefore
<1> QED
  BY <1>1, <1>2 DEF Dating

LEMMA BlankDated == Blank \in Gots /\ Dating(Blank) /\ Poll(Blank, FALSE) \in PollRecords /\ Poll(Blank, TRUE) \in PollRecords
<1>1. Blank \in Gots /\ Blank["status"] = None /\ Blank["blocks"] = None
  BY DEF Blank, Gots, Parts
<1>2. Dating(Blank)
  BY <1>1 DEF Dating
<1> QED
  BY <1>1, <1>2 DEF Poll, PollRecords

LEMMA SentType == Sent \in Fetches /\ None \notin Moments
<1>1. None \notin Moments
  BY NoneIsNothing
<1> QED
  BY <1>1 DEF Sent, Request, Fetches

-------------------------------------------------------------------------------
(* The steps *)

LEMMA InitInv == Init => Inv
<1> SUFFICES ASSUME Init PROVE Inv
  OBVIOUS
<1>1. NodeTyped
  <2>1. tip \in 0..MaxTip /\ era \in 0..MaxResets /\ faults \in 0..MaxFaults
    BY ApiConstants DEF Init, NodeInit
  <2>2. stored \in BOOLEAN /\ txHeight \in {None, ItemHeight}
    BY DEF Init, NodeInit
  <2> QED
    BY <2>1, <2>2 DEF NodeTyped
<1>2. page \in [kind : PageKinds \cup {"closed"}, exists : BOOLEAN, era : 0..era] /\ page.kind = "closed"
  BY DEF Init, Page, NodeInit
<1>3. ItemTyped /\ item = None /\ error = FALSE
  <2>1. /\ item = None /\ seen = [item |-> None, last |-> 0] /\ lastKnown = 0 /\ requests = <<>> /\ event = None
        /\ error = FALSE /\ loading = FALSE
    BY DEF Init, NoItem, Closure
  <2>2. 0 \in 0..MaxTip
    BY ApiConstants
  <2>3. requests \in Seq(Fetches)
    BY <2>1
  <2>4. error \in BOOLEAN /\ loading \in BOOLEAN
    BY <2>1
  <2>5. seen \in [item : Details \cup {None}, last : 0..MaxTip]
    BY <2>1, <2>2
  <2> QED
    BY <2>1, <2>2, <2>3, <2>4, <2>5 DEF ItemTyped
<1>4. PollTyped
  <2>1. shown = Blank /\ pollError = FALSE /\ pollLoading = FALSE /\ polls = <<>>
    BY DEF Init, NoPolled
  <2>2. pollError \in BOOLEAN /\ pollLoading \in BOOLEAN
    BY <2>1
  <2>3. polls \in Seq(PollRecords)
    BY <2>1
  <2> QED
    BY <2>1, <2>2, <2>3, BlankDated DEF PollTyped
<1>5. ShellTyped
  <2>1. visits = 0 /\ posted = 0 /\ era = 0 /\ resetting \in BOOLEAN
    BY DEF Init, NodeInit
  <2> QED
    BY <2>1, ApiConstants, ExplorerConstants DEF ShellTyped
<1>6. ~OnItemPage
  BY <1>2 DEF OnItemPage, ItemKinds
<1> QED
  BY <1>1, <1>2, <1>3, <1>4, <1>5, <1>6 DEF Inv, PageTyped, OnePage, ShowsOneOutcome, Init

\* A node that moves on changes no page.
LEMMA NodeMoves ==
  ASSUME Inv, NodeTyped', era' > era \/ (era' = era /\ tip' >= tip), UNCHANGED <<page, itemVars, pollVars>>
  PROVE  PageTyped' /\ ItemTyped' /\ PollTyped' /\ OnePage' /\ ShowsOneOutcome'
<1>1. NodeTyped /\ PageTyped /\ ItemTyped /\ PollTyped /\ OnePage /\ ShowsOneOutcome
  BY DEF Inv
<1>2. PageTyped'
  BY <1>1, ApiConstants DEF PageTyped, NodeTyped
<1>3. ItemTyped'
  BY <1>1 DEF ItemTyped, itemVars
<1>4. \A got \in Gots : Dating(got) => Dating(got)'
  BY <1>1, LaterStillDated
<1>5. PollRecords \subseteq PollRecords'
  BY <1>4 DEF PollRecords
<1>6. polls \in Seq(PollRecords')
  BY <1>1, <1>5 DEF PollTyped
<1>7. PollTyped'
  BY <1>1, <1>4, <1>6 DEF PollTyped, pollVars
<1> QED
  BY <1>1, <1>2, <1>3, <1>7 DEF OnePage, ShowsOneOutcome, OnItemPage, OnPolledPage, NoItem, NoPolled,
                                itemVars, pollVars

LEMMA NodeStepPreserves ==
  ASSUME Inv, NodeStep
  PROVE  Inv'
<1>1. NodeTyped /\ ShellTyped /\ UNCHANGED <<page, itemVars, pollVars, shellVars, era, faults>>
  BY DEF Inv, NodeStep, ExtendTip, SaveBlock
<1>2. tip' \in 0..MaxTip /\ tip' >= tip /\ era' = era
  BY <1>1, ApiConstants DEF NodeStep, ExtendTip, SaveBlock, NodeTyped
<1>3. stored' \in BOOLEAN /\ txHeight' \in {None, ItemHeight}
  BY <1>1 DEF NodeStep, ExtendTip, SaveBlock, NodeTyped
<1>4. NodeTyped'
  BY <1>1, <1>2, <1>3 DEF NodeTyped
<1>5. ShellTyped'
  BY <1>1 DEF ShellTyped, shellVars
<1> QED
  BY <1>1, <1>2, <1>4, <1>5, NodeMoves DEF Inv

LEMMA ButtonTyped ==
  ASSUME ButtonReleased
  PROVE  resetting' \in BOOLEAN
BY DEF ButtonReleased, ShellTyped

LEMMA ServePreserves ==
  ASSUME Inv, ServeReset
  PROVE  Inv'
<1>1. NodeTyped /\ ShellTyped /\ UNCHANGED <<page, itemVars, pollVars, visits, faults>>
  BY DEF Inv, ServeReset
<1>2. /\ era < MaxResets /\ tip' = 0 /\ era' = era + 1 /\ stored' = FALSE /\ txHeight' = None
      /\ posted > 0 /\ posted' = posted - 1 /\ ButtonReleased
  BY DEF ServeReset, ResetSync
<1>3. tip' \in 0..MaxTip /\ era' \in 0..MaxResets /\ era' > era /\ faults' \in 0..MaxFaults
  BY <1>1, <1>2, ApiConstants DEF NodeTyped
<1>4. stored' \in BOOLEAN /\ resetting' \in BOOLEAN
  BY <1>1, <1>2, ButtonTyped
<1>5. NodeTyped'
  BY <1>2, <1>3, <1>4 DEF NodeTyped
<1>6. ShellTyped'
  BY <1>1, <1>2, <1>4, ApiConstants DEF ShellTyped, NodeTyped
<1> QED
  BY <1>1, <1>3, <1>5, <1>6, NodeMoves DEF Inv

LEMMA ResetFailsPreserves ==
  ASSUME Inv, ResetFails
  PROVE  Inv'
<1>1. NodeTyped /\ PageTyped /\ ItemTyped /\ PollTyped /\ ShellTyped /\ OnePage /\ ShowsOneOutcome
  BY DEF Inv
<1>2. UNCHANGED <<nodeVars, page, itemVars, pollVars, visits>>
  BY DEF ResetFails
<1>3. posted > 0 /\ posted' = posted - 1 /\ ButtonReleased /\ faults < MaxFaults /\ faults' = faults + 1
  BY DEF ResetFails, Lose
<1>4. faults' \in 0..MaxFaults /\ posted' \in Nat /\ posted' + era <= MaxResets
  <2>1. posted \in Nat /\ era \in Nat /\ posted + era <= MaxResets /\ faults \in 0..MaxFaults
    BY <1>1, ApiConstants DEF NodeTyped, ShellTyped
  <2>2. posted > 0 /\ posted' = posted - 1 /\ faults < MaxFaults /\ faults' = faults + 1
    BY <1>3
  <2> QED
    BY <2>1, <2>2, ApiConstants
<1>5. NodeTyped'
  BY <1>1, <1>2, <1>4 DEF NodeTyped, nodeVars
<1>6. resetting' \in BOOLEAN
  BY <1>1, <1>3, ButtonTyped
<1>7. ShellTyped'
  BY <1>1, <1>2, <1>4, <1>6 DEF ShellTyped, nodeVars
<1>8. era' = era /\ tip' = tip /\ tip \in Nat
  BY <1>1, <1>2, ApiConstants DEF NodeTyped, nodeVars
<1>9. tip' >= tip
  BY <1>8
<1> QED
  BY <1>2, <1>5, <1>7, <1>8, <1>9, NodeMoves DEF Inv

LEMMA ClickPreserves ==
  ASSUME Inv, ClickReset
  PROVE  Inv'
<1>1. NodeTyped /\ PageTyped /\ ItemTyped /\ PollTyped /\ ShellTyped /\ OnePage /\ ShowsOneOutcome
  BY DEF Inv
<1>2. UNCHANGED <<nodeVars, faults, page, itemVars, pollVars, visits>>
  BY DEF ClickReset
<1>3. posted' = posted + 1 /\ posted < MaxResets - era /\ resetting' = TRUE
  BY DEF ClickReset
<1>4. resetting' \in BOOLEAN
  BY <1>3
<1>5. ShellTyped'
  BY <1>1, <1>2, <1>3, <1>4, ApiConstants DEF ShellTyped, NodeTyped, nodeVars
<1>6. NodeTyped' /\ PageTyped' /\ ItemTyped' /\ ShowsOneOutcome'
  BY <1>1, <1>2 DEF NodeTyped, PageTyped, ItemTyped, ShowsOneOutcome, OnItemPage, nodeVars, itemVars
<1>7. PollTyped' /\ OnePage'
  BY <1>1, <1>2 DEF PollTyped, PollRecords, Dating, Now, OnePage, OnItemPage, OnPolledPage, NoItem, NoPolled,
                    nodeVars, itemVars, pollVars
<1> QED
  BY <1>5, <1>6, <1>7 DEF Inv

\* Opening a page drops everything the page before kept.
LEMMA GoToPreserves ==
  ASSUME Inv, NEW k \in PageKinds, NEW x \in BOOLEAN, GoTo(Page(k, x))
  PROVE  Inv'
<1> DEFINE p == Page(k, x)
<1>1. NodeTyped /\ ShellTyped
  BY DEF Inv
<1>2. /\ page' = p /\ UNCHANGED <<nodeVars, faults, posted>>
      /\ visits < MaxVisits /\ visits' = visits + 1 /\ resetting' = FALSE
      /\ p.kind = k /\ p = [kind |-> k, exists |-> x, era |-> era]
      /\ IF k \in ItemKinds THEN OpenItem /\ ClosePolled ELSE OpenPolled /\ CloseItem
  BY DEF GoTo, Page
<1>3. NodeTyped'
  BY <1>1, <1>2 DEF NodeTyped, nodeVars
<1>4. PageTyped'
  BY <1>1, <1>2, ApiConstants DEF PageTyped, NodeTyped, nodeVars
<1>5. resetting' \in BOOLEAN
  BY <1>2
<1>6. ShellTyped'
  BY <1>1, <1>2, <1>5, ExplorerConstants DEF ShellTyped, nodeVars
<1>7. 0 \in 0..MaxTip /\ Dating(Blank)'
  BY <1>1, <1>2, ApiConstants, BlankDated DEF Dating, Now, nodeVars
<1>8. PollRecords' = PollRecords
  BY <1>2 DEF PollRecords, Dating, Now, nodeVars
<1>9. k \in ItemKinds => k \notin PolledKinds
  BY DEF ItemKinds, PolledKinds
<1>10. CASE k \in ItemKinds
  <2>1. /\ item' = None /\ error' = FALSE /\ loading' = TRUE /\ lastKnown' = 0
        /\ seen' = [item |-> None, last |-> 0] /\ requests' = <<Sent>> /\ event' = None
        /\ shown' = Blank /\ pollError' = FALSE /\ pollLoading' = FALSE /\ polls' = <<>>
    BY <1>2, <1>10 DEF OpenItem, ClosePolled, Closure
  <2>2. error' \in BOOLEAN /\ loading' \in BOOLEAN /\ pollError' \in BOOLEAN /\ pollLoading' \in BOOLEAN
    BY <2>1
  <2>3. seen' \in [item : Details \cup {None}, last : 0..MaxTip] /\ requests' \in Seq(Fetches)
    BY <1>7, <2>1, SentType
  <2>4. ItemTyped'
    BY <1>7, <2>1, <2>2, <2>3 DEF ItemTyped
  <2>5. PollTyped'
    BY <1>7, <2>1, <2>2, BlankDated DEF PollTyped
  <2>6. NoPolled' /\ OnItemPage' /\ ShowsOneOutcome'
    BY <1>2, <1>9, <1>10, <2>1 DEF NoPolled, OnItemPage, ShowsOneOutcome
  <2> QED
    BY <1>3, <1>4, <1>6, <2>4, <2>5, <2>6 DEF Inv, OnePage
<1>11. CASE k \notin ItemKinds
  <2>1. /\ item' = None /\ error' = FALSE /\ loading' = FALSE /\ lastKnown' = 0 /\ cause' = {}
        /\ seen' = [item |-> None, last |-> 0] /\ requests' = <<>> /\ event' = None
        /\ shown' = Blank /\ pollError' = FALSE /\ pollLoading' = TRUE /\ polls' = <<Poll(Blank, FALSE)>>
    BY <1>2, <1>11 DEF OpenPolled, CloseItem, Closure
  <2>2. error' \in BOOLEAN /\ loading' \in BOOLEAN /\ pollError' \in BOOLEAN /\ pollLoading' \in BOOLEAN
    BY <2>1
  <2>3. seen' \in [item : Details \cup {None}, last : 0..MaxTip] /\ requests' \in Seq(Fetches)
    BY <1>7, <2>1
  <2>4. ItemTyped'
    BY <1>7, <2>1, <2>2, <2>3 DEF ItemTyped
  <2>5. polls' \in Seq(PollRecords')
    <3> DEFINE first == Poll(Blank, FALSE)
    <3>1. first \in PollRecords /\ polls' = <<first>>
      BY <2>1, BlankDated
    <3> HIDE DEF first
    <3>2. <<first>> \in Seq(PollRecords)
      BY <3>1
    <3> QED
      BY <1>8, <3>1, <3>2
  <2>6. PollTyped'
    BY <1>7, <2>1, <2>2, <2>5, BlankDated DEF PollTyped
  <2>7. NoItem' /\ OnPolledPage' /\ ~OnItemPage' /\ ShowsOneOutcome'
    BY <1>2, <1>11, <2>1 DEF NoItem, Closure, OnItemPage, OnPolledPage, PageKinds, ShowsOneOutcome
  <2> QED
    BY <1>3, <1>4, <1>6, <2>4, <2>6, <2>7 DEF Inv, OnePage
<1> QED
  BY <1>10, <1>11

\* What the steps of an item page leave alone.
LEMMA ItemStepKeeps ==
  ASSUME Inv, NodeTyped', UNCHANGED <<nodeVars, page, pollVars, shellVars>>, ItemTyped', OnItemPage, ShowsOneOutcome'
  PROVE  Inv'
<1>1. PageTyped /\ PollTyped /\ ShellTyped /\ OnePage
  BY DEF Inv
<1>2. ~OnPolledPage /\ OnItemPage' /\ ~OnPolledPage'
  BY DEF OnItemPage, OnPolledPage, ItemKinds, PolledKinds
<1>3. PageTyped' /\ ShellTyped'
  BY <1>1 DEF PageTyped, ShellTyped, nodeVars, shellVars
<1>4. PollTyped'
  BY <1>1 DEF PollTyped, PollRecords, Dating, Now, nodeVars, pollVars
<1>5. OnePage'
  BY <1>1, <1>2 DEF OnePage, NoPolled, pollVars
<1> QED
  BY <1>3, <1>4, <1>5 DEF Inv

\* Fetches under way or an event on its way mean that an item page is open, polls
\* under way that a polled one is.
LEMMA BusyMeansOpen ==
  ASSUME Inv
  PROVE  /\ requests # <<>> \/ event # None => OnItemPage
         /\ polls # <<>> => OnPolledPage
BY DEF Inv, OnePage, NoItem, NoPolled

LEMMA FetchesTaken ==
  ASSUME ItemTyped, NEW i \in DOMAIN requests
  PROVE  /\ requests[i] \in Fetches /\ requests # <<>>
         /\ Rest(i) \in Seq(Fetches)
         /\ \A r \in Fetches : [requests EXCEPT ![i] = r] \in Seq(Fetches)
<1>1. requests \in Seq(Fetches) /\ i \in 1..Len(requests) /\ Len(requests) \in Nat
  BY DEF ItemTyped
<1>2. \A j \in 1..Len(requests) : requests[j] \in Fetches
  BY <1>1
<1> DEFINE aged == [j \in DOMAIN requests |-> [requests[j] EXCEPT !.late = @ \/ Overtaken(j, i)]]
<1>3. ASSUME NEW j \in 1..Len(requests)
      PROVE  [requests[j] EXCEPT !.late = @ \/ Overtaken(j, i)] \in Fetches
  <2>1. requests[j] \in Fetches
    BY <1>2
  <2>2. (requests[j].late \/ Overtaken(j, i)) \in BOOLEAN
    OBVIOUS
  <2> QED
    BY <2>1, <2>2 DEF Fetches
<1>4. aged \in Seq(Fetches) /\ DOMAIN aged = DOMAIN requests
  <2>1. DOMAIN requests = 1..Len(requests)
    BY <1>1
  <2>2. aged \in [1..Len(requests) -> Fetches]
    BY <1>3, <2>1, Zenon
  <2> HIDE DEF aged
  <2> QED
    BY <1>1, <2>1, <2>2
<1> HIDE DEF aged
<1>5. RemoveAt(aged, i) \in Seq(Fetches)
  BY <1>4, RemoveAtType
<1>6. Rest(i) \in Seq(Fetches)
  BY <1>5 DEF Rest, aged
<1> QED
  BY <1>1, <1>2, <1>6

LEMMA RequestType ==
  ASSUME NEW m \in Moments
  PROVE  /\ Request("failed", None, m) \in Fetches
         /\ \A d \in Details : Request("found", d, m) \in Fetches
<1>1. None \notin Details
  BY NoneIsNothing
<1> QED
  BY <1>1 DEF Request, Fetches

LEMMA ItemStepPreserves ==
  ASSUME Inv, ItemStep, UNCHANGED <<pollVars, shellVars>>
  PROVE  Inv'
<1>1. NodeTyped /\ ItemTyped /\ ShowsOneOutcome
  BY DEF Inv
<1>2. Now \in Moments
  BY <1>1, NowType
<1>3. UNCHANGED <<nodeVars, page>>
  BY DEF ItemStep, Answer, FetchFails, Deliver, Emit, Rerender, OnMessage, Lose
<1>4. NodeTyped'
  <2>1. faults' \in 0..MaxFaults
    BY <1>1, ApiConstants DEF ItemStep, Answer, FetchFails, Deliver, Emit, Rerender, OnMessage, Lose, NodeTyped
  <2> QED
    BY <1>1, <1>3, <2>1 DEF NodeTyped, nodeVars
<1>5. OnItemPage
  BY BusyMeansOpen DEF ItemStep, Emit, Rerender, OnMessage
<1>6. ASSUME NEW i \in DOMAIN requests, Answer(i) \/ FetchFails(i)
      PROVE  ItemTyped' /\ ShowsOneOutcome'
  <2>1. \E r \in Fetches : requests' = [requests EXCEPT ![i] = r]
    <3>1. CASE Found(page)
      <4>1. Detail(page) \in Details
        BY <1>1, <3>1, DetailType
      <4>2. Request("found", Detail(page), Now) \in Fetches
        BY <1>2, <4>1, RequestType
      <4> QED
        BY <1>2, <1>6, <3>1, <4>2, RequestType DEF Answer, FetchFails
    <3>2. CASE ~Found(page)
      BY <1>2, <1>6, <3>2, RequestType DEF Answer, FetchFails
    <3> QED
      BY <3>1, <3>2
  <2>2. requests' \in Seq(Fetches)
    BY <1>1, <2>1, FetchesTaken
  <2>3. UNCHANGED <<item, error, loading, lastKnown, seen, event>>
    BY <1>6 DEF Answer, FetchFails
  <2> QED
    BY <1>1, <1>3, <2>2, <2>3 DEF ItemTyped, ShowsOneOutcome, OnItemPage
<1>7. ASSUME NEW i \in DOMAIN requests, Deliver(i)
      PROVE  ItemTyped' /\ ShowsOneOutcome'
  <2>1. /\ item' = requests[i].item /\ error' = (requests[i].state = "failed") /\ loading' = FALSE
        /\ requests' = Rest(i) /\ requests[i].state # "sent"
        /\ UNCHANGED <<lastKnown, seen, event>>
    BY <1>7 DEF Deliver
  <2>2. /\ requests[i] \in Fetches /\ requests' \in Seq(Fetches)
    BY <1>1, <2>1, FetchesTaken
  <2>3. /\ item' \in Details \cup {None} /\ requests[i].state \in {"found", "failed"}
        /\ item' # None <=> requests[i].state = "found"
    BY <2>1, <2>2 DEF Fetches
  <2>4. error' \in BOOLEAN /\ loading' \in BOOLEAN
    BY <2>1
  <2>5. error' <=> item' = None
    BY <2>1, <2>3
  <2>6. ItemTyped'
    BY <1>1, <2>1, <2>2, <2>3, <2>4 DEF ItemTyped
  <2> QED
    BY <2>5, <2>6 DEF ShowsOneOutcome
<1>8. CASE Emit
  <2>1. event' = Now /\ UNCHANGED <<item, error, loading, lastKnown, seen, requests>>
    BY <1>8 DEF Emit
  <2>2. ItemTyped' /\ ShowsOneOutcome'
    BY <1>1, <1>2, <1>3, <2>1 DEF ItemTyped, ShowsOneOutcome, OnItemPage
  <2> QED
    BY <1>3, <1>4, <1>5, <2>2, ItemStepKeeps
<1>9. CASE Rerender
  <2>1. seen' = [item |-> item, last |-> lastKnown] /\ event' = None /\ UNCHANGED <<item, error, loading, lastKnown, requests>>
    BY <1>9 DEF Rerender, Closure
  <2>2. seen' \in [item : Details \cup {None}, last : 0..MaxTip]
    BY <1>1, <2>1 DEF ItemTyped
  <2>3. ItemTyped' /\ ShowsOneOutcome'
    BY <1>1, <1>3, <2>1, <2>2 DEF ItemTyped, ShowsOneOutcome, OnItemPage
  <2> QED
    BY <1>3, <1>4, <1>5, <2>3, ItemStepKeeps
<1>10. CASE OnMessage
  <2>1. event # None /\ event' = None /\ UNCHANGED <<item, error, seen>>
    BY <1>10 DEF OnMessage
  <2>2. event.tip \in 0..MaxTip
    BY <1>1, <2>1 DEF ItemTyped, Moments
  <2>3. CASE UNCHANGED <<loading, requests>> /\ lastKnown' \in {lastKnown, event.tip}
    <3>1. ItemTyped' /\ ShowsOneOutcome'
      BY <1>1, <1>3, <2>1, <2>2, <2>3 DEF ItemTyped, ShowsOneOutcome, OnItemPage
    <3> QED
      BY <1>3, <1>4, <1>5, <3>1, ItemStepKeeps
  <2>4. CASE RefreshForHeight
    <3>1. lastKnown' = event.tip /\ loading' = TRUE /\ requests' = Append(requests, Sent)
      BY <2>4 DEF RefreshForHeight
    <3>2. loading' \in BOOLEAN
      BY <3>1
    <3>3. requests' \in Seq(Fetches)
      BY <1>1, <3>1, SentType DEF ItemTyped
    <3>4. ItemTyped'
      BY <1>1, <2>1, <2>2, <3>1, <3>2, <3>3 DEF ItemTyped
    <3>5. ShowsOneOutcome'
      BY <1>1, <2>1, <3>1 DEF ShowsOneOutcome
    <3> QED
      BY <1>3, <1>4, <1>5, <3>4, <3>5, ItemStepKeeps
  <2> QED
    BY <1>10, <2>3, <2>4 DEF OnMessage, NoteHeight
<1> QED
  BY <1>3, <1>4, <1>5, <1>6, <1>7, <1>8, <1>9, <1>10, ItemStepKeeps DEF ItemStep

LEMMA AskedType ==
  ASSUME NEW s \in DOMAIN Asked
  PROVE  /\ Asked[s] \in Parts
         /\ Asked[s] = "blocks" => s = 2 /\ Asked[1] = "status" /\ page.kind # "node"
<1>1. CASE page.kind = "home"
  <2>1. Asked = <<"status", "blocks">>
    BY <1>1 DEF Asked
  <2> QED
    BY <1>1, <2>1 DEF Parts
<1>2. CASE page.kind = "stats"
  <2>1. Asked = <<"status", "blocks", "sporks">>
    BY <1>2 DEF Asked
  <2> QED
    BY <1>2, <2>1 DEF Parts
<1>3. CASE page.kind = "node"
  <2>1. Asked = <<"status", "torrent">>
    BY <1>3 DEF Asked
  <2> QED
    BY <2>1 DEF Parts
<1>4. CASE page.kind \notin {"home", "stats", "node"}
  <2>1. Asked = <<>>
    BY <1>4 DEF Asked
  <2> QED
    BY <2>1
<1> QED
  BY <1>1, <1>2, <1>3, <1>4

\* A part that is answered is dated now, and it is asked for after the status.
LEMMA AnsweredPart ==
  ASSUME Inv, NEW p \in PollRecords, NEW s \in DOMAIN Asked, IsSent(p, s),
         NEW v, v = IF Asked[s] \in Dated THEN Now ELSE Undated
  PROVE  [p EXCEPT !.got = [p.got EXCEPT ![Asked[s]] = v]] \in PollRecords
<1> DEFINE got == [p.got EXCEPT ![Asked[s]] = v]
<1>1. /\ p \in [got : Gots, failed : BOOLEAN] /\ p.got \in Gots /\ Dating(p.got)
      /\ p.got[Asked[s]] = None /\ Asked[s] \in Parts
  BY AskedType DEF PollRecords, IsSent
<1>2. Now \in Moments /\ Undated \in Moments /\ NotBefore(Now, Now) /\ None \notin Moments
  <2>1. Now \in Moments /\ Now.era = era /\ Now.tip = tip /\ era \in Nat /\ tip \in Nat
    BY NowType, ApiConstants DEF Inv, NodeTyped
  <2>2. Undated \in Moments
    BY ApiConstants DEF Undated, Moments
  <2> QED
    BY <2>1, <2>2, NoneIsNothing DEF NotBefore
<1>3. got \in Gots
  BY <1>1, <1>2 DEF Gots
<1>4. \A q \in Parts : got[q] = IF q = Asked[s] THEN v ELSE p.got[q]
  BY <1>1 DEF Gots
<1>5. "status" \in Parts /\ "blocks" \in Parts /\ "status" \in Dated /\ "blocks" \in Dated
  BY DEF Parts, Dated
<1>6. Dating(got)
  <2>1. CASE Asked[s] = "status"
    <3>1. got["status"] = Now /\ got["blocks"] = p.got["blocks"] /\ p.got["status"] = None
      BY <1>1, <1>4, <1>5, <2>1
    <3>2. p.got["blocks"] = None
      BY <1>1, <3>1 DEF Dating
    <3> QED
      BY <1>2, <3>1, <3>2 DEF Dating
  <2>2. CASE Asked[s] = "blocks"
    <3>1. got["blocks"] = Now /\ got["status"] = p.got["status"]
      BY <1>4, <1>5, <2>2
    <3>2. p.got["status"] # None
      BY <2>2, AskedType DEF IsSent
    <3> QED
      BY <1>1, <3>1, <3>2 DEF Dating
  <2>3. CASE Asked[s] \notin {"status", "blocks"}
    <3>1. got["blocks"] = p.got["blocks"] /\ got["status"] = p.got["status"]
      BY <1>4, <1>5, <2>3
    <3> QED
      BY <1>1, <3>1 DEF Dating
  <2> QED
    BY <2>1, <2>2, <2>3
<1> HIDE DEF got
<1>7. [p EXCEPT !.got = got] \in [got : Gots, failed : BOOLEAN] /\ [p EXCEPT !.got = got].got = got
  BY <1>1, <1>3
<1>8. [p EXCEPT !.got = got] \in PollRecords
  BY <1>6, <1>7 DEF PollRecords
<1> QED
  BY <1>8 DEF got

LEMMA PolledStepPreserves ==
  ASSUME Inv, PolledStep, UNCHANGED <<itemVars, shellVars>>
  PROVE  Inv'
<1>1. /\ NodeTyped /\ PageTyped /\ ItemTyped /\ PollTyped /\ ShellTyped /\ OnePage /\ ShowsOneOutcome
      /\ polls \in Seq(PollRecords) /\ shown \in Gots /\ Dating(shown)
  BY DEF Inv, PollTyped
<1>2. UNCHANGED <<nodeVars, page>>
  BY DEF PolledStep, TimerFires, PollFails, EndPoll, AnswerPart, Lose
<1>3. NodeTyped'
  <2>1. faults' \in 0..MaxFaults
    <3>1. faults' = faults \/ Lose
      BY DEF PolledStep, TimerFires, PollFails, EndPoll, AnswerPart
    <3>2. faults \in 0..MaxFaults /\ MaxFaults \in Nat
      BY <1>1, ApiConstants DEF NodeTyped
    <3> QED
      BY <3>1, <3>2 DEF Lose
  <2> QED
    BY <1>1, <1>2, <2>1 DEF NodeTyped, nodeVars
<1>4. PageTyped' /\ ItemTyped' /\ ShellTyped' /\ ShowsOneOutcome'
  BY <1>1, <1>2 DEF PageTyped, ItemTyped, ShellTyped, ShowsOneOutcome, OnItemPage, nodeVars, itemVars, shellVars
<1>5. OnePage'
  <2>1. TimerFires => OnPolledPage
    BY DEF TimerFires
  <2>2. (\E i \in DOMAIN polls : TRUE) => polls # <<>>
    BY <1>1
  <2>3. OnPolledPage
    BY <2>1, <2>2, BusyMeansOpen DEF PolledStep
  <2> QED
    BY <1>1, <1>2, <2>3 DEF OnePage, OnPolledPage, OnItemPage, NoItem, itemVars
<1>6. PollRecords' = PollRecords /\ (Dating(shown') <=> Dating(shown)')
  BY <1>2 DEF PollRecords, Dating, Now, nodeVars
<1>7. ASSUME NEW i \in DOMAIN polls
      PROVE  polls[i] \in PollRecords /\ \A r \in PollRecords : [polls EXCEPT ![i] = r] \in Seq(PollRecords)
  BY <1>1
<1>8. /\ polls' \in Seq(PollRecords) /\ shown' \in Gots /\ (shown' = shown \/ \E p \in PollRecords : shown' = p.got)
      /\ pollError' \in BOOLEAN /\ pollLoading' \in BOOLEAN
  <2>1. ASSUME TimerFires
        PROVE  polls' \in Seq(PollRecords) /\ UNCHANGED <<shown, pollError, pollLoading>>
    <3>1. polls' = Append(polls, Poll(Blank, FALSE)) /\ UNCHANGED <<shown, pollError, pollLoading>>
      BY <2>1 DEF TimerFires
    <3>2. Poll(Blank, FALSE) \in PollRecords
      BY BlankDated
    <3> QED
      BY <1>1, <3>1, <3>2, AppendProperties
  <2>2. ASSUME NEW i \in DOMAIN polls, PollFails(i)
        PROVE  polls' \in Seq(PollRecords) /\ UNCHANGED <<shown, pollError, pollLoading>>
    <3>1. polls' = [polls EXCEPT ![i] = Poll(Blank, TRUE)] /\ UNCHANGED <<shown, pollError, pollLoading>>
      BY <2>2 DEF PollFails
    <3> QED
      BY <1>7, <3>1, BlankDated
  <2>3. ASSUME NEW i \in DOMAIN polls, EndPoll(i)
        PROVE  /\ polls' \in Seq(PollRecords) /\ (shown' = shown \/ shown' = polls[i].got)
               /\ polls[i] \in PollRecords /\ pollError' \in BOOLEAN /\ pollLoading' \in BOOLEAN
    <3>1. polls' \in Seq(PollRecords)
      BY <1>1, <2>3, RemoveAtType DEF EndPoll
    <3>2. polls[i] \in PollRecords /\ polls[i].failed \in BOOLEAN
      BY <1>7 DEF PollRecords
    <3>3. pollError' \in BOOLEAN /\ pollLoading' \in BOOLEAN
      <4>1. pollError' = polls[i].failed /\ pollLoading' = FALSE
        BY <2>3, Zenon DEF EndPoll
      <4> QED
        BY <3>2, <4>1
    <3>4. shown' = shown \/ shown' = polls[i].got
      BY <2>3 DEF EndPoll
    <3> QED
      BY <3>1, <3>2, <3>3, <3>4
  <2>4. ASSUME NEW i \in DOMAIN polls, NEW s \in DOMAIN Asked, AnswerPart(i, s)
        PROVE  polls' \in Seq(PollRecords) /\ UNCHANGED <<shown, pollError, pollLoading>>
    <3> DEFINE v == IF Asked[s] \in Dated THEN Now ELSE Undated
               r == [polls[i] EXCEPT !.got = [polls[i].got EXCEPT ![Asked[s]] = v]]
    <3>1. polls[i] \in PollRecords /\ IsSent(polls[i], s)
      BY <1>7, <2>4 DEF AnswerPart
    <3>2. r \in PollRecords
      BY <3>1, AnsweredPart
    <3>3. polls' = [polls EXCEPT ![i] = r]
      BY <2>4 DEF AnswerPart
    <3>4. UNCHANGED <<shown, pollError, pollLoading>>
      BY <2>4 DEF AnswerPart
    <3> QED
      BY <1>7, <3>2, <3>3, <3>4
  <2>5. \A p \in PollRecords : p.got \in Gots
    BY DEF PollRecords
  <2>6. pollError \in BOOLEAN /\ pollLoading \in BOOLEAN
    BY <1>1 DEF PollTyped
  <2>7. CASE TimerFires
    BY <1>1, <2>1, <2>6, <2>7
  <2>8. ASSUME NEW i \in DOMAIN polls,
               PollFails(i) \/ EndPoll(i) \/ \E s \in DOMAIN Asked : AnswerPart(i, s)
        PROVE  /\ polls' \in Seq(PollRecords) /\ shown' \in Gots
               /\ (shown' = shown \/ \E p \in PollRecords : shown' = p.got)
               /\ pollError' \in BOOLEAN /\ pollLoading' \in BOOLEAN
    <3>1. CASE PollFails(i)
      BY <1>1, <2>2, <2>6, <3>1
    <3>2. CASE EndPoll(i)
      BY <1>1, <2>3, <2>5, <3>2
    <3>3. CASE \E s \in DOMAIN Asked : AnswerPart(i, s)
      BY <1>1, <2>4, <2>6, <3>3
    <3> QED
      BY <2>8, <3>1, <3>2, <3>3
  <2> QED
    BY <2>7, <2>8 DEF PolledStep
<1>9. Dating(shown)'
  BY <1>1, <1>6, <1>8 DEF PollRecords
<1>10. PollTyped'
  BY <1>6, <1>8, <1>9 DEF PollTyped
<1> QED
  BY <1>3, <1>4, <1>5, <1>10 DEF Inv

LEMMA FollowPreserves ==
  ASSUME Inv, FollowLink \/ handleSearch
  PROVE  Inv'
<1>1. CASE FollowLink
  <2>1. PICK k \in PageKinds : GoTo(Page(k, TRUE))
    BY <1>1 DEF FollowLink
  <2> QED
    BY <2>1, GoToPreserves
<1>2. CASE handleSearch
  <2>1. PICK query \in {"height", "txid", "block hash", "other"} : GoTo(SearchTarget(query))
    BY <1>2 DEF handleSearch
  <2>2. "block" \in PageKinds /\ "tx" \in PageKinds
    BY DEF PageKinds, ItemKinds
  <2>3. SearchTarget(query) \in {Page("block", TRUE), Page("tx", TRUE), Page("tx", FALSE), Page("block", FALSE)}
    BY DEF SearchTarget
  <2> QED
    BY <2>1, <2>2, <2>3, GoToPreserves
<1> QED
  BY <1>1, <1>2

LEMMA StutterPreserves ==
  ASSUME Inv, UNCHANGED vars
  PROVE  Inv'
<1>1. NodeTyped' /\ PageTyped' /\ ItemTyped' /\ ShellTyped' /\ OnePage' /\ ShowsOneOutcome'
  BY DEF Inv, NodeTyped, PageTyped, ItemTyped, ShellTyped, OnePage, NoItem, NoPolled, OnItemPage, OnPolledPage,
         ShowsOneOutcome, vars, nodeVars, itemVars, pollVars, shellVars
<1>2. PollTyped'
  BY DEF Inv, PollTyped, PollRecords, Dating, Now, vars, nodeVars, pollVars
<1> QED
  BY <1>1, <1>2 DEF Inv

LEMMA StepPreserves == Inv /\ [Next]_vars => Inv'
<1> SUFFICES ASSUME Inv, [Next]_vars PROVE Inv'
  OBVIOUS
<1>1. CASE NodeStep
  BY <1>1, NodeStepPreserves
<1>2. CASE ClickReset
  BY <1>2, ClickPreserves
<1>3. CASE ServeReset
  BY <1>3, ServePreserves
<1>4. CASE FollowLink \/ handleSearch
  BY <1>4, FollowPreserves
<1>5. CASE ItemStep /\ UNCHANGED <<pollVars, shellVars>>
  BY <1>5, ItemStepPreserves
<1>6. CASE PolledStep /\ UNCHANGED <<itemVars, shellVars>>
  BY <1>6, PolledStepPreserves
<1>7. CASE UNCHANGED vars
  BY <1>7, StutterPreserves
<1>8. CASE ResetFails
  BY <1>8, ResetFailsPreserves
<1> QED
  BY <1>1, <1>2, <1>3, <1>4, <1>5, <1>6, <1>7, <1>8 DEF Next

LEMMA SpecInv == Spec => []Inv
BY InitInv, StepPreserves, PTL DEF Spec

-------------------------------------------------------------------------------
(* Theorems *)

LEMMA InvTypes == Inv => ExplorerTypeOK
<1> SUFFICES ASSUME Inv PROVE ExplorerTypeOK
  OBVIOUS
<1>1. /\ tip \in 0..MaxTip /\ era \in 0..MaxResets /\ faults \in 0..MaxFaults
      /\ stored \in BOOLEAN /\ txHeight \in {None, ItemHeight}
  BY DEF Inv, NodeTyped
<1>2. page \in [kind : PageKinds \cup {"closed"}, exists : BOOLEAN, era : 0..era]
  BY DEF Inv, PageTyped
<1>3. /\ item \in Details \cup {None} /\ seen.item \in Details \cup {None}
      /\ lastKnown \in 0..MaxTip /\ seen.last \in 0..MaxTip
      /\ event \in Moments \cup {None}
  BY DEF Inv, ItemTyped
<1>4. {error, loading, pollError, pollLoading, resetting} \subseteq BOOLEAN
  <2>1. /\ error \in BOOLEAN /\ loading \in BOOLEAN /\ pollError \in BOOLEAN
        /\ pollLoading \in BOOLEAN /\ resetting \in BOOLEAN
    BY DEF Inv, ItemTyped, PollTyped, ShellTyped
  <2> QED
    BY <2>1
<1>5. \A r \in ToSet(requests) :
        /\ r.state \in {"sent", "found", "failed"}
        /\ r.item # None <=> r.state = "found"
        /\ r.late \in BOOLEAN
  <2>1. requests \in Seq(Fetches)
    BY DEF Inv, ItemTyped
  <2>2. \A r \in ToSet(requests) : r \in Fetches
    BY <2>1 DEF ToSet
  <2> QED
    BY <2>2 DEF Fetches
<1>6. shown \in [Parts -> Moments \cup {None}]
  BY DEF Inv, PollTyped, Gots
<1>7. (OnItemPage => NoPolled) /\ (OnPolledPage => NoItem)
  BY DEF Inv, OnePage, OnItemPage, OnPolledPage, ItemKinds, PolledKinds
<1>8. visits \in 0..MaxVisits /\ posted \in 0..MaxResets
  BY ApiConstants DEF Inv, ShellTyped, NodeTyped
<1> QED
  BY <1>1, <1>2, <1>3, <1>4, <1>5, <1>6, <1>7, <1>8 DEF ExplorerTypeOK

\* Type correctness of the explorer and the node it asks: every fetch holds the answer
\* its state says, and no page keeps anything of the page before it.
THEOREM ExplorerTypeCorrect == Spec => []ExplorerTypeOK
BY SpecInv, InvTypes, PTL

\* fetchBlock and fetchTransaction set item, error and loading so that a page that has
\* stopped loading shows one outcome, however many of its fetches overlap.
THEOREM AlwaysOneOutcome == Spec => []ShowsOneOutcome
<1>1. Inv => ShowsOneOutcome
  BY DEF Inv
<1> QED
  BY <1>1, SpecInv, PTL

\* The hook asks for the blocks after it was told the status, so a page never lists
\* blocks older than the height above them, even when the node is reset in between.
THEOREM ListNeverOlder == Spec => []BlocksNotOlderThanStatus
<1>1. Inv => BlocksNotOlderThanStatus
  BY DEF Inv, PollTyped, Dating, BlocksNotOlderThanStatus
<1> QED
  BY <1>1, SpecInv, PTL
===============================================================================
