---------------------------- MODULE FreshnessProofs ----------------------------
(***************************************************************************)
(* StaleOnlyForCause, for every height, depth limit and number of visits,  *)
(* resets, faults and overlapping fetches.                                 *)
(*                                                                         *)
(* The invariant follows every way in which an item page can come to be    *)
(* behind the height it has noted.  Its centre is that a fetch which will  *)
(* repair it is then under way (Repair), and that no delivery destroys the *)
(* last such fetch without marking all older answers as late.              *)
(***************************************************************************)
EXTENDS ExplorerProofs

\* The details a page shows, or did when the stream's handler was installed; and those
\* of the fetches under way.
Held == {item, seen.item} \ {None}
Fetched == {requests[i].item : i \in DOMAIN requests} \ {None}

\* An item that is meant to follow the chain.
Wants(d) == IF page.kind = "block" THEN tip - ItemHeight <= RecentBlocks
                                   ELSE d.conf < FewConfirmations
Behind(d) == d.at.tip < lastKnown /\ Wants(d)

\* What the node would answer for the number of confirmations; within an era it grows.
Confirmations == IF page.kind = "block" THEN BlockConfirmations ELSE TxConfirmations

\* Everything a page holds dates from its era, and no later than now.
DatesHold ==
  /\ lastKnown <= tip /\ seen.last <= lastKnown
  /\ event # None => event.tip \in lastKnown..tip
  /\ \A d \in Held \cup Fetched : d.at.era = era /\ d.at.tip <= tip /\ d.conf <= Confirmations
  /\ \A i \in DOMAIN requests : requests[i].state # "sent" =>
       /\ requests[i].at # None /\ requests[i].at.era = era /\ requests[i].at.tip <= tip
       /\ requests[i].state = "found" => requests[i].item.at = requests[i].at

\* Later answers have no fewer confirmations.
ConfirmationsGrow ==
  \A d, e \in Fetched : e.at.tip < d.at.tip => e.conf <= d.conf

\* A fetch that is still to be answered, or that was at the height noted or above it and
\* was not overtaken.
Repairs(r) == r.state = "sent" \/ (~r.late /\ r.at.tip >= lastKnown)
Repair == \E i \in DOMAIN requests : Repairs(requests[i])
Timely(r) == r.state = "found" /\ ~r.late

ItemIsRepaired == cause = {} /\ item # None /\ Behind(item) => Repair

AnswersAreRepaired ==
  "unseen" \notin cause =>
    \A i \in DOMAIN requests : Timely(requests[i]) /\ Behind(requests[i].item) => Repair

\* An item that has stopped following the chain is not replaced by one that has not.
StoppedStays ==
  /\ \A d \in Held : ~Wants(d) =>
       \A i \in DOMAIN requests : Timely(requests[i]) => ~Wants(requests[i].item)
  /\ "overtaken" \notin cause /\ seen.item # None /\ item # None /\ ~Wants(seen.item) => ~Wants(item)

FreshPage == DatesHold /\ ConfirmationsGrow /\ ItemIsRepaired /\ AnswersAreRepaired /\ StoppedStays
SameEra == OnItemPage /\ page.era = era
Fresh == SameEra => FreshPage

-------------------------------------------------------------------------------
(* Types, and what grows *)

LEMMA Typing ==
  ASSUME Inv
  PROVE  /\ tip \in Nat /\ era \in Nat /\ lastKnown \in Nat /\ seen.last \in Nat
         /\ ItemHeight \in Nat /\ RecentBlocks \in Nat /\ FewConfirmations \in Nat
         /\ Confirmations \in Int
         /\ event # None => event.tip \in Nat
         /\ requests \in Seq(Fetches)
         /\ \A i \in DOMAIN requests : requests[i] \in Fetches
         /\ \A d \in Held \cup Fetched :
              d # None /\ d \in Details /\ d.at \in Moments /\ d.at.era \in Nat /\ d.at.tip \in Nat /\ d.conf \in Nat
<1>1. NodeTyped /\ ItemTyped
  BY DEF Inv
<1>2. /\ tip \in Nat /\ era \in Nat /\ ItemHeight \in Nat /\ RecentBlocks \in Nat /\ FewConfirmations \in Nat
  BY <1>1, ApiConstants, ItemPageConstants DEF NodeTyped
<1>3. /\ lastKnown \in Nat /\ seen.last \in Nat /\ requests \in Seq(Fetches)
      /\ item \in Details \cup {None} /\ seen.item \in Details \cup {None}
  BY <1>1, ApiConstants DEF ItemTyped
<1>4. event # None => event.tip \in Nat
  <2>1. event \in Moments \cup {None}
    BY <1>1 DEF ItemTyped
  <2> QED
    BY <2>1, ApiConstants DEF Moments
<1>5. Confirmations \in Int
  BY <1>2 DEF Confirmations, BlockConfirmations, TxConfirmations
<1>6. \A i \in DOMAIN requests : requests[i] \in Fetches
  BY <1>3
<1>7. ASSUME NEW d \in Held \cup Fetched
      PROVE  d # None /\ d \in Details /\ d.at \in Moments /\ d.at.era \in Nat /\ d.at.tip \in Nat /\ d.conf \in Nat
  <2>1. d # None
    BY DEF Held, Fetched
  <2>2. d \in Details
    BY <1>3, <1>6, <2>1 DEF Held, Fetched, Fetches
  <2>3. d.at \in Moments /\ d.conf \in Nat
    BY <2>2, ApiConstants DEF Details
  <2> QED
    BY <2>1, <2>2, <2>3, ApiConstants DEF Moments
<1> QED
  BY <1>2, <1>3, <1>4, <1>5, <1>6, <1>7

LEMMA ConfirmationsRise ==
  ASSUME NodeTyped, page' = page, ExtendTip \/ SaveBlock
  PROVE  Confirmations <= Confirmations'
<1>1. tip \in Nat /\ ItemHeight \in Nat /\ txHeight \in {None, ItemHeight}
  BY ApiConstants DEF NodeTyped
<1>3. BlockConfirmations <= BlockConfirmations'
  <2>1. CASE ExtendTip
    BY <1>1, <2>1 DEF BlockConfirmations, ExtendTip
  <2>2. CASE SaveBlock
    BY <1>1, <2>2 DEF BlockConfirmations, SaveBlock
  <2> QED
    BY <2>1, <2>2
<1>4. TxConfirmations <= TxConfirmations'
  <2>1. CASE ExtendTip
    BY <1>1, <2>1 DEF TxConfirmations, ExtendTip
  <2>2. CASE SaveBlock
    BY <1>1, <2>2 DEF TxConfirmations, SaveBlock
  <2> QED
    BY <2>1, <2>2
<1> QED
  BY <1>3, <1>4 DEF Confirmations

\* An item with more confirmations is no more in need of following the chain.
LEMMA WantsFewer ==
  ASSUME NEW d, NEW e, d.conf \in Int, e.conf \in Int, FewConfirmations \in Int, d.conf <= e.conf, Wants(e)
  PROVE  Wants(d)
BY DEF Wants

\* What the node answers is the number of confirmations of that moment.
LEMMA AnswerNow ==
  ASSUME Inv, OnItemPage, Found(page)
  PROVE  Detail(page).at = Now /\ Detail(page).conf = Confirmations /\ Detail(page) # None
<1>1. Detail(page) # None
  BY DetailType DEF Inv
<1> QED
  BY <1>1 DEF Detail, Confirmations

-------------------------------------------------------------------------------
(* The node, and going to a page *)

LEMMA NodeKeepsFresh ==
  ASSUME Inv, Fresh, NodeStep
  PROVE  Fresh'
<1> SUFFICES ASSUME SameEra' PROVE FreshPage'
  BY DEF Fresh
<1>1. /\ UNCHANGED <<page, era, item, lastKnown, seen, requests, event, cause>>
  BY DEF NodeStep, ExtendTip, SaveBlock, itemVars
<1>2. FreshPage
  BY <1>1 DEF Fresh, SameEra, OnItemPage
<1>3. tip \in Nat /\ tip' \in Nat /\ tip <= tip' /\ Confirmations <= Confirmations' /\ Confirmations' \in Int
  <2>1. NodeTyped /\ tip \in Nat /\ ItemHeight \in Nat
    BY Typing DEF Inv
  <2>2. Confirmations <= Confirmations'
    BY <1>1, <2>1, ConfirmationsRise DEF NodeStep
  <2>3. tip' \in Nat /\ tip <= tip'
    BY <2>1 DEF NodeStep, ExtendTip, SaveBlock
  <2>4. Confirmations' \in Int
    BY <2>1, <2>3 DEF Confirmations, BlockConfirmations, TxConfirmations
  <2> QED
    BY <2>1, <2>2, <2>3, <2>4
<1>4. Held' = Held /\ Fetched' = Fetched
  BY <1>1 DEF Held, Fetched
<1>5. ASSUME NEW d
      PROVE  (Wants(d)' => Wants(d)) /\ (page.kind # "block" => (Wants(d)' <=> Wants(d)))
  <2>1. RecentBlocks \in Nat /\ ItemHeight \in Nat /\ tip \in Nat
    BY Typing
  <2>2. tip' = tip \/ tip' = tip + 1
    BY DEF NodeStep, ExtendTip, SaveBlock
  <2>3. CASE tip' = tip
    BY <1>1, <2>3 DEF Wants
  <2>4. CASE tip' = tip + 1
    BY <1>1, <2>1, <2>4 DEF Wants
  <2> QED
    BY <2>2, <2>3, <2>4
<1>6. DatesHold'
  <2>1. /\ lastKnown \in Nat /\ (event # None => event.tip \in Nat) /\ Confirmations \in Int
        /\ \A d \in Held \cup Fetched : d.at.tip \in Nat /\ d.conf \in Nat
    BY Typing
  <2>2. DatesHold
    BY <1>2 DEF FreshPage
  <2>3. \A i \in DOMAIN requests : requests[i].at # None => requests[i].at.tip \in Nat
    BY Typing, ApiConstants DEF Fetches, Moments
  <2>4. \A d \in Held' \cup Fetched' : d.at.era = era' /\ d.at.tip <= tip' /\ d.conf <= Confirmations'
    BY <1>1, <1>3, <1>4, <2>1, <2>2 DEF DatesHold
  <2>5. \A i \in DOMAIN requests' : requests'[i].state # "sent" =>
          /\ requests'[i].at # None /\ requests'[i].at.era = era' /\ requests'[i].at.tip <= tip'
          /\ requests'[i].state = "found" => requests'[i].item.at = requests'[i].at
    BY <1>1, <1>3, <2>2, <2>3 DEF DatesHold
  <2>6. lastKnown' <= tip' /\ seen'.last <= lastKnown' /\ (event' # None => event'.tip \in lastKnown'..tip')
    BY <1>1, <1>3, <2>1, <2>2 DEF DatesHold
  <2> QED
    BY <2>4, <2>5, <2>6 DEF DatesHold
<1>7. ConfirmationsGrow'
  BY <1>2, <1>4 DEF FreshPage, ConfirmationsGrow
<1>8. Repair' <=> Repair
  BY <1>1 DEF Repair, Repairs
<1>9. \A d : Behind(d)' => Behind(d)
  BY <1>1, <1>5 DEF Behind
<1>10. ItemIsRepaired' /\ AnswersAreRepaired'
  BY <1>1, <1>2, <1>8, <1>9 DEF FreshPage, ItemIsRepaired, AnswersAreRepaired, Timely
<1>11. StoppedStays'
  <2>1. CASE page.kind = "block"
    <3>1. \A d, e : Wants(d)' <=> Wants(e)'
      BY <1>1, <2>1 DEF Wants
    <3> QED
      BY <3>1 DEF StoppedStays
  <2>2. CASE page.kind # "block"
    <3>1. \A d : Wants(d)' <=> Wants(d)
      BY <1>5, <2>2
    <3>2. StoppedStays
      BY <1>2 DEF FreshPage
    <3> QED
      BY <1>1, <1>4, <3>1, <3>2 DEF StoppedStays, Timely
  <2> QED
    BY <2>1, <2>2
<1> QED
  BY <1>6, <1>7, <1>10, <1>11 DEF FreshPage

\* A page that opens holds nothing and has a fetch under way.
LEMMA OpeningIsFresh ==
  ASSUME Inv, NEW p, GoTo(p)
  PROVE  Fresh'
<1> SUFFICES ASSUME OnItemPage' PROVE FreshPage'
  BY DEF Fresh, SameEra
<1>1. OpenItem /\ UNCHANGED <<tip, era>>
  BY DEF GoTo, OnItemPage, nodeVars
<1>2. Held' = {} /\ Fetched' = {} /\ requests' = <<Sent>> /\ item' = None /\ seen'.item = None
      /\ lastKnown' = 0 /\ seen'.last = 0 /\ event' = None /\ tip' \in Nat
  BY <1>1, Typing DEF OpenItem, Closure, Held, Fetched, Sent, Request
<1>3. DatesHold' /\ ConfirmationsGrow'
  BY <1>2 DEF DatesHold, ConfirmationsGrow, Sent, Request
<1>4. ItemIsRepaired' /\ AnswersAreRepaired' /\ StoppedStays'
  BY <1>2 DEF ItemIsRepaired, AnswersAreRepaired, StoppedStays, Timely, Sent, Request
<1> QED
  BY <1>3, <1>4 DEF FreshPage

\* A reset begins an era that no open page belongs to.
LEMMA ResetIsFresh ==
  ASSUME Inv, ServeReset
  PROVE  Fresh'
<1>1. page' = page /\ era' = era + 1 /\ era \in Nat /\ page.era \in 0..era
  BY Typing DEF ServeReset, ResetSync, Inv, PageTyped
<1> QED
  BY <1>1 DEF Fresh, SameEra

-------------------------------------------------------------------------------
(* The fetches *)

\* What Deliver makes of the fetches that are left.
Aged(j, i) == [requests[j] EXCEPT !.late = @ \/ Overtaken(j, i)]

LEMMA RemoveAtItems ==
  ASSUME NEW S, NEW s \in Seq(S), NEW i \in 1..Len(s)
  PROVE  /\ Len(RemoveAt(s, i)) = Len(s) - 1 /\ RemoveAt(s, i) \in Seq(S)
         /\ \A k \in 1..(Len(s) - 1) : RemoveAt(s, i)[k] = IF k < i THEN s[k] ELSE s[k + 1]
<1> DEFINE front == SubSeq(s, 1, i - 1)
           back == SubSeq(s, i + 1, Len(s))
<1>1. Len(s) \in Nat
  OBVIOUS
<1>2. front \in Seq(S) /\ Len(front) = i - 1 /\ \A k \in 1..(i - 1) : front[k] = s[k]
  BY <1>1, SubSeqProperties
<1>3. back \in Seq(S) /\ Len(back) = Len(s) - i /\ \A k \in 1..(Len(s) - i) : back[k] = s[i + k]
  <2>1. back \in Seq(S) /\ Len(back) = IF i + 1 <= Len(s) THEN Len(s) - (i + 1) + 1 ELSE 0
    BY <1>1, SubSeqProperties
  <2>2. \A k \in 1..(Len(s) - (i + 1) + 1) : back[k] = s[(i + 1) + k - 1]
    BY <1>1, SubSeqProperties
  <2> QED
    BY <1>1, <2>1, <2>2
<1> HIDE DEF front, back
<1>4. Len(front \o back) = Len(s) - 1 /\ front \o back \in Seq(S)
  <2>1. front \o back \in Seq(S) /\ Len(front \o back) = Len(front) + Len(back)
    BY <1>2, <1>3, ConcatProperties
  <2> QED
    BY <1>1, <1>2, <1>3, <2>1
<1>5. ASSUME NEW k \in 1..(Len(s) - 1)
      PROVE  (front \o back)[k] = IF k < i THEN s[k] ELSE s[k + 1]
  <2>1. CASE k < i
    BY <1>1, <1>2, <1>3, <2>1
  <2>2. CASE ~(k < i)
    <3>1. (front \o back)[k] = back[k - (i - 1)] /\ k - (i - 1) \in 1..(Len(s) - i)
      BY <1>1, <1>2, <1>3, <2>2
    <3>2. back[k - (i - 1)] = s[i + (k - (i - 1))] /\ i + (k - (i - 1)) = k + 1
      BY <1>1, <1>3, <3>1
    <3> QED
      BY <2>2, <3>1, <3>2
  <2> QED
    BY <2>1, <2>2
<1> QED
  BY <1>4, <1>5 DEF RemoveAt, front, back

LEMMA RestTakes ==
  ASSUME ItemTyped, NEW i \in DOMAIN requests
  PROVE  /\ \A k \in DOMAIN Rest(i) : \E j \in DOMAIN requests \ {i} : Rest(i)[k] = Aged(j, i)
         /\ \A j \in DOMAIN requests \ {i} : \E k \in DOMAIN Rest(i) : Rest(i)[k] = Aged(j, i)
<1> DEFINE aged == [j \in DOMAIN requests |-> Aged(j, i)]
           n == Len(requests)
<1>1. n \in Nat /\ DOMAIN requests = 1..n /\ i \in 1..n
  BY DEF ItemTyped
<1>2. aged \in Seq({aged[j] : j \in 1..n}) /\ Len(aged) = n /\ Rest(i) = RemoveAt(aged, i)
  BY <1>1 DEF Rest, Aged
<1>3. \A j \in 1..n : aged[j] = Aged(j, i)
  BY <1>1
<1> HIDE DEF aged, n
<1>4. DOMAIN Rest(i) = 1..(n - 1) /\ \A k \in 1..(n - 1) : Rest(i)[k] = IF k < i THEN aged[k] ELSE aged[k + 1]
  <2> DEFINE S == {aged[j] : j \in 1..n}
  <2>1. aged \in Seq(S) /\ i \in 1..Len(aged)
    BY <1>1, <1>2
  <2> HIDE DEF S
  <2>2. /\ Len(Rest(i)) = n - 1 /\ Rest(i) \in Seq(S)
        /\ \A k \in 1..(n - 1) : Rest(i)[k] = IF k < i THEN aged[k] ELSE aged[k + 1]
    BY <1>2, <2>1, RemoveAtItems
  <2> QED
    BY <2>2
<1>5. ASSUME NEW k \in 1..(n - 1)
      PROVE  \E j \in (1..n) \ {i} : Rest(i)[k] = Aged(j, i)
  <2>1. CASE k < i
    BY <1>1, <1>3, <1>4, <2>1
  <2>2. CASE ~(k < i)
    <3>1. k + 1 \in (1..n) \ {i} /\ Rest(i)[k] = aged[k + 1]
      BY <1>1, <1>4, <2>2
    <3> QED
      BY <1>3, <3>1
  <2> QED
    BY <2>1, <2>2
<1>6. ASSUME NEW j \in (1..n) \ {i}
      PROVE  \E k \in 1..(n - 1) : Rest(i)[k] = Aged(j, i)
  <2>1. CASE j < i
    BY <1>1, <1>3, <1>4, <2>1
  <2>2. CASE ~(j < i)
    <3>1. j - 1 \in 1..(n - 1) /\ ~(j - 1 < i) /\ (j - 1) + 1 = j
      BY <1>1, <2>2
    <3>2. Rest(i)[j - 1] = aged[j]
      BY <1>4, <3>1
    <3> QED
      BY <1>3, <3>1, <3>2
  <2> QED
    BY <2>1, <2>2
<1> QED
  BY <1>1, <1>4, <1>5, <1>6

\* An answer is as new as can be, so that the page has a repair under way again.
LEMMA AnswerKeepsFresh ==
  ASSUME Inv, FreshPage, NEW i \in DOMAIN requests, NEW r \in Fetches,
         page.era = era, r.state # "sent", ~r.late, r.at = Now,
         r.state = "found" => r.item.at = Now /\ r.item.conf = Confirmations,
         requests' = [requests EXCEPT ![i] = r],
         UNCHANGED <<nodeVars, page, item, lastKnown, seen, event, cause>>
  PROVE  FreshPage'
<1>1. /\ DOMAIN requests' = DOMAIN requests /\ requests'[i] = r
      /\ \A j \in DOMAIN requests : j # i => requests'[j] = requests[j]
  OBVIOUS
<1>2. /\ tip \in Nat /\ lastKnown \in Nat /\ Confirmations \in Int /\ FewConfirmations \in Nat
      /\ \A d \in Held \cup Fetched : d.at.tip \in Nat /\ d.conf \in Nat
      /\ Now.era = era /\ Now.tip = tip
  BY Typing DEF Now
<1>3. DatesHold /\ ConfirmationsGrow /\ StoppedStays
  BY DEF FreshPage
<1>4. /\ UNCHANGED <<tip, era, page, item, lastKnown, seen, event, cause>>
      /\ Confirmations' = Confirmations /\ Held' = Held
      /\ \A d : Wants(d)' <=> Wants(d)
  BY DEF nodeVars, Confirmations, BlockConfirmations, TxConfirmations, Held, Wants
<1>5. Fetched' \subseteq Fetched \cup ({r.item} \ {None}) /\ (r.item # None <=> r.state = "found")
  BY <1>1 DEF Fetched, Fetches
<1>6. DatesHold'
  <2>1. \A d \in Held' \cup Fetched' : d.at.era = era' /\ d.at.tip <= tip' /\ d.conf <= Confirmations'
    BY <1>2, <1>3, <1>4, <1>5 DEF DatesHold
  <2>2. \A j \in DOMAIN requests' : requests'[j].state # "sent" =>
          /\ requests'[j].at # None /\ requests'[j].at.era = era' /\ requests'[j].at.tip <= tip'
          /\ requests'[j].state = "found" => requests'[j].item.at = requests'[j].at
    <3>1. Now # None
      BY NowType, NoneIsNothing DEF Inv
    <3> QED
      BY <1>1, <1>2, <1>3, <1>4, <3>1 DEF DatesHold
  <2>3. lastKnown' <= tip' /\ seen'.last <= lastKnown' /\ (event' # None => event'.tip \in lastKnown'..tip')
    BY <1>3, <1>4 DEF DatesHold
  <2> QED
    BY <2>1, <2>2, <2>3 DEF DatesHold
<1>7. ConfirmationsGrow'
  <2> SUFFICES ASSUME NEW d \in Fetched', NEW e \in Fetched', e.at.tip < d.at.tip
               PROVE  e.conf <= d.conf
    BY DEF ConfirmationsGrow
  <2>1. CASE e \in Fetched /\ d \in Fetched
    BY <1>3, <2>1 DEF ConfirmationsGrow
  <2>2. CASE e \notin Fetched
    BY <1>2, <1>3, <1>5, <2>2 DEF DatesHold
  <2>3. CASE e \in Fetched /\ d \notin Fetched
    BY <1>2, <1>3, <1>5, <2>3 DEF DatesHold
  <2> QED
    BY <2>1, <2>2, <2>3
<1>8. Repair'
  <2>1. Repairs(r)'
    BY <1>2, <1>3, <1>4 DEF Repairs, DatesHold
  <2> QED
    BY <1>1, <2>1 DEF Repair, Repairs
<1>9. ItemIsRepaired' /\ AnswersAreRepaired'
  BY <1>8 DEF ItemIsRepaired, AnswersAreRepaired
<1>10. StoppedStays'
  <2>1. ASSUME NEW d \in Held, ~Wants(d), NEW j \in DOMAIN requests, Timely(requests'[j])
        PROVE  ~Wants(requests'[j].item)
    <3>1. CASE j # i
      BY <1>1, <1>3, <2>1, <3>1 DEF StoppedStays
    <3>2. CASE j = i
      <4>1. requests'[j] = r /\ r.item.conf = Confirmations /\ d.conf <= Confirmations
        BY <1>1, <1>3, <2>1, <3>2 DEF Timely, DatesHold
      <4> QED
        BY <1>2, <2>1, <4>1, WantsFewer
    <3> QED
      BY <3>1, <3>2
  <2>2. \A d \in Held : ~Wants(d) =>
          \A j \in DOMAIN requests' : Timely(requests'[j]) => ~Wants(requests'[j].item)
    BY <1>1, <2>1
  <2> QED
    BY <1>3, <1>4, <2>2 DEF StoppedStays, Timely, Wants
<1> QED
  BY <1>6, <1>7, <1>9, <1>10 DEF FreshPage

LEMMA AgedFetch ==
  ASSUME Inv, NEW i \in DOMAIN requests, NEW j \in DOMAIN requests
  PROVE  /\ Aged(j, i).state = requests[j].state /\ Aged(j, i).item = requests[j].item
         /\ Aged(j, i).at = requests[j].at
         /\ Aged(j, i).late <=> requests[j].late \/ Overtaken(j, i)
<1>1. requests[j] \in Fetches
  BY Typing
<1> QED
  BY <1>1 DEF Aged, Fetches

\* A delivery either was at the height noted or above, and then makes every answer from
\* below it late; or it was below, and then spares the fetch that repairs the page.
LEMMA RepairSurvives ==
  ASSUME Inv, FreshPage, NEW i \in DOMAIN requests, requests[i].state # "sent",
         requests[i].at.tip < lastKnown, Repair
  PROVE  \E k \in DOMAIN Rest(i) : Repairs(Rest(i)[k])
<1>1. PICK j \in DOMAIN requests : Repairs(requests[j])
  BY DEF Repair
<1>2. requests[i] \in Fetches /\ requests[j] \in Fetches /\ lastKnown \in Nat
  BY Typing
<1>3. DatesHold /\ ConfirmationsGrow
  BY DEF FreshPage
<1>4. requests[i].at \in Moments /\ requests[i].at.tip \in Nat
  BY <1>2, <1>3, ApiConstants DEF DatesHold, Fetches, Moments
<1>5. j # i
  BY <1>1, <1>2, <1>4 DEF Repairs
<1>6. Repairs(Aged(j, i))
  <2>1. CASE requests[j].state = "sent"
    BY <2>1, AgedFetch DEF Repairs
  <2>2. CASE requests[j].state # "sent"
    <3>1. ~requests[j].late /\ requests[j].at.tip >= lastKnown
      BY <1>1, <2>2 DEF Repairs
    <3>2. requests[j].at.tip \in Nat /\ requests[j].at.era = era /\ requests[i].at.era = era
      BY <1>2, <1>3, <2>2, ApiConstants DEF DatesHold, Fetches, Moments
    <3>3. requests[i].at.tip < requests[j].at.tip
      BY <1>2, <1>4, <3>1, <3>2
    <3>4. NotBefore(requests[j].at, requests[i].at)
      BY <1>4, <3>2, <3>3 DEF NotBefore
    <3>5. ASSUME requests[j].state = "found", requests[i].state = "found"
          PROVE  requests[i].item.conf <= requests[j].item.conf
      <4>1. /\ requests[i].item # None /\ requests[j].item # None
            /\ requests[i].item.at = requests[i].at /\ requests[j].item.at = requests[j].at
        BY <1>2, <1>3, <3>5 DEF DatesHold, Fetches
      <4>2. requests[i].item \in Fetched /\ requests[j].item \in Fetched
        BY <4>1 DEF Fetched
      <4> QED
        BY <1>3, <3>3, <4>1, <4>2 DEF ConfirmationsGrow
    <3>6. ASSUME requests[j].state = "found", requests[i].state = "found"
          PROVE  ~(requests[j].item.conf < requests[i].item.conf)
      <4>1. requests[i].item.conf \in Nat /\ requests[j].item.conf \in Nat
        BY <1>2, <3>6, Typing DEF Fetched, Fetches
      <4> QED
        BY <3>5, <3>6, <4>1
    <3>7. ~Overtaken(j, i)
      BY <3>4, <3>6 DEF Overtaken
    <3> QED
      BY <3>1, <3>7, AgedFetch DEF Repairs
  <2> QED
    BY <2>1, <2>2
<1>7. PICK k \in DOMAIN Rest(i) : Rest(i)[k] = Aged(j, i)
  BY <1>5, RestTakes DEF Inv
<1> QED
  BY <1>6, <1>7

LEMMA DeliverKeepsFresh ==
  ASSUME Inv, FreshPage, NEW i \in DOMAIN requests, Deliver(i)
  PROVE  FreshPage'
<1> DEFINE r == requests[i]
<1>1. /\ r.state # "sent" /\ item' = r.item /\ requests' = Rest(i)
      /\ cause' = IF r.late THEN cause \cup {"overtaken"} ELSE cause \ {"overtaken"}
      /\ UNCHANGED <<tip, era, stored, txHeight, page, lastKnown, seen, event>>
  BY DEF Deliver, nodeVars
<1>2. DatesHold /\ ConfirmationsGrow /\ ItemIsRepaired /\ AnswersAreRepaired /\ StoppedStays
  BY DEF FreshPage
<1>3. /\ r \in Fetches /\ lastKnown \in Nat /\ r.at.tip \in Nat
      /\ r.state \in {"found", "failed"} /\ (item' # None <=> r.state = "found")
  BY <1>1, <1>2, Typing, ApiConstants DEF Fetches, DatesHold, Moments
<1>4. ASSUME NEW k \in DOMAIN requests'
      PROVE  \E j \in DOMAIN requests \ {i} :
               /\ requests'[k].state = requests[j].state /\ requests'[k].item = requests[j].item
               /\ requests'[k].at = requests[j].at
               /\ requests'[k].late <=> requests[j].late \/ Overtaken(j, i)
  <2>1. PICK j \in DOMAIN requests \ {i} : requests'[k] = Aged(j, i)
    BY <1>1, <1>4, RestTakes DEF Inv
  <2> QED
    BY <2>1, AgedFetch
<1>5. /\ Confirmations' = Confirmations
      /\ \A d : (Wants(d)' <=> Wants(d)) /\ (Behind(d)' <=> Behind(d))
  BY <1>1 DEF Confirmations, BlockConfirmations, TxConfirmations, Wants, Behind
<1>6. Fetched' \subseteq Fetched /\ Held' \subseteq Held \cup Fetched /\ Held' \subseteq Held \cup ({r.item} \ {None})
  <2>1. Fetched' \subseteq Fetched
    BY <1>4 DEF Fetched
  <2>2. Held' \subseteq Held \cup ({r.item} \ {None})
    BY <1>1 DEF Held
  <2>3. {r.item} \ {None} \subseteq Fetched
    BY DEF Fetched
  <2> QED
    BY <2>1, <2>2, <2>3
<1>7. DatesHold'
  <2>1. \A d \in Held' \cup Fetched' : d.at.era = era' /\ d.at.tip <= tip' /\ d.conf <= Confirmations'
    BY <1>1, <1>2, <1>5, <1>6 DEF DatesHold
  <2>2. \A k \in DOMAIN requests' : requests'[k].state # "sent" =>
          /\ requests'[k].at # None /\ requests'[k].at.era = era' /\ requests'[k].at.tip <= tip'
          /\ requests'[k].state = "found" => requests'[k].item.at = requests'[k].at
    BY <1>1, <1>2, <1>4 DEF DatesHold
  <2>3. lastKnown' <= tip' /\ seen'.last <= lastKnown' /\ (event' # None => event'.tip \in lastKnown'..tip')
    BY <1>1, <1>2 DEF DatesHold
  <2> QED
    BY <2>1, <2>2, <2>3 DEF DatesHold
<1>8. ConfirmationsGrow'
  BY <1>2, <1>6 DEF ConfirmationsGrow
<1>9. ASSUME r.at.tip < lastKnown, Repair
      PROVE  Repair'
  <2>1. \E k \in DOMAIN requests' : Repairs(requests'[k])
    BY <1>1, <1>9, RepairSurvives
  <2> QED
    BY <1>1, <2>1 DEF Repair, Repairs
<1>10. ItemIsRepaired'
  <2> SUFFICES ASSUME cause' = {}, item' # None, Behind(item')
               PROVE  Repair'
    BY <1>1 DEF ItemIsRepaired, Behind, Wants
  <2>1. ~r.late /\ "unseen" \notin cause
    BY <1>1
  <2>2. Timely(r) /\ Behind(r.item)
    BY <1>1, <1>3, <2>1 DEF Timely
  <2>3. r.at.tip < lastKnown /\ Repair
    BY <1>2, <2>1, <2>2 DEF AnswersAreRepaired, Behind, Timely, DatesHold
  <2> QED
    BY <1>9, <2>3
<1>11. AnswersAreRepaired'
  <2> SUFFICES ASSUME "unseen" \notin cause', NEW k \in DOMAIN requests',
                      Timely(requests'[k]), Behind(requests'[k].item)
               PROVE  Repair'
    BY <1>1 DEF AnswersAreRepaired, Behind, Wants, Timely
  <2>1. PICK j \in DOMAIN requests \ {i} :
               /\ requests'[k].state = requests[j].state /\ requests'[k].item = requests[j].item
               /\ requests'[k].at = requests[j].at
               /\ requests'[k].late <=> requests[j].late \/ Overtaken(j, i)
    BY <1>4
  <2>2. Timely(requests[j]) /\ Behind(requests[j].item) /\ ~Overtaken(j, i) /\ "unseen" \notin cause
    BY <1>1, <2>1 DEF Timely
  <2>3. Repair
    BY <1>2, <2>2 DEF AnswersAreRepaired
  <2>4. r.at.tip < lastKnown
    <3>1. NotBefore(requests[j].at, r.at) /\ requests[j].at.tip < lastKnown /\ requests[j].at.era = r.at.era
      BY <1>1, <1>2, <2>2 DEF Overtaken, Timely, Behind, DatesHold
    <3>2. requests[j].at.tip \in Nat /\ requests[j].at.era \in Nat
      <4>1. requests[j] \in Fetches /\ requests[j].at # None
        BY <1>2, <2>2, Typing DEF Timely, DatesHold
      <4> QED
        BY <4>1, ApiConstants DEF Fetches, Moments
    <3> QED
      BY <1>3, <3>1, <3>2 DEF NotBefore
  <2> QED
    BY <1>9, <2>3, <2>4
<1>12. StoppedStays'
  <2>1. ASSUME NEW d \in Held', ~Wants(d), NEW j \in DOMAIN requests, Timely(requests[j]), ~Overtaken(j, i)
        PROVE  ~Wants(requests[j].item)
    <3>1. CASE d \in Held
      BY <1>2, <2>1, <3>1 DEF StoppedStays
    <3>2. CASE d = r.item /\ r.item # None
      <4>1. ~(requests[j].item.conf < r.item.conf)
        BY <1>1, <1>3, <2>1, <3>2 DEF Overtaken, Timely
      <4>2. r.item \in Fetched /\ requests[j].item \in Fetched
        <5>1. requests[j] \in Fetches
          BY Typing
        <5> QED
          BY <2>1, <3>2, <5>1 DEF Fetched, Timely, Fetches
      <4>3. r.item.conf \in Nat /\ requests[j].item.conf \in Nat /\ FewConfirmations \in Nat
        BY <4>2, Typing
      <4> QED
        BY <2>1, <3>2, <4>1, <4>3, WantsFewer
    <3> QED
      BY <1>6, <2>1, <3>1, <3>2
  <2>2. \A d \in Held' : ~Wants(d) => \A k \in DOMAIN requests' : Timely(requests'[k]) => ~Wants(requests'[k].item)
    <3> SUFFICES ASSUME NEW d \in Held', ~Wants(d), NEW k \in DOMAIN requests', Timely(requests'[k])
                 PROVE  ~Wants(requests'[k].item)
      OBVIOUS
    <3>1. PICK j \in DOMAIN requests \ {i} :
               /\ requests'[k].state = requests[j].state /\ requests'[k].item = requests[j].item
               /\ requests'[k].at = requests[j].at
               /\ requests'[k].late <=> requests[j].late \/ Overtaken(j, i)
      BY <1>4
    <3>2. Timely(requests[j]) /\ ~Overtaken(j, i)
      BY <3>1 DEF Timely
    <3> QED
      BY <2>1, <3>1, <3>2
  <2>3. ASSUME "overtaken" \notin cause', seen.item # None, item' # None, ~Wants(seen.item)
        PROVE  ~Wants(item')
    <3>1. Timely(r) /\ seen.item \in Held
      BY <1>1, <1>3, <2>3 DEF Timely, Held
    <3> QED
      BY <1>1, <1>2, <2>3, <3>1 DEF StoppedStays
  <2> QED
    BY <1>1, <2>2, <2>3 DEF StoppedStays, Timely, Wants
<1> QED
  BY <1>7, <1>8, <1>10, <1>11, <1>12 DEF FreshPage

-------------------------------------------------------------------------------
(* The event stream *)

\* What counts as wanting to follow the chain depends on the node and the page only.
LEMMA SameNode ==
  ASSUME UNCHANGED <<nodeVars, page>>
  PROVE  /\ UNCHANGED <<tip, era, page>> /\ Confirmations' = Confirmations
         /\ \A d : Wants(d)' <=> Wants(d)
BY DEF nodeVars, Confirmations, BlockConfirmations, TxConfirmations, Wants

LEMMA EmitKeepsFresh ==
  ASSUME Inv, FreshPage, Emit
  PROVE  FreshPage'
<1>1. event' = Now /\ UNCHANGED <<nodeVars, page, item, lastKnown, seen, requests, cause>>
  BY DEF Emit
<1>2. UNCHANGED <<tip, era, page>> /\ Confirmations' = Confirmations /\ \A d : Wants(d)' <=> Wants(d)
  BY <1>1, SameNode
<1>3. Held' = Held /\ Fetched' = Fetched
  BY <1>1 DEF Held, Fetched
<1>4. event'.tip \in lastKnown'..tip'
  BY <1>1, <1>2, Typing DEF Now, FreshPage, DatesHold
<1>5. DatesHold' /\ ConfirmationsGrow'
  BY <1>1, <1>2, <1>3, <1>4 DEF FreshPage, DatesHold, ConfirmationsGrow
<1>6. ItemIsRepaired' /\ AnswersAreRepaired'
  BY <1>1, <1>2 DEF FreshPage, ItemIsRepaired, AnswersAreRepaired, Behind, Wants, Repair, Repairs, Timely
<1>7. StoppedStays'
  BY <1>1, <1>2, <1>3 DEF FreshPage, StoppedStays, Wants, Timely
<1> QED
  BY <1>5, <1>6, <1>7 DEF FreshPage

LEMMA RerenderKeepsFresh ==
  ASSUME Inv, FreshPage, Rerender
  PROVE  FreshPage'
<1>1. /\ seen'.item = item /\ seen'.last = lastKnown /\ event' = None
      /\ UNCHANGED <<nodeVars, page, item, lastKnown, requests, cause>>
  BY DEF Rerender, Closure
<1>2. UNCHANGED <<tip, era, page>> /\ Confirmations' = Confirmations /\ \A d : Wants(d)' <=> Wants(d)
  BY <1>1, SameNode
<1>3. Held' \subseteq Held /\ Fetched' = Fetched /\ lastKnown \in Nat
  BY <1>1, Typing DEF Held, Fetched
<1>4. DatesHold' /\ ConfirmationsGrow'
  BY <1>1, <1>2, <1>3 DEF FreshPage, DatesHold, ConfirmationsGrow
<1>5. ItemIsRepaired' /\ AnswersAreRepaired'
  BY <1>1, <1>2 DEF FreshPage, ItemIsRepaired, AnswersAreRepaired, Behind, Wants, Repair, Repairs, Timely
<1>6. StoppedStays'
  BY <1>1, <1>2, <1>3 DEF FreshPage, StoppedStays, Wants, Timely
<1> QED
  BY <1>4, <1>5, <1>6 DEF FreshPage

\* A height that is higher than the one noted brings the page a fetch that will be
\* answered at it.
LEMMA RefreshKeepsFresh ==
  ASSUME Inv, FreshPage, OnMessage, NeedsRefresh(seen.item, event.tip), RefreshForHeight
  PROVE  FreshPage'
<1>1. /\ event # None /\ event' = None /\ lastKnown' = event.tip /\ cause' = {}
      /\ requests' = Append(requests, Sent)
      /\ UNCHANGED <<nodeVars, page, item, seen>>
  BY DEF OnMessage, RefreshForHeight
<1>2. UNCHANGED <<tip, era, page>> /\ Confirmations' = Confirmations /\ \A d : Wants(d)' <=> Wants(d)
  BY <1>1, SameNode
<1>3. /\ requests \in Seq(Fetches) /\ tip \in Nat /\ lastKnown \in Nat /\ seen.last \in Nat /\ event.tip \in Nat
      /\ FewConfirmations \in Nat
  BY <1>1, Typing
<1>4. DatesHold /\ ConfirmationsGrow /\ StoppedStays
  BY DEF FreshPage
<1>5. lastKnown <= event.tip /\ event.tip <= tip
  BY <1>1, <1>3, <1>4 DEF DatesHold
<1>6. /\ DOMAIN requests' = DOMAIN requests \cup {Len(requests) + 1} /\ requests'[Len(requests) + 1] = Sent
      /\ \A j \in DOMAIN requests : requests'[j] = requests[j]
  BY <1>1, <1>3
<1>7. Sent.state = "sent" /\ Sent.item = None
  BY DEF Sent, Request
<1>8. Held' = Held /\ Fetched' = Fetched
  <2>1. Held' = Held
    BY <1>1 DEF Held
  <2>2. Fetched' = Fetched
    BY <1>6, <1>7 DEF Fetched
  <2> QED
    BY <2>1, <2>2
<1>9. DatesHold'
  <2>1. lastKnown' <= tip' /\ seen'.last <= lastKnown' /\ event' = None
    BY <1>1, <1>2, <1>3, <1>4, <1>5 DEF DatesHold
  <2>2. \A j \in DOMAIN requests' : requests'[j].state # "sent" =>
          /\ requests'[j].at # None /\ requests'[j].at.era = era' /\ requests'[j].at.tip <= tip'
          /\ requests'[j].state = "found" => requests'[j].item.at = requests'[j].at
    BY <1>2, <1>4, <1>6, <1>7 DEF DatesHold
  <2>3. \A d \in Held' \cup Fetched' : d.at.era = era' /\ d.at.tip <= tip' /\ d.conf <= Confirmations'
    BY <1>2, <1>4, <1>8 DEF DatesHold
  <2> QED
    BY <2>1, <2>2, <2>3 DEF DatesHold
<1>10. ConfirmationsGrow'
  BY <1>4, <1>8 DEF ConfirmationsGrow
<1>11. Repair'
  BY <1>6, <1>7 DEF Repair, Repairs
<1>12. StoppedStays'
  <2>1. \A d \in Held' : ~Wants(d) =>
          \A j \in DOMAIN requests' : Timely(requests'[j]) => ~Wants(requests'[j].item)
    BY <1>4, <1>6, <1>7, <1>8 DEF StoppedStays, Timely
  <2>2. ASSUME seen.item # None, item # None, ~Wants(seen.item)
        PROVE  ~Wants(item)
    <3>1. CASE page.kind = "block"
      BY <2>2, <3>1 DEF Wants
    <3>2. CASE page.kind # "block"
      <4>1. seen.item.conf = 0 \/ seen.item.conf < FewConfirmations
        BY <3>2 DEF NeedsRefresh
      <4>2. seen.item \in Held /\ item \in Held
        BY <2>2 DEF Held
      <4>3. seen.item.conf \in Nat /\ item.conf \in Nat
        BY <4>2, Typing
      <4> QED
        BY <1>3, <2>2, <3>2, <4>1, <4>3 DEF Wants
    <3> QED
      BY <3>1, <3>2
  <2> QED
    BY <1>1, <1>2, <2>1, <2>2 DEF StoppedStays, Timely, Wants
<1> QED
  BY <1>9, <1>10, <1>11, <1>12 DEF FreshPage, ItemIsRepaired, AnswersAreRepaired

\* A height that is only noted was not of interest to what the handler saw; what the page
\* shows now, and what a timely answer will make it show, is of no more interest.
LEMMA NoteKeepsFresh ==
  ASSUME Inv, FreshPage, OnMessage, ~NeedsRefresh(seen.item, event.tip), NoteHeight
  PROVE  FreshPage'
<1>1. /\ event # None /\ event' = None /\ lastKnown' = event.tip
      /\ cause' = IF seen.item = None /\ (item # None \/ \E i \in DOMAIN requests : requests[i].state = "found")
                  THEN cause \cup {"unseen"} ELSE cause
      /\ UNCHANGED <<nodeVars, page, item, seen, requests>>
  BY DEF OnMessage, NoteHeight
<1>2. UNCHANGED <<tip, era, page>> /\ Confirmations' = Confirmations /\ \A d : Wants(d)' <=> Wants(d)
  BY <1>1, SameNode
<1>3. /\ tip \in Nat /\ lastKnown \in Nat /\ seen.last \in Nat /\ event.tip \in Nat
      /\ FewConfirmations \in Nat /\ RecentBlocks \in Nat /\ ItemHeight \in Nat
  BY <1>1, Typing
<1>4. DatesHold /\ ConfirmationsGrow /\ StoppedStays
  BY DEF FreshPage
<1>5. lastKnown <= event.tip /\ event.tip <= tip
  BY <1>1, <1>3, <1>4 DEF DatesHold
<1>6. Held' = Held /\ Fetched' = Fetched
  BY <1>1 DEF Held, Fetched
<1>7. DatesHold' /\ ConfirmationsGrow'
  <2>1. lastKnown' <= tip' /\ seen'.last <= lastKnown' /\ event' = None
    BY <1>1, <1>2, <1>3, <1>4, <1>5 DEF DatesHold
  <2> QED
    BY <1>1, <1>2, <1>4, <1>6, <2>1 DEF DatesHold, ConfirmationsGrow
<1>8. StoppedStays'
  BY <1>1, <1>2, <1>4, <1>6 DEF StoppedStays, Wants, Timely
<1>9. seen.item # None => ~Wants(seen.item) /\ seen.item \in Held
  <2> SUFFICES ASSUME seen.item # None PROVE ~Wants(seen.item) /\ seen.item \in Held
    OBVIOUS
  <2>1. seen.item \in Held
    BY DEF Held
  <2>2. seen.item.conf \in Nat
    BY <2>1, Typing
  <2>3. ~Wants(seen.item)
    BY <1>3, <1>5, <2>2 DEF NeedsRefresh, Wants
  <2> QED
    BY <2>1, <2>3
<1>10. ItemIsRepaired'
  <2> SUFFICES ASSUME cause' = {}, item # None
               PROVE  ~Wants(item)
    BY <1>1, <1>2 DEF ItemIsRepaired, Behind, Wants
  <2>1. seen.item # None /\ cause = {}
    BY <1>1
  <2> QED
    BY <1>4, <1>9, <2>1 DEF StoppedStays
<1>11. AnswersAreRepaired'
  <2> SUFFICES ASSUME "unseen" \notin cause', NEW i \in DOMAIN requests, Timely(requests[i])
               PROVE  ~Wants(requests[i].item)
    BY <1>1, <1>2 DEF AnswersAreRepaired, Behind, Wants, Timely
  <2>1. seen.item # None
    BY <1>1 DEF Timely
  <2> QED
    BY <1>4, <1>9, <2>1 DEF StoppedStays
<1> QED
  BY <1>7, <1>8, <1>10, <1>11 DEF FreshPage

LEMMA MessageKeepsFresh ==
  ASSUME Inv, FreshPage, OnMessage
  PROVE  FreshPage'
<1>1. CASE event.tip <= seen.last
  <2>1. event' = None /\ UNCHANGED <<nodeVars, page, item, seen, lastKnown, requests, cause>>
    <3>1. event.tip \in Nat /\ seen.last \in Nat
      BY Typing DEF OnMessage
    <3> QED
      BY <1>1, <3>1 DEF OnMessage
  <2>2. UNCHANGED <<tip, era, page>> /\ Confirmations' = Confirmations /\ \A d : Wants(d)' <=> Wants(d)
    BY <2>1, SameNode
  <2>3. Held' = Held /\ Fetched' = Fetched
    BY <2>1 DEF Held, Fetched
  <2>4. DatesHold' /\ ConfirmationsGrow'
    BY <2>1, <2>2, <2>3 DEF FreshPage, DatesHold, ConfirmationsGrow
  <2>5. ItemIsRepaired' /\ AnswersAreRepaired'
    BY <2>1, <2>2 DEF FreshPage, ItemIsRepaired, AnswersAreRepaired, Behind, Wants, Repair, Repairs, Timely
  <2>6. StoppedStays'
    BY <2>1, <2>2, <2>3 DEF FreshPage, StoppedStays, Wants, Timely
  <2> QED
    BY <2>4, <2>5, <2>6 DEF FreshPage
<1>2. CASE ~(event.tip <= seen.last)
  <2>1. CASE NeedsRefresh(seen.item, event.tip)
    BY <1>2, <2>1, RefreshKeepsFresh DEF OnMessage
  <2>2. CASE ~NeedsRefresh(seen.item, event.tip)
    BY <1>2, <2>2, NoteKeepsFresh DEF OnMessage
  <2> QED
    BY <2>1, <2>2
<1> QED
  BY <1>1, <1>2

-------------------------------------------------------------------------------
(* The specification *)

LEMMA ItemStepKeepsFresh ==
  ASSUME Inv, Fresh, ItemStep
  PROVE  Fresh'
<1>1. UNCHANGED <<nodeVars, page>>
  BY DEF ItemStep, Answer, FetchFails, Deliver, Emit, Rerender, OnMessage, Lose
<1> SUFFICES ASSUME page.era = era, OnItemPage, FreshPage
             PROVE  FreshPage'
  BY <1>1 DEF Fresh, SameEra, OnItemPage, nodeVars
<1>2. Now \in Moments
  BY NowType DEF Inv
<1>3. ASSUME NEW i \in DOMAIN requests, Answer(i) \/ FetchFails(i)
      PROVE  FreshPage'
  <2> DEFINE failed == Request("failed", None, Now)
             found == Request("found", Detail(page), Now)
  <2>1. UNCHANGED <<nodeVars, page, item, lastKnown, seen, event, cause>>
    BY <1>3 DEF Answer, FetchFails
  <2>2. CASE requests' = [requests EXCEPT ![i] = failed]
    <3>1. /\ failed \in Fetches /\ failed.state = "failed" /\ ~failed.late /\ failed.at = Now
      BY <1>2, RequestType DEF Request
    <3> HIDE DEF failed
    <3> QED
      BY <2>1, <2>2, <3>1, AnswerKeepsFresh
  <2>3. CASE Found(page) /\ requests' = [requests EXCEPT ![i] = found]
    <3>1. Detail(page) \in Details /\ Detail(page).at = Now /\ Detail(page).conf = Confirmations
      BY <2>3, AnswerNow, DetailType DEF Inv
    <3>2. /\ found \in Fetches /\ found.state = "found" /\ ~found.late /\ found.at = Now
          /\ found.item.at = Now /\ found.item.conf = Confirmations
      BY <1>2, <3>1, RequestType DEF Request
    <3> HIDE DEF found
    <3> QED
      BY <2>1, <2>3, <3>2, AnswerKeepsFresh
  <2> QED
    BY <1>3, <2>2, <2>3 DEF Answer, FetchFails
<1>4. ASSUME NEW i \in DOMAIN requests, Deliver(i)
      PROVE  FreshPage'
  BY <1>4, DeliverKeepsFresh
<1> QED
  BY <1>3, <1>4, EmitKeepsFresh, RerenderKeepsFresh, MessageKeepsFresh DEF ItemStep

LEMMA InitFresh == Init => Fresh
<1> SUFFICES ASSUME Init PROVE ~OnItemPage
  BY DEF Fresh, SameEra
<1> QED
  BY DEF Init, Page, OnItemPage, ItemKinds

LEMMA StepKeepsFresh == Inv /\ Fresh /\ [Next]_vars => Fresh'
<1> SUFFICES ASSUME Inv, Fresh, [Next]_vars PROVE Fresh'
  OBVIOUS
<1>1. CASE UNCHANGED <<nodeVars, page, itemVars>>
  BY <1>1, SameNode DEF Fresh, SameEra, OnItemPage, FreshPage, DatesHold, ConfirmationsGrow, ItemIsRepaired,
     AnswersAreRepaired, StoppedStays, Repair, Repairs, Timely, Behind, Wants, Held, Fetched, itemVars
<1>2. CASE FollowLink \/ handleSearch
  BY <1>2, OpeningIsFresh DEF FollowLink, handleSearch
<1>3. PolledStep => UNCHANGED <<nodeVars, page>>
  BY DEF PolledStep, TimerFires, PollFails, EndPoll, AnswerPart, Lose
<1> QED
  BY <1>1, <1>2, <1>3, NodeKeepsFresh, ResetIsFresh, ItemStepKeepsFresh DEF Next, ClickReset, ResetFails, vars

LEMMA FreshIsEnough == Inv /\ Fresh => StaleOnlyForCause
<1> SUFFICES ASSUME Inv, Fresh, Settled, page.era = era, Follows, cause = {}
             PROVE  item.at = Now
  BY DEF StaleOnlyForCause
<1>1. FreshPage /\ requests = <<>> /\ lastKnown = tip /\ item # None /\ Wants(item)
  BY DEF Fresh, SameEra, Settled, Follows, Wants
<1>2. ~Repair
  BY <1>1 DEF Repair
<1>3. ~Behind(item)
  BY <1>1, <1>2 DEF FreshPage, ItemIsRepaired
<1>4. item \in Held
  BY <1>1 DEF Held
<1>5. item.at \in Moments /\ item.at.era = era /\ item.at.tip = tip
  <2>1. item.at \in Moments /\ item.at.tip \in Nat /\ tip \in Nat
    BY <1>4, Typing
  <2>2. item.at.era = era /\ item.at.tip <= tip /\ ~(item.at.tip < tip)
    BY <1>1, <1>3, <1>4 DEF FreshPage, DatesHold, Behind
  <2> QED
    BY <2>1, <2>2
<1> QED
  BY <1>5 DEF Moments, Now

\* useRealTimeBlock and useRealTimeTransaction: while the node is not reset, a page at
\* rest whose item is recent enough to be refreshed shows it as of the tip, unless an
\* older answer was delivered last or the handler did not know of the item when the
\* height came, for any number of overlapping fetches, losses and stream events.
THEOREM NeverStaleWithoutCause == Spec => []StaleOnlyForCause
<1>1. Spec => [](Inv /\ Fresh)
  BY InitInv, InitFresh, StepPreserves, StepKeepsFresh, PTL DEF Spec
<1> QED
  BY <1>1, FreshIsEnough, PTL
===============================================================================
