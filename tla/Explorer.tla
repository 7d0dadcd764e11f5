------------------------------- MODULE Explorer -------------------------------
(***************************************************************************)
(* The explorer in one browser tab, next to the node it asks: the user     *)
(* opens pages through links, by address or from the search bar, and may   *)
(* reset the node from its status page, while the node's chain grows.      *)
(* One page is open at a time; its hook or component is ItemPage or        *)
(* PolledPage.                                                             *)
(***************************************************************************)
EXTENDS ItemPage, PolledPage

CONSTANT MaxVisits   \* bound: pages opened

ASSUME ExplorerConstants == MaxVisits \in Nat \ {0}

VARIABLES
  visits,     \* pages opened so far
  resetting,  \* the reset button of the open page waits for its answer
  posted      \* reset requests on their way to the node

shellVars == <<visits, resetting, posted>>
vars == <<nodeVars, faults, page, itemVars, pollVars, shellVars>>

PageKinds == ItemKinds \cup PolledKinds

Init ==
  /\ NodeInit
  /\ page = Page("closed", TRUE)
  /\ NoItem
  /\ NoPolled
  /\ visits = 0
  /\ resetting = FALSE
  /\ posted = 0

-------------------------------------------------------------------------------
(* The node *)

NodeStep ==
  /\ ExtendTip \/ SaveBlock
  /\ UNCHANGED <<faults, page, itemVars, pollVars, shellVars>>

\* handleReset once the dialogue is confirmed: the button is disabled until its request
\* is answered.  (Cancelling the dialogue disables and enables it in one go: a stutter.)
ClickReset ==
  /\ page.kind = "node"
  /\ ~resetting
  /\ posted < MaxResets - era
  /\ resetting' = TRUE
  /\ posted' = posted + 1
  /\ UNCHANGED <<nodeVars, faults, page, itemVars, pollVars, visits>>

\* The request that ends may be one an earlier visit of the page has left behind.
ButtonReleased == resetting' \in {FALSE, resetting /\ posted > 1}

ServeReset ==
  /\ posted > 0
  /\ ResetSync
  /\ posted' = posted - 1
  /\ ButtonReleased
  /\ UNCHANGED <<faults, page, itemVars, pollVars, visits>>

\* The request does not reach the node: handleReset's finally enables the button all the
\* same, and nothing tells the user.
ResetFails ==
  /\ posted > 0
  /\ Lose
  /\ posted' = posted - 1
  /\ ButtonReleased
  /\ UNCHANGED <<nodeVars, page, itemVars, pollVars, visits>>

-------------------------------------------------------------------------------
(* Going to a page *)

GoTo(p) ==
  /\ visits < MaxVisits
  /\ visits' = visits + 1
  /\ page' = p
  /\ resetting' = FALSE
  /\ IF p.kind \in ItemKinds THEN OpenItem /\ ClosePolled ELSE OpenPolled /\ CloseItem
  /\ UNCHANGED <<nodeVars, faults, posted>>

\* A link, or an address typed in.
FollowLink == \E k \in PageKinds : GoTo(Page(k, TRUE))

\* What the search bar of the home page opens.  A hash of 64 digits is taken for a
\* transaction's, the test for a block's hash after it is never reached; an address
\* only raises an alert; anything else is tried as a block, which no block answers to.
SearchTarget(query) ==
  CASE query = "height"      -> Page("block", TRUE)
    [] query = "txid"        -> Page("tx", TRUE)
    [] query = "block hash"  -> Page("tx", FALSE)
    [] query = "other"       -> Page("block", FALSE)

handleSearch ==
  /\ page.kind = "home"
  /\ \E query \in {"height", "txid", "block hash", "other"} : GoTo(SearchTarget(query))

-------------------------------------------------------------------------------
Next ==
  \/ NodeStep
  \/ ClickReset \/ ServeReset \/ ResetFails
  \/ FollowLink \/ handleSearch
  \/ ItemStep /\ UNCHANGED <<pollVars, shellVars>>
  \/ PolledStep /\ UNCHANGED <<itemVars, shellVars>>

Spec == Init /\ [][Next]_vars

\* Timers, renders, the stream and the node go on; every request is answered.
FairSpec ==
  /\ Spec
  /\ WF_vars(requests # <<>> /\ Answer(1) /\ UNCHANGED <<pollVars, shellVars>>)
  /\ WF_vars(requests # <<>> /\ Deliver(1) /\ UNCHANGED <<pollVars, shellVars>>)
  /\ WF_vars((Emit \/ OnMessage) /\ UNCHANGED <<pollVars, shellVars>>)
  /\ WF_vars(Rerender /\ UNCHANGED <<pollVars, shellVars>>)
  /\ WF_vars(TimerFires /\ UNCHANGED <<itemVars, shellVars>>)
  /\ WF_vars(polls # <<>> /\ (\E s \in DOMAIN Asked : AnswerPart(1, s))
               /\ UNCHANGED <<itemVars, shellVars>>)
  /\ WF_vars(polls # <<>> /\ EndPoll(1) /\ UNCHANGED <<itemVars, shellVars>>)

-------------------------------------------------------------------------------
(* Properties *)

\* Pages, requests and node state keep their types; each fetch holds an answer of the
\* open page's time, and a page holds only what its own kind keeps.
ExplorerTypeOK ==
  /\ tip \in 0..MaxTip /\ era \in 0..MaxResets /\ faults \in 0..MaxFaults
  /\ stored \in BOOLEAN /\ txHeight \in {None, ItemHeight}
  /\ page \in [kind: PageKinds \cup {"closed"}, exists: BOOLEAN, era: 0..era]
  /\ item \in Details \cup {None} /\ seen.item \in Details \cup {None}
  /\ {error, loading, pollError, pollLoading, resetting} \subseteq BOOLEAN
  /\ lastKnown \in 0..MaxTip /\ seen.last \in 0..MaxTip
  /\ event \in Moments \cup {None}
  /\ \A r \in ToSet(requests) :
       /\ r.state \in {"sent", "found", "failed"}
       /\ r.item # None <=> r.state = "found"
       /\ r.late \in BOOLEAN
  /\ shown \in [Parts -> Moments \cup {None}]
  /\ OnItemPage => NoPolled
  /\ OnPolledPage => NoItem
  /\ visits \in 0..MaxVisits /\ posted \in 0..MaxResets

\* Once a page has stopped loading it shows either its item or an error, never both and
\* never nothing, in whatever order overlapping fetches fail, succeed and end.
ShowsOneOutcome ==
  /\ item # None => ~error
  /\ OnItemPage /\ ~loading => (error <=> item = None)

\* Nothing is under way any more that could change what an item page shows.
Settled ==
  /\ OnItemPage
  /\ requests = <<>>
  /\ seen = Closure(item, lastKnown)
  /\ lastKnown = tip

\* Items that are meant to be refreshed: the last blocks, and transactions with few
\* confirmations.
Follows == /\ item # None
           /\ IF page.kind = "block" THEN tip - ItemHeight <= RecentBlocks
                                     ELSE item.conf < FewConfirmations

\* An item that should follow the chain does, as long as the node is not reset under
\* the page, with exactly two exceptions: an older answer was delivered last, or the
\* height was announced while the stream's handler did not know of the item yet, which
\* had been fetched before.
StaleOnlyForCause ==
  Settled /\ page.era = era /\ Follows /\ cause = {} => item.at = Now

\* The hook asks for the blocks after it has the status: a list of blocks never is
\* older than the height shown above it, even across a reset of the node.
BlocksNotOlderThanStatus ==
  shown["blocks"] # None => NotBefore(shown["blocks"], shown["status"])

\* A page does not load forever, whichever of its requests fail.
LoadingEnds == loading \/ pollLoading ~> ~(loading \/ pollLoading)

\* A page that polls gets over failures and over polls that overtook each other: when
\* the node rests, it ends up showing the node's state, and no error.
PollingCatchesUp ==
  <>[](OnPolledPage => /\ ~pollError
                       /\ \A s \in ToSet(Asked) \cap Dated : shown[s] = Now)

===============================================================================
