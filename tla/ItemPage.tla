------------------------------- MODULE ItemPage -------------------------------
(***************************************************************************)
(* The block and transaction pages of the explorer: the React hooks        *)
(* useRealTimeBlock and useRealTimeTransaction, which fetch their item     *)
(* when the page opens and again when the node's event stream announces a  *)
(* new height.                                                             *)
(*                                                                         *)
(* A fetch is sent, answered by the node and delivered in separate steps,  *)
(* and fetches overtake each other.  The stream's handler runs with the    *)
(* state of the render that installed it ("seen"): what it set itself, or  *)
(* a fetch delivered, is visible to it only after the next render has run  *)
(* its effect, which closes the stream and opens a new one.                *)
(***************************************************************************)
EXTENDS ExplorerApi

CONSTANTS
  RecentBlocks,      \* a block is refreshed up to this depth (10)
  FewConfirmations,  \* a transaction is refreshed below this many (6)
  MaxOpen            \* bound: fetches that are under way at once

ASSUME ItemPageConstants ==
  /\ RecentBlocks \in Nat
  /\ FewConfirmations \in Nat
  /\ MaxOpen \in Nat \ {0}

VARIABLES
  item,       \* block or transaction
  error,      \* an error is set
  loading,
  lastKnown,  \* lastKnownHeight
  seen,       \* item and lastKnownHeight in the closure of the stream's handler
  requests,   \* fetches under way, oldest first
  event,      \* the status on its way through the stream
  cause       \* why the item shown may be out of date for good (history)

itemVars == <<item, error, loading, lastKnown, seen, requests, event, cause>>

Details == [at: Moments, conf: 0..MaxTip]
ASSUME NoneIsNothing == None \notin Details /\ None \notin Moments

Request(state, detail, at) == [state |-> state, item |-> detail, at |-> at, late |-> FALSE]
Sent == Request("sent", None, None)
Closure(it, last) == [item |-> it, last |-> last]
OnItemPage == page.kind \in ItemKinds

-------------------------------------------------------------------------------
(* Opening and leaving *)

\* The first render, and its effects: fetchBlock is called and the stream opened.
OpenItem ==
  /\ item' = None
  /\ error' = FALSE
  /\ loading' = TRUE
  /\ lastKnown' = 0
  /\ seen' = Closure(None, 0)
  /\ requests' = <<Sent>>
  /\ event' = None
  /\ cause' = {}

NoItem ==
  /\ item = None /\ seen = Closure(None, 0) /\ lastKnown = 0
  /\ error = FALSE /\ loading = FALSE
  /\ requests = <<>> /\ event = None /\ cause = {}

\* Unmounted: a late answer no longer reaches a page.
CloseItem ==
  /\ item' = None /\ seen' = Closure(None, 0) /\ lastKnown' = 0
  /\ error' = FALSE /\ loading' = FALSE
  /\ requests' = <<>> /\ event' = None /\ cause' = {}

-------------------------------------------------------------------------------
(* Fetching *)

Answer(i) ==
  /\ requests[i].state = "sent"
  /\ requests' = [requests EXCEPT ![i] =
                    IF Found(page) THEN Request("found", Detail(page), Now)
                                   ELSE Request("failed", None, Now)]
  /\ UNCHANGED <<nodeVars, faults, page, item, error, loading, lastKnown, seen, event, cause>>

\* The connection fails, or the node answers with an error.
FetchFails(i) ==
  /\ requests[i].state = "sent"
  /\ Lose
  /\ requests' = [requests EXCEPT ![i] = Request("failed", None, Now)]
  /\ UNCHANGED <<nodeVars, page, item, error, loading, lastKnown, seen, event, cause>>

\* An answer is late when one that the node gave after it was delivered before: one at a
\* greater height, or at the same height after the transaction was confirmed.
Overtaken(j, i) ==
  /\ requests[j].state # "sent"
  /\ \/ ~NotBefore(requests[j].at, requests[i].at)
     \/ /\ requests[j].state = "found" /\ requests[i].state = "found"
        /\ requests[j].item.conf < requests[i].item.conf
Rest(i) == RemoveAt([j \in DOMAIN requests |->
                       [requests[j] EXCEPT !.late = @ \/ Overtaken(j, i)]], i)

\* Mutant: an error that was shown once is not taken back.
DeliverKeepsError(i) ==
  /\ requests[i].state # "sent"
  /\ item' = requests[i].item
  /\ error' = (error \/ requests[i].state = "failed")
  /\ loading' = FALSE
  /\ requests' = Rest(i)
  /\ cause' = IF requests[i].late THEN cause \cup {"overtaken"} ELSE cause \ {"overtaken"}
  /\ UNCHANGED <<nodeVars, faults, page, lastKnown, seen, event>>

\* Mutant: only a fetch that succeeds ends the loading state.
DeliverLoads(i) ==
  /\ requests[i].state # "sent"
  /\ item' = requests[i].item
  /\ error' = (requests[i].state = "failed")
  /\ loading' = (loading /\ requests[i].state = "failed")
  /\ requests' = Rest(i)
  /\ cause' = IF requests[i].late THEN cause \cup {"overtaken"} ELSE cause \ {"overtaken"}
  /\ UNCHANGED <<nodeVars, faults, page, lastKnown, seen, event>>

\* The rest of fetchBlock after its await.
Deliver(i) ==
  /\ requests[i].state # "sent"
  /\ item' = requests[i].item
  /\ error' = (requests[i].state = "failed")
  /\ loading' = FALSE
  /\ requests' = Rest(i)
  /\ cause' = IF requests[i].late THEN cause \cup {"overtaken"} ELSE cause \ {"overtaken"}
  /\ UNCHANGED <<nodeVars, faults, page, lastKnown, seen, event>>

-------------------------------------------------------------------------------
(* The event stream *)

\* The node sends its status when a stream opens and every two seconds after that.  An
\* event lost with its connection is one that was not sent.
Emit ==
  /\ OnItemPage
  /\ event = None
  /\ event' = Now
  /\ UNCHANGED <<nodeVars, faults, page, item, error, loading, lastKnown, seen, requests, cause>>

\* The effect runs again with the state of the last render, on a new stream.
Rerender ==
  /\ OnItemPage
  /\ seen # Closure(item, lastKnown)
  /\ seen' = Closure(item, lastKnown)
  /\ event' = None
  /\ UNCHANGED <<nodeVars, faults, page, item, error, loading, lastKnown, requests, cause>>

\* Mutant: a transaction is refreshed only while it has no confirmation at all.
NeedsRefreshUnconfirmed(it, height) ==
  /\ it # None
  /\ IF page.kind = "block" THEN height - ItemHeight <= RecentBlocks ELSE it.conf = 0

NeedsRefresh(it, height) ==
  /\ it # None
  /\ IF page.kind = "block" THEN height - ItemHeight <= RecentBlocks
                            ELSE it.conf = 0 \/ it.conf < FewConfirmations

\* A height is noted without a fetch.  If the page got its item, or its answer, from
\* before that height while the handler knew of none, nothing will bring it up to date.
NoteHeight ==
  /\ lastKnown' = event.tip
  /\ cause' = IF seen.item = None /\ (item # None \/ \E i \in DOMAIN requests :
                                        requests[i].state = "found")
              THEN cause \cup {"unseen"} ELSE cause
  /\ UNCHANGED <<loading, requests>>

RefreshForHeight ==
  /\ Len(requests) < MaxOpen
  /\ lastKnown' = event.tip
  /\ loading' = TRUE
  /\ requests' = Append(requests, Sent)
  /\ cause' = {}

OnMessage ==
  /\ event # None
  /\ event' = None
  /\ \/ /\ event.tip <= seen.last
        /\ UNCHANGED <<lastKnown, loading, requests, cause>>
     \/ /\ event.tip > seen.last
        /\ IF NeedsRefresh(seen.item, event.tip) THEN RefreshForHeight ELSE NoteHeight
  /\ UNCHANGED <<nodeVars, faults, page, item, error, seen>>

ItemStep ==
  \/ \E i \in DOMAIN requests : Answer(i) \/ FetchFails(i) \/ Deliver(i)
  \/ Emit \/ Rerender \/ OnMessage
===============================================================================
