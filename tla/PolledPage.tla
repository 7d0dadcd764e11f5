------------------------------ MODULE PolledPage ------------------------------
(***************************************************************************)
(* The pages that poll the node: home and statistics through the hook      *)
(* useRealTimeData, node status through the component NodeStatus.          *)
(*                                                                         *)
(* A timer starts a poll whether or not the one before has ended.  The     *)
(* hook asks for the status, the latest blocks and the sporks one after    *)
(* the other, NodeStatus for its two parts at once; the page changes when  *)
(* the whole poll has succeeded or failed.  isConnected of the hook is not *)
(* kept: it is set together with the error, to its opposite.               *)
(***************************************************************************)
EXTENDS ExplorerApi

CONSTANT MaxPolls   \* bound: polls that are under way at once

ASSUME PolledPageConstants == MaxPolls \in Nat \ {0}

VARIABLES
  shown,       \* what the page shows of each part, by the moment it dates from
  pollError,   \* an error is set
  pollLoading,
  polls        \* polls under way, oldest first

pollVars == <<shown, pollError, pollLoading, polls>>

Parts == {"status", "blocks", "sporks", "torrent"}

\* The parts of a page's poll, in the order in which they are asked for.
Asked == CASE page.kind = "home"  -> <<"status", "blocks">>
           [] page.kind = "stats" -> <<"status", "blocks", "sporks">>
           [] page.kind = "node"  -> <<"status", "torrent">>
           [] OTHER               -> <<>>

\* Only two of the parts depend on the chain; the others are not dated.
Dated == {"status", "blocks"}
Undated == [era |-> 0, tip |-> 0]

Blank == [s \in Parts |-> None]
Poll(got, failed) == [got |-> got, failed |-> failed]
OnPolledPage == page.kind \in PolledKinds

\* The first effect: one poll now, and the timer.
OpenPolled ==
  /\ shown' = Blank
  /\ pollError' = FALSE
  /\ pollLoading' = TRUE
  /\ polls' = <<Poll(Blank, FALSE)>>

NoPolled == shown = Blank /\ pollError = FALSE /\ pollLoading = FALSE /\ polls = <<>>

ClosePolled == shown' = Blank /\ pollError' = FALSE /\ pollLoading' = FALSE /\ polls' = <<>>

TimerFires ==
  /\ OnPolledPage
  /\ Len(polls) < MaxPolls
  /\ polls' = Append(polls, Poll(Blank, FALSE))
  /\ UNCHANGED <<nodeVars, faults, page, shown, pollError, pollLoading>>

\* Mutant: the hook sends all its requests at once.
IsSentAtOnce(p, s) == ~p.failed /\ p.got[Asked[s]] = None

\* A request of the hook is sent when the one before it was answered; those of
\* NodeStatus are sent together.
IsSent(p, s) ==
  /\ ~p.failed
  /\ p.got[Asked[s]] = None
  /\ page.kind = "node" \/ \A r \in 1..(s - 1) : p.got[Asked[r]] # None

AnswerPart(i, s) ==
  /\ IsSent(polls[i], s)
  /\ polls' = [polls EXCEPT ![i].got[Asked[s]] =
                   IF Asked[s] \in Dated THEN Now ELSE Undated]
  /\ UNCHANGED <<nodeVars, faults, page, shown, pollError, pollLoading>>

\* The first failure ends the poll.
PollFails(i) ==
  /\ \E s \in DOMAIN Asked : IsSent(polls[i], s)
  /\ Lose
  /\ polls' = [polls EXCEPT ![i] = Poll(Blank, TRUE)]
  /\ UNCHANGED <<nodeVars, page, shown, pollError, pollLoading>>

Complete(p) == \A s \in DOMAIN Asked : p.got[Asked[s]] # None

\* Mutant: a later success does not clear the error.
EndPollKeepsError(i) ==
  /\ polls[i].failed \/ Complete(polls[i])
  /\ shown' = IF polls[i].failed THEN shown ELSE polls[i].got
  /\ pollError' = (pollError \/ polls[i].failed)
  /\ pollLoading' = FALSE
  /\ polls' = RemoveAt(polls, i)
  /\ UNCHANGED <<nodeVars, faults, page>>

\* A poll that succeeded replaces all parts; one that failed leaves them.
EndPoll(i) ==
  /\ polls[i].failed \/ Complete(polls[i])
  /\ shown' = IF polls[i].failed THEN shown ELSE polls[i].got
  /\ pollError' = polls[i].failed
  /\ pollLoading' = FALSE
  /\ polls' = RemoveAt(polls, i)
  /\ UNCHANGED <<nodeVars, faults, page>>

PolledStep ==
  \/ TimerFires
  \/ \E i \in DOMAIN polls :
       PollFails(i) \/ EndPoll(i) \/ \E s \in DOMAIN Asked : AnswerPart(i, s)
===============================================================================
