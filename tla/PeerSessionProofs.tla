-------------------------- MODULE PeerSessionProofs ----------------------------
(***************************************************************************)
(* Theorems of PeerSession, for every batch, limit, timeout and length of  *)
(* the chain: the types, and that no wanted block is silently forgotten.   *)
(*                                                                         *)
(* The second needs that every open request is answered by a message on    *)
(* its way or is in lost: then stall recovery, which empties the set of    *)
(* requests, takes nothing from what is tracked.                           *)
(***************************************************************************)
EXTENDS PeerSession, FiniteSetTheorems, TLAPS

Msg == [type : Messages, items : Seq(Blocks)]
Good(box) == box \in Seq(Msg) /\ \A i \in DOMAIN box : box[i].type = "block" => box[i].items # <<>>
InBox(box) == UNION {Elements(box[i].items) : i \in {j \in 1..Len(box) : box[j].type = "block"}}
Carried(m) == IF m.type = "block" THEN Elements(m.items) ELSE {}

-------------------------------------------------------------------------------
(* Elements of sequences *)

LEMMA ElementsType ==
  ASSUME NEW S, NEW s \in Seq(S)
  PROVE  Elements(s) \subseteq S
BY DEF Elements

LEMMA ElementsAppend ==
  ASSUME NEW S, NEW s \in Seq(S), NEW e \in S
  PROVE  Elements(Append(s, e)) = Elements(s) \cup {e}
<1>1. Len(Append(s, e)) = Len(s) + 1
  OBVIOUS
<1>2. \A i \in 1..Len(s) : Append(s, e)[i] = s[i]
  OBVIOUS
<1>3. Append(s, e)[Len(s) + 1] = e
  OBVIOUS
<1>4. Len(s) \in Nat
  OBVIOUS
<1> QED
  BY <1>1, <1>2, <1>3, <1>4 DEF Elements

LEMMA ElementsHeadTail ==
  ASSUME NEW S, NEW s \in Seq(S), s # <<>>
  PROVE  /\ Elements(s) = {Head(s)} \cup Elements(Tail(s))
         /\ Head(s) \in S /\ Tail(s) \in Seq(S) /\ Len(Tail(s)) = Len(s) - 1
<1>1. Len(s) \in Nat /\ Len(s) >= 1 /\ Len(Tail(s)) = Len(s) - 1 /\ Tail(s) \in Seq(S)
  OBVIOUS
<1>2. Head(s) = s[1] /\ \A i \in 1..(Len(s) - 1) : Tail(s)[i] = s[i + 1]
  OBVIOUS
<1>3. Elements(s) \subseteq {Head(s)} \cup Elements(Tail(s))
  <2> SUFFICES ASSUME NEW i \in 1..Len(s), i # 1
               PROVE  s[i] \in Elements(Tail(s))
    BY <1>2 DEF Elements
  <2>1. i - 1 \in 1..Len(Tail(s)) /\ Tail(s)[i - 1] = s[i]
    BY <1>1, <1>2
  <2> QED
    BY <2>1 DEF Elements
<1>4. {Head(s)} \cup Elements(Tail(s)) \subseteq Elements(s)
  <2>1. \A i \in 1..Len(Tail(s)) : i + 1 \in 1..Len(s) /\ Tail(s)[i] = s[i + 1]
    BY <1>1, <1>2
  <2>2. 1 \in 1..Len(s)
    BY <1>1
  <2> QED
    BY <1>2, <2>1, <2>2 DEF Elements
<1> QED
  BY <1>1, <1>2, <1>3, <1>4

LEMMA OrdersType ==
  ASSUME NEW S \in SUBSET Blocks, NEW s \in Orders(S)
  PROVE  s \in Seq(Blocks) /\ Elements(s) = S
<1>1. IsFiniteSet(Blocks)
  BY FS_Interval, SessionConstants DEF Blocks
<1>2. Cardinality(S) \in Nat
  BY <1>1, FS_Subset, FS_CardinalityType
<1> QED
  BY <1>2 DEF Orders

-------------------------------------------------------------------------------
(* The inbox *)

LEMMA AppendBox ==
  ASSUME NEW box, Good(box), NEW m \in Msg, m.type = "block" => m.items # <<>>
  PROVE  Good(Append(box, m)) /\ InBox(Append(box, m)) = InBox(box) \cup Carried(m)
<1> DEFINE new == Append(box, m)
<1>1. Len(new) = Len(box) + 1 /\ new \in Seq(Msg) /\ Len(box) \in Nat
  BY DEF Good
<1>2. (\A i \in 1..Len(box) : new[i] = box[i]) /\ new[Len(box) + 1] = m
  BY DEF Good
<1>3. Good(new)
  BY <1>1, <1>2 DEF Good
<1>4. InBox(new) \subseteq InBox(box) \cup Carried(m)
  BY <1>1, <1>2 DEF InBox, Carried
<1>5. InBox(box) \cup Carried(m) \subseteq InBox(new)
  <2>1. InBox(box) \subseteq InBox(new)
    BY <1>1, <1>2 DEF InBox
  <2>2. Len(box) + 1 \in 1..Len(new)
    BY <1>1
  <2>3. Carried(m) \subseteq InBox(new)
    BY <2>2, <1>2 DEF InBox, Carried
  <2> QED
    BY <2>1, <2>3
<1> QED
  BY <1>3, <1>4, <1>5

LEMMA TailBox ==
  ASSUME NEW box, Good(box), box # <<>>
  PROVE  /\ Good(Tail(box)) /\ Head(box) \in Msg
         /\ Head(box).type = "block" => Head(box).items # <<>>
         /\ InBox(box) = Carried(Head(box)) \cup InBox(Tail(box))
<1>1. Len(box) \in Nat /\ Len(box) >= 1 /\ Len(Tail(box)) = Len(box) - 1 /\ Tail(box) \in Seq(Msg)
  BY DEF Good
<1>2. Head(box) = box[1] /\ Head(box) \in Msg /\ \A i \in 1..(Len(box) - 1) : Tail(box)[i] = box[i + 1]
  BY DEF Good
<1>3. \A i \in 1..Len(Tail(box)) : i + 1 \in 1..Len(box) /\ Tail(box)[i] = box[i + 1]
  BY <1>1, <1>2
<1>4. 1 \in 1..Len(box)
  BY <1>1
<1>5. Good(Tail(box)) /\ (Head(box).type = "block" => Head(box).items # <<>>)
  BY <1>1, <1>2, <1>3, <1>4 DEF Good
<1>6. InBox(box) \subseteq Carried(Head(box)) \cup InBox(Tail(box))
  <2> SUFFICES ASSUME NEW i \in 1..Len(box), box[i].type = "block", i # 1
               PROVE  Elements(box[i].items) \subseteq InBox(Tail(box))
    BY <1>2 DEF InBox, Carried
  <2>1. i - 1 \in 1..Len(Tail(box)) /\ Tail(box)[i - 1] = box[i]
    BY <1>1, <1>2
  <2> QED
    BY <2>1 DEF InBox
<1>7. Carried(Head(box)) \cup InBox(Tail(box)) \subseteq InBox(box)
  BY <1>2, <1>3, <1>4 DEF InBox, Carried
<1> QED
  BY <1>2, <1>5, <1>6, <1>7

LEMMA ConsBox ==
  ASSUME NEW box, Good(box), NEW m \in Msg, m.type = "block" => m.items # <<>>
  PROVE  Good(<<m>> \o box) /\ InBox(<<m>> \o box) = Carried(m) \cup InBox(box)
<1> DEFINE new == <<m>> \o box
<1>1. Len(new) = Len(box) + 1 /\ new \in Seq(Msg) /\ Len(box) \in Nat
  BY DEF Good
<1>2. new[1] = m /\ \A i \in 1..Len(box) : new[i + 1] = box[i]
  BY DEF Good
<1> HIDE DEF new
<1>3. \A i \in 1..Len(new) : i = 1 \/ (i - 1 \in 1..Len(box) /\ new[i] = box[i - 1])
  <2> TAKE i \in 1..Len(new)
  <2> SUFFICES ASSUME i # 1 PROVE i - 1 \in 1..Len(box) /\ new[i] = box[i - 1]
    OBVIOUS
  <2>1. i - 1 \in 1..Len(box)
    BY <1>1
  <2>2. new[(i - 1) + 1] = box[i - 1] /\ (i - 1) + 1 = i
    BY <1>2, <2>1
  <2> QED
    BY <2>1, <2>2
<1>4. 1 \in 1..Len(new) /\ \A i \in 1..Len(box) : i + 1 \in 1..Len(new)
  BY <1>1
<1>5. Good(new)
  <2>1. DOMAIN new = 1..Len(new) /\ DOMAIN box = 1..Len(box)
    BY <1>1 DEF Good
  <2>2. ASSUME NEW i \in DOMAIN new, new[i].type = "block" PROVE new[i].items # <<>>
    BY <1>2, <1>3, <2>1, <2>2 DEF Good
  <2> QED
    BY <1>1, <2>2 DEF Good
<1>6. InBox(new) \subseteq Carried(m) \cup InBox(box)
  BY <1>2, <1>3 DEF InBox, Carried
<1>7. Carried(m) \cup InBox(box) \subseteq InBox(new)
  BY <1>2, <1>4 DEF InBox, Carried
<1> QED
  BY <1>5, <1>6, <1>7 DEF new

-------------------------------------------------------------------------------
(* What the peer's answers do *)

\* The invariant: besides the property and the types, every open request is
\* answered by a message on its way or counted as lost.
Answered == requested \subseteq InTransit \cup lost
Inv == SessionTypeOK /\ Answered /\ WantedBlocksAreTracked

LEMMA InboxTyped ==
  ASSUME SessionTypeOK
  PROVE  Good(inbox) /\ InTransit = InBox(inbox)
BY DEF SessionTypeOK, Good, Msg, InTransit, InBox

LEMMA MessageTyped ==
  ASSUME NEW t \in Messages, NEW s \in Seq(Blocks)
  PROVE  Message(t, s) \in Msg /\ Message(t, s).type = t /\ Message(t, s).items = s
BY DEF Message, Msg

LEMMA AnnouncedByInv ==
  ASSUME NEW box, Good(box), NEW s \in Seq(Blocks)
  PROVE  /\ Good(Append(box, Message("inv", s)))
         /\ InBox(box) \subseteq InBox(Append(box, Message("inv", s)))
<1>1. Message("inv", s) \in Msg /\ Message("inv", s).type = "inv"
  BY MessageTyped DEF Messages
<1> QED
  BY <1>1, AppendBox

LEMMA AnnouncedByHeaders ==
  ASSUME NEW box, Good(box), NEW s \in Seq(Blocks)
  PROVE  /\ Good(Append(box, Message("headers", s)))
         /\ InBox(box) \subseteq InBox(Append(box, Message("headers", s)))
<1>1. Message("headers", s) \in Msg /\ Message("headers", s).type = "headers"
  BY MessageTyped DEF Messages
<1> QED
  BY <1>1, AppendBox

LEMMA BlocksAnswer ==
  ASSUME SessionTypeOK, NEW box, Good(box), AnswerGetBlocks(box)
  PROVE  /\ Good(inbox') /\ InBox(box) \subseteq InBox(inbox')
         /\ known' \subseteq Blocks /\ continueAt' \in 0..peerTop
<1> DEFINE last == Least(tip + InvLimit, peerTop)
           next == (tip + 1)..last
<1>1. tip \in Nat /\ peerTop \in 0..MaxTop /\ last \in Nat /\ last <= peerTop /\ MaxTop \in Nat
  BY SessionConstants DEF SessionTypeOK, Least
<1>2. next \subseteq Blocks
  BY <1>1 DEF Blocks
<1>3. known' = known \cup next /\ continueAt' = IF last = tip + InvLimit THEN last ELSE continueAt
  BY DEF AnswerGetBlocks
<1>4. known' \subseteq Blocks /\ continueAt' \in 0..peerTop
  BY <1>1, <1>2, <1>3 DEF SessionTypeOK
<1>5. PICK offered \in {next, next \ known} : \E s \in Ascending(offered) :
          inbox' = IF s = <<>> THEN box ELSE Append(box, Message("inv", s))
  BY DEF AnswerGetBlocks
<1>6. PICK s \in Ascending(offered) :
          inbox' = IF s = <<>> THEN box ELSE Append(box, Message("inv", s))
  BY <1>5
<1>7. s \in Seq(Blocks)
  BY <1>2, OrdersType DEF Ascending
<1>8. CASE s = <<>>
  BY <1>4, <1>6, <1>8
<1>9. CASE s # <<>>
  BY <1>4, <1>6, <1>7, <1>9, AnnouncedByInv
<1> QED
  BY <1>8, <1>9

LEMMA HeadersAnswer ==
  ASSUME SessionTypeOK, NEW box, Good(box), AnswerGetHeaders(box)
  PROVE  /\ Good(inbox') /\ InBox(box) \subseteq InBox(inbox')
         /\ known' \subseteq Blocks /\ continueAt' \in 0..peerTop
<1>1. CASE AnswerGetBlocks(box)
  BY <1>1, BlocksAnswer
<1>2. CASE ~AnswerGetBlocks(box)
  <2> DEFINE last == Least(tip + HeadersPerMsg, peerTop)
  <2>1. tip \in Nat /\ peerTop \in 0..MaxTop /\ last \in Nat /\ last <= peerTop /\ MaxTop \in Nat
    BY SessionConstants DEF SessionTypeOK, Least
  <2>2. (tip + 1)..last \subseteq Blocks
    BY <2>1 DEF Blocks
  <2>3. PICK s \in Ascending((tip + 1)..last) : inbox' = Append(box, Message("headers", s))
    BY <1>2 DEF AnswerGetHeaders
  <2>4. s \in Seq(Blocks)
    BY <2>2, OrdersType DEF Ascending
  <2>5. UNCHANGED <<known, continueAt>>
    BY <1>2 DEF AnswerGetHeaders
  <2> QED
    BY <2>3, <2>4, <2>5, AnnouncedByHeaders DEF SessionTypeOK
<1> QED
  BY <1>1, <1>2

LEMMA DataAnswer ==
  ASSUME SessionTypeOK, NEW box, Good(box), NEW s \in Seq(Blocks), AnswerGetData(box, s)
  PROVE  /\ Good(inbox') /\ InBox(box) \subseteq InBox(inbox')
         /\ Elements(s) \subseteq InBox(inbox') \cup lost'
         /\ lost \subseteq lost' /\ lost' \subseteq Blocks
         /\ continueAt' \in 0..peerTop /\ faults' \in 0..MaxFaults
<1>1. Elements(s) \subseteq Blocks
  BY ElementsType
<1>2. CASE UNCHANGED <<lost, faults>> /\ s = <<>> /\ inbox' = box /\ continueAt' = continueAt
  BY <1>2 DEF SessionTypeOK, Elements
<1>3. CASE /\ s # <<>> /\ UNCHANGED <<lost, faults>>
           /\ inbox' = WithContinuation(Append(box, Message("block", s)), s)
           /\ continueAt' = IF continueAt \in Elements(s) THEN 0 ELSE continueAt
  <2> DEFINE sent == Append(box, Message("block", s))
  <2>1. Message("block", s) \in Msg /\ Message("block", s).items = s /\ Message("block", s).type = "block"
    BY MessageTyped DEF Messages
  <2>2. Good(sent) /\ InBox(sent) = InBox(box) \cup Elements(s)
    BY <1>3, <2>1, AppendBox DEF Carried
  <2>3. CASE continueAt \in Elements(s)
    <3>1. peerTop \in Blocks
      BY <1>1, <2>3, SessionConstants DEF SessionTypeOK, Blocks
    <3>2. <<peerTop>> \in Seq(Blocks)
      BY <3>1
    <3>3. inbox' = Append(sent, Message("inv", <<peerTop>>))
      BY <1>3, <2>3 DEF WithContinuation
    <3>4. Good(inbox') /\ InBox(sent) \subseteq InBox(inbox')
      BY <2>2, <3>2, <3>3, AnnouncedByInv
    <3> QED
      BY <1>3, <2>2, <2>3, <3>1, <3>4, SessionConstants DEF SessionTypeOK
  <2>4. CASE continueAt \notin Elements(s)
    <3>1. inbox' = sent
      BY <1>3, <2>4 DEF WithContinuation
    <3> QED
      BY <1>3, <2>2, <2>4, <3>1 DEF SessionTypeOK
  <2> QED
    BY <2>3, <2>4
<1>4. CASE /\ faults < MaxFaults /\ faults' = faults + 1 /\ lost' = lost \cup Elements(s)
           /\ inbox' = box /\ UNCHANGED continueAt
  BY <1>1, <1>4, SessionConstants DEF SessionTypeOK
<1> QED
  <2>1. CASE s = <<>>
    <3>1. Elements(s) = {}
      BY <2>1 DEF Elements
    <3> QED
      BY <1>2, <1>4, <2>1, <3>1 DEF AnswerGetData
  <2>2. CASE s # <<>>
    BY <1>3, <1>4, <2>2 DEF AnswerGetData
  <2> QED
    BY <2>1, <2>2

-------------------------------------------------------------------------------
(* Indexing a block, and taking a batch from the queue *)

IndexOK ==
  /\ height \in [Blocks -> Nat \cup {Unknown}]
  /\ tip \in 0..MaxTop /\ HeightOf(tip) # Unknown
  /\ early \in BOOLEAN

LEMMA IndexEffect ==
  ASSUME SessionTypeOK, NEW b \in Blocks, Index(b)
  PROVE  /\ IndexOK'
         /\ \A c \in Blocks : height'[c] # Unknown => height[c] # Unknown \/ c = b
<1>1. CASE height[b] # Unknown
  BY <1>1 DEF Index, SessionTypeOK, IndexOK, HeightOf
<1>2. CASE height[b] = Unknown
  <2> DEFINE parent == HeightOf(b - 1)
             new == (IF parent = Unknown THEN HeightOf(tip) ELSE parent) + 1
  <2>1. b \in 1..MaxTop /\ MaxTop \in Nat /\ Blocks = 1..MaxTop
    BY SessionConstants DEF Blocks
  <2>2. parent \in Nat \cup {Unknown} /\ HeightOf(tip) \in Nat
    BY <2>1 DEF HeightOf, SessionTypeOK, Unknown
  <2>3. new \in Nat
    BY <2>2
  <2>4. /\ height' = [height EXCEPT ![b] = new]
        /\ tip' = IF new > HeightOf(tip) THEN b ELSE tip
        /\ early' = (early \/ parent = Unknown)
    BY <1>2 DEF Index
  <2>5. early' \in BOOLEAN
    BY <2>4, Zenon
  <2> HIDE DEF new, parent
  <2>6. height' \in [Blocks -> Nat \cup {Unknown}] /\ height'[b] = new
    BY <2>3, <2>4 DEF SessionTypeOK
  <2>7. tip' \in 0..MaxTop
    BY <2>1, <2>4 DEF SessionTypeOK
  <2>8. HeightOf(tip)' # Unknown
    BY <2>1, <2>3, <2>4, <2>6 DEF SessionTypeOK, HeightOf, Unknown
  <2> QED
    BY <2>4, <2>5, <2>6, <2>7, <2>8 DEF IndexOK, SessionTypeOK
<1> QED
  BY <1>1, <1>2

LEMMA BatchEffect ==
  ASSUME SessionTypeOK, RequestBatch
  PROVE  /\ pending' \in Seq(Blocks) /\ Len(pending') <= MaxPending
         /\ \A i, j \in DOMAIN pending' : pending'[i] = pending'[j] => i = j
         /\ requested \subseteq requested' /\ requested' \subseteq Blocks
         /\ Elements(pending) \subseteq Elements(pending') \cup requested'
         /\ silence' \in 0..TimeoutTicks
         /\ Good(inbox') /\ InBox(inbox) \subseteq InBox(inbox')
         /\ requested' \subseteq requested \cup InBox(inbox') \cup lost'
         /\ lost \subseteq lost' /\ lost' \subseteq Blocks
         /\ continueAt' \in 0..peerTop /\ faults' \in 0..MaxFaults
<1>1. PICK n \in 0..Len(pending) :
        /\ pending' = SubSeq(pending, 1, n)
        /\ requested' = requested \cup Collected(n)
        /\ silence' = IF Collected(n) = {} THEN silence ELSE 0
        /\ \E s \in NewestFirst(Collected(n)) : AnswerGetData(inbox, s)
  BY DEF RequestBatch
<1>2. pending \in Seq(Blocks) /\ Len(pending) \in Nat /\ Len(pending) <= MaxPending /\ MaxPending \in Nat
  BY SessionConstants DEF SessionTypeOK
<1>3. /\ pending' \in Seq(Blocks) /\ Len(pending') = n
      /\ \A i \in 1..n : i \in 1..Len(pending) /\ pending'[i] = pending[i]
  BY <1>1, <1>2
<1>4. Collected(n) \subseteq Blocks
  BY <1>2 DEF Collected
<1>5. Elements(pending) \subseteq Elements(pending') \cup requested'
  <2> SUFFICES ASSUME NEW i \in 1..Len(pending)
               PROVE  pending[i] \in Elements(pending') \cup requested'
    BY DEF Elements
  <2>1. CASE i <= n
    BY <1>3, <2>1 DEF Elements
  <2>2. CASE i > n
    <3>1. i \in (n + 1)..Len(pending)
      BY <2>2
    <3> QED
      BY <1>1, <3>1 DEF Collected
  <2> QED
    BY <2>1, <2>2
<1>6. \A i, j \in DOMAIN pending' : pending'[i] = pending'[j] => i = j
  <2>1. DOMAIN pending' = 1..n /\ DOMAIN pending = 1..Len(pending)
    BY <1>2, <1>3
  <2>2. \A i, j \in 1..Len(pending) : pending[i] = pending[j] => i = j
    BY <2>1 DEF SessionTypeOK
  <2> QED
    BY <1>3, <2>1, <2>2
<1>7. PICK s \in NewestFirst(Collected(n)) : AnswerGetData(inbox, s)
  BY <1>1
<1>8. s \in Seq(Blocks) /\ Elements(s) = Collected(n)
  BY <1>4, OrdersType DEF NewestFirst
<1>9. /\ Good(inbox') /\ InBox(inbox) \subseteq InBox(inbox')
      /\ Collected(n) \subseteq InBox(inbox') \cup lost'
      /\ lost \subseteq lost' /\ lost' \subseteq Blocks
      /\ continueAt' \in 0..peerTop /\ faults' \in 0..MaxFaults
  BY <1>7, <1>8, DataAnswer, InboxTyped
<1>10. silence' \in 0..TimeoutTicks
  BY <1>1, SessionConstants DEF SessionTypeOK
<1>11. requested \subseteq requested' /\ requested' \subseteq Blocks
  BY <1>1, <1>4 DEF SessionTypeOK
<1>12. Len(pending') <= MaxPending
  BY <1>2, <1>3
<1>13. requested' \subseteq requested \cup InBox(inbox') \cup lost'
  BY <1>1, <1>9
<1> QED
  BY <1>3, <1>5, <1>6, <1>9, <1>10, <1>11, <1>12, <1>13

-------------------------------------------------------------------------------
(* Every action preserves the invariant *)

LEMMA InitInv == Init => Inv
<1> SUFFICES ASSUME Init PROVE Inv
  OBVIOUS
<1>1. MaxTop \in Nat /\ FirstTop \in 0..MaxTop /\ TimeoutTicks \in Nat \ {0} /\ MaxFaults \in Nat /\ MaxPending \in Nat
  BY SessionConstants
<1>2. SessionTypeOK
  <2>1. height \in [Blocks -> Nat \cup {Unknown}] /\ tip \in 0..MaxTop /\ HeightOf(tip) # Unknown
    BY <1>1 DEF Init, HeightOf, Unknown
  <2>2. /\ pending \in Seq(Blocks) /\ Len(pending) <= MaxPending
        /\ inbox \in Seq([type : Messages, items : Seq(Blocks)])
        /\ headers \in [rest : Seq(Blocks), size : Nat, new : Nat]
    BY <1>1 DEF Init, NoHeaders
  <2>3. DOMAIN pending = {} /\ DOMAIN inbox = {}
    BY DEF Init
  <2>4. /\ stored \subseteq Blocks /\ requested \subseteq Blocks /\ known \subseteq Blocks /\ lost \subseteq Blocks
        /\ pc \in {"off", "read", "headers"} /\ early \in BOOLEAN
        /\ headers = NoHeaders /\ pending = <<>> /\ requested = {} /\ inbox = <<>>
    BY DEF Init
  <2>5. /\ silence \in 0..TimeoutTicks /\ lastCount \in Nat /\ peerTop \in 0..MaxTop
        /\ continueAt \in 0..peerTop /\ faults \in 0..MaxFaults
    BY <1>1 DEF Init
  <2> QED
    BY <2>1, <2>2, <2>3, <2>4, <2>5 DEF SessionTypeOK
<1>3. requested = {} /\ \A b \in Blocks : height[b] = Unknown
  BY DEF Init
<1>4. Wanted = {}
  BY <1>3 DEF Wanted
<1> QED
  BY <1>2, <1>3, <1>4 DEF Inv, Answered, WantedBlocksAreTracked

LEMMA AnnouncePreserves ==
  ASSUME Inv, Announce
  PROVE  Inv'
<1>1. SessionTypeOK /\ Good(inbox) /\ InTransit = InBox(inbox) /\ InTransit' = InBox(inbox')
  BY InboxTyped DEF Inv, InTransit, InBox
<1>2. peerTop' \in 1..MaxTop /\ peerTop' = peerTop + 1 /\ MaxTop \in Nat
  BY <1>1, SessionConstants DEF Announce, SessionTypeOK
<1>3. Good(inbox') /\ InBox(inbox) \subseteq InBox(inbox') /\ known' \subseteq Blocks
  <2>1. CASE /\ inbox' = Append(inbox, Message("inv", <<peerTop'>>))
             /\ known' = known \cup {peerTop'}
    <3>1. <<peerTop'>> \in Seq(Blocks) /\ peerTop' \in Blocks
      BY <1>2 DEF Blocks
    <3> QED
      BY <1>1, <2>1, <3>1, AnnouncedByInv DEF SessionTypeOK
  <2>2. CASE /\ \E first \in 1..peerTop' : \E s \in Ascending(first..peerTop') :
                 inbox' = Append(inbox, Message("headers", s))
             /\ UNCHANGED known
    <3>1. PICK first \in 1..peerTop' : \E s \in Ascending(first..peerTop') :
                 inbox' = Append(inbox, Message("headers", s))
      BY <2>2
    <3>2. PICK s \in Ascending(first..peerTop') : inbox' = Append(inbox, Message("headers", s))
      BY <3>1
    <3>3. first..peerTop' \subseteq Blocks
      BY <1>2 DEF Blocks
    <3>4. s \in Seq(Blocks)
      BY <3>3, OrdersType DEF Ascending
    <3> QED
      BY <1>1, <2>2, <3>2, <3>4, AnnouncedByHeaders DEF SessionTypeOK
  <2> QED
    BY <2>1, <2>2 DEF Announce
<1>4. UNCHANGED <<nodeVars, sessionVars, continueAt, history>> /\ pc # "off"
  BY DEF Announce
<1>5. SessionTypeOK'
  BY <1>1, <1>2, <1>3, <1>4
     DEF SessionTypeOK, HeightOf, Good, Msg, nodeVars, sessionVars, history
<1> QED
  BY <1>1, <1>3, <1>4, <1>5
     DEF Inv, Answered, WantedBlocksAreTracked, Wanted, nodeVars, sessionVars, history

LEMMA AnnounceOtherPreserves ==
  ASSUME Inv, AnnounceOther
  PROVE  Inv'
<1>1. SessionTypeOK /\ Good(inbox) /\ InTransit = InBox(inbox) /\ InTransit' = InBox(inbox')
  BY InboxTyped DEF Inv, InTransit, InBox
<1>2. /\ inbox' = Append(inbox, Message("inv", <<>>)) /\ pc # "off"
      /\ UNCHANGED <<nodeVars, sessionVars, peerTop, continueAt, known, history>>
  BY DEF AnnounceOther, OtherInv
<1>3. Good(inbox') /\ InBox(inbox) \subseteq InBox(inbox')
  <2>1. <<>> \in Seq(Blocks)
    OBVIOUS
  <2> QED
    BY <1>1, <1>2, <2>1, AnnouncedByInv
<1>4. SessionTypeOK'
  BY <1>1, <1>2, <1>3
     DEF SessionTypeOK, HeightOf, Good, Msg, nodeVars, sessionVars, history
<1> QED
  BY <1>1, <1>2, <1>3, <1>4
     DEF Inv, Answered, WantedBlocksAreTracked, Wanted, nodeVars, sessionVars, history

LEMMA StartPreserves ==
  ASSUME Inv, StartSession
  PROVE  Inv'
<1>1. SessionTypeOK /\ InTransit' = InBox(inbox')
  BY DEF Inv, InTransit, InBox
<1>2. Good(<<>>) /\ inbox = <<>> /\ InBox(<<>>) = {} /\ InTransit = {}
  BY <1>1 DEF Good, StartSession, SessionTypeOK, InBox, InTransit
<1>3. Good(inbox') /\ known' \subseteq Blocks /\ continueAt' \in 0..peerTop
  BY <1>1, <1>2, BlocksAnswer DEF StartSession
<1>4. /\ UNCHANGED <<nodeVars, pending, requested, headers, silence, lastCount, peerTop, history>>
      /\ pc = "off" /\ pc' = "read"
  BY DEF StartSession
<1>5. SessionTypeOK'
  BY <1>1, <1>3, <1>4 DEF SessionTypeOK, HeightOf, Good, Msg, nodeVars, history
<1> QED
  BY <1>1, <1>2, <1>4, <1>5 DEF Inv, Answered, WantedBlocksAreTracked, Wanted, nodeVars, history

LEMMA EndPreserves ==
  ASSUME Inv, EndSession
  PROVE  Inv'
<1>1. SessionTypeOK /\ MaxFaults \in Nat /\ TimeoutTicks \in Nat /\ MaxPending \in Nat
  BY SessionConstants DEF Inv
<1>2. SessionTypeOK'
  BY <1>1 DEF EndSession, SessionTypeOK, HeightOf, Wanted, NoHeaders, nodeVars
<1>3. Wanted' = Wanted /\ Wanted \subseteq lost' /\ requested' = {}
  BY DEF EndSession, Wanted, nodeVars
<1> QED
  BY <1>2, <1>3 DEF Inv, Answered, WantedBlocksAreTracked

LEMMA InvPreserves ==
  ASSUME Inv, ReceiveInv
  PROVE  Inv'
<1>1. SessionTypeOK /\ Good(inbox) /\ InTransit = InBox(inbox) /\ InTransit' = InBox(inbox')
  BY InboxTyped DEF Inv, InTransit, InBox
<1>2. inbox # <<>> /\ Head(inbox).type = "inv" /\ pc = "read"
  BY DEF ReceiveInv, Reads
<1>3. Good(Tail(inbox)) /\ Items \in Seq(Blocks) /\ InBox(inbox) = InBox(Tail(inbox))
  BY <1>1, <1>2, TailBox DEF Items, Carried, Msg
<1>4. /\ Good(inbox') /\ InBox(Tail(inbox)) \subseteq InBox(inbox')
      /\ Elements(Items) \subseteq InBox(inbox') \cup lost'
      /\ lost \subseteq lost' /\ lost' \subseteq Blocks
      /\ continueAt' \in 0..peerTop /\ faults' \in 0..MaxFaults
  BY <1>1, <1>3, DataAnswer DEF ReceiveInv
<1>5. /\ UNCHANGED <<nodeVars, pc, pending, headers, lastCount, peerTop, known, early>>
      /\ requested' = requested \cup Elements(Items) /\ silence' = 0
  BY DEF ReceiveInv
<1>6. Elements(Items) \subseteq Blocks
  BY <1>3, ElementsType
<1>7. SessionTypeOK'
  BY <1>1, <1>2, <1>4, <1>5, <1>6, SessionConstants DEF SessionTypeOK, HeightOf, Good, Msg, nodeVars
<1> QED
  BY <1>1, <1>3, <1>4, <1>5, <1>7 DEF Inv, Answered, WantedBlocksAreTracked, Wanted, nodeVars

\* What reading the first block of an answer leaves tracked.
LEMMA ReadBlockEffect ==
  ASSUME Inv, ReadBlock
  PROVE  /\ Head(Items) \in Blocks /\ Good(inbox')
         /\ InTransit \subseteq InTransit' \cup {Head(Items)}
         /\ requested' = requested \ {Head(Items)}
         /\ pc = "read"
         /\ UNCHANGED <<pc, pending, headers, silence, lastCount, peerTop, continueAt, known>>
<1>1. SessionTypeOK /\ Good(inbox) /\ InTransit = InBox(inbox) /\ InTransit' = InBox(inbox')
  BY InboxTyped DEF Inv, InTransit, InBox
<1>2. inbox # <<>> /\ Head(inbox).type = "block" /\ pc = "read"
  BY DEF ReadBlock, Reads
<1>3. /\ Good(Tail(inbox)) /\ Items \in Seq(Blocks) /\ Items # <<>>
      /\ InBox(inbox) = Elements(Items) \cup InBox(Tail(inbox))
  BY <1>1, <1>2, TailBox DEF Items, Carried, Msg
<1>4. /\ Elements(Items) = {Head(Items)} \cup Elements(Tail(Items))
      /\ Head(Items) \in Blocks /\ Tail(Items) \in Seq(Blocks) /\ Len(Tail(Items)) = Len(Items) - 1
  BY <1>3, ElementsHeadTail
<1>5. CASE Len(Items) = 1
  <2>1. inbox' = Tail(inbox)
    BY <1>5 DEF ReadBlock
  <2>2. Elements(Tail(Items)) = {}
    BY <1>4, <1>5 DEF Elements
  <2> QED
    BY <1>1, <1>2, <1>3, <1>4, <2>1, <2>2 DEF ReadBlock
<1>6. CASE Len(Items) # 1
  <2> DEFINE rest == Message("block", Tail(Items))
  <2>1. inbox' = <<rest>> \o Tail(inbox)
    BY <1>6 DEF ReadBlock
  <2>2. Len(Items) \in Nat /\ Len(Items) # 0
    BY <1>3
  <2>3. Tail(Items) # <<>>
    BY <1>4, <1>6, <2>2
  <2>4. rest \in Msg /\ rest.type = "block" /\ rest.items = Tail(Items)
    BY <1>4, MessageTyped DEF Messages
  <2>5. Good(inbox') /\ InBox(inbox') = Elements(Tail(Items)) \cup InBox(Tail(inbox))
    BY <1>3, <2>1, <2>3, <2>4, ConsBox DEF Carried
  <2> QED
    BY <1>1, <1>2, <1>3, <1>4, <2>5 DEF ReadBlock
<1> QED
  BY <1>5, <1>6

LEMMA BlockPreserves ==
  ASSUME Inv, ReceiveBlock
  PROVE  Inv'
<1> DEFINE b == Head(Items)
<1>1. SessionTypeOK
  BY DEF Inv
<1>2. /\ b \in Blocks /\ Good(inbox') /\ InTransit \subseteq InTransit' \cup {b}
      /\ requested' = requested \ {b} /\ pc = "read"
      /\ UNCHANGED <<pc, pending, headers, silence, lastCount, peerTop, continueAt, known>>
  BY ReadBlockEffect DEF ReceiveBlock
<1>3. stored' = stored \cup {b} /\ Index(b) /\ UNCHANGED <<lost, faults>>
  BY DEF ReceiveBlock
<1> HIDE DEF b
<1>4. IndexOK' /\ \A c \in Blocks : height'[c] # Unknown => height[c] # Unknown \/ c = b
  BY <1>1, <1>2, <1>3, IndexEffect
<1>5. SessionTypeOK'
  BY <1>1, <1>2, <1>3, <1>4 DEF SessionTypeOK, IndexOK, Good, Msg
<1>6. Wanted' \subseteq Wanted \ {b}
  BY <1>3, <1>4 DEF Wanted
<1> QED
  BY <1>2, <1>3, <1>5, <1>6 DEF Inv, Answered, WantedBlocksAreTracked

LEMMA BlockFailsPreserves ==
  ASSUME Inv, ReceiveBlockFails
  PROVE  Inv'
<1> DEFINE b == Head(Items)
<1>1. SessionTypeOK
  BY DEF Inv
<1>2. /\ b \in Blocks /\ Good(inbox') /\ InTransit \subseteq InTransit' \cup {b}
      /\ requested' = requested \ {b} /\ pc = "read"
      /\ UNCHANGED <<pc, pending, headers, silence, lastCount, peerTop, continueAt, known>>
  BY ReadBlockEffect DEF ReceiveBlockFails
<1>3. /\ stored' \in {stored, stored \cup {b}} /\ lost' = lost \cup {b}
      /\ faults < MaxFaults /\ faults' = faults + 1
      /\ UNCHANGED <<height, tip, early>>
  BY DEF ReceiveBlockFails
<1> HIDE DEF b
<1>4. SessionTypeOK'
  BY <1>1, <1>2, <1>3, SessionConstants DEF SessionTypeOK, HeightOf, Good, Msg
<1>5. Wanted' \subseteq Wanted
  BY <1>3 DEF Wanted
<1> QED
  BY <1>2, <1>3, <1>4, <1>5 DEF Inv, Answered, WantedBlocksAreTracked

LEMMA HeadersPreserves ==
  ASSUME Inv, ReceiveHeaders
  PROVE  Inv'
<1>1. SessionTypeOK /\ Good(inbox) /\ InTransit = InBox(inbox) /\ InTransit' = InBox(inbox')
  BY InboxTyped DEF Inv, InTransit, InBox
<1>2. inbox # <<>> /\ Head(inbox).type = "headers" /\ pc = "read"
  BY DEF ReceiveHeaders, Reads
<1>3. Good(Tail(inbox)) /\ Items \in Seq(Blocks) /\ InBox(inbox) = InBox(Tail(inbox))
  BY <1>1, <1>2, TailBox DEF Items, Carried, Msg
<1>4. /\ pc' = "headers" /\ headers' = [rest |-> Items, size |-> Len(Items), new |-> 0]
      /\ inbox' = Tail(inbox)
      /\ UNCHANGED <<nodeVars, pending, requested, silence, lastCount, peerTop, continueAt, known, history>>
  BY DEF ReceiveHeaders
<1>5. headers' \in [rest : Seq(Blocks), size : Nat, new : Nat]
  BY <1>3, <1>4
<1>6. SessionTypeOK'
  BY <1>1, <1>3, <1>4, <1>5 DEF SessionTypeOK, HeightOf, Good, Msg, nodeVars, history
<1> QED
  BY <1>1, <1>3, <1>4, <1>6 DEF Inv, Answered, WantedBlocksAreTracked, Wanted, nodeVars, history

LEMMA IndexPreserves ==
  ASSUME Inv, IndexHeader
  PROVE  Inv'
<1> DEFINE b == Head(headers.rest)
<1>1. SessionTypeOK /\ Good(inbox) /\ pc = "headers" /\ headers.rest # <<>>
  BY InboxTyped DEF Inv, IndexHeader, NextHeader
<1>2. b \in Blocks /\ Tail(headers.rest) \in Seq(Blocks)
  BY <1>1, ElementsHeadTail DEF SessionTypeOK
<1>3. /\ Index(b)
      /\ pending' = IF Queues(b) THEN Append(pending, b) ELSE pending
      /\ headers' = [headers EXCEPT !.rest = Tail(@), !.new = IF Queues(b) THEN @ + 1 ELSE @]
      /\ lost' = IF Queues(b) \/ b \in requested \cup Elements(pending) \cup stored THEN lost
                 ELSE lost \cup {b}
      /\ UNCHANGED <<pc, stored, requested, silence, lastCount, inbox, peerTop, continueAt, known, faults>>
  BY DEF IndexHeader, NextHeader, peerVars
<1>4. headers' \in [rest : Seq(Blocks), size : Nat, new : Nat]
  <2>1. headers \in [rest : Seq(Blocks), size : Nat, new : Nat]
    BY <1>1 DEF SessionTypeOK
  <2>2. PICK r \in Seq(Blocks), z \in Nat, n \in Nat : headers = [rest |-> r, size |-> z, new |-> n]
    BY <2>1
  <2>3. headers' = [rest |-> Tail(r), size |-> z, new |-> IF Queues(b) THEN n + 1 ELSE n]
    BY <1>3, <2>2
  <2>4. Tail(r) \in Seq(Blocks)
    BY <1>2, <2>2
  <2> QED
    BY <2>2, <2>3, <2>4
<1> HIDE DEF b
<1>5. IndexOK' /\ \A c \in Blocks : height'[c] # Unknown => height[c] # Unknown \/ c = b
  BY <1>1, <1>2, <1>3, IndexEffect
<1>6. /\ pending' \in Seq(Blocks) /\ Len(pending') <= MaxPending
      /\ \A i, j \in DOMAIN pending' : pending'[i] = pending'[j] => i = j
      /\ Elements(pending') = IF Queues(b) THEN Elements(pending) \cup {b} ELSE Elements(pending)
  <2>1. CASE ~Queues(b)
    BY <1>1, <1>3, <2>1 DEF SessionTypeOK
  <2>2. CASE Queues(b)
    <3>1. pending \in Seq(Blocks) /\ pending' = Append(pending, b) /\ Len(pending) \in Nat
      BY <1>1, <1>3, <2>2 DEF SessionTypeOK
    <3>2. /\ Len(pending') = Len(pending) + 1 /\ pending' \in Seq(Blocks) /\ DOMAIN pending' = 1..(Len(pending) + 1)
          /\ pending'[Len(pending) + 1] = b /\ \A i \in 1..Len(pending) : pending'[i] = pending[i]
      BY <1>2, <3>1
    <3>3. Len(pending) < MaxPending /\ \A i \in 1..Len(pending) : pending[i] # b
      BY <2>2 DEF Queues, Elements
    <3>4. \A i, j \in 1..Len(pending) : pending[i] = pending[j] => i = j
      <4>1. DOMAIN pending = 1..Len(pending)
        BY <3>1
      <4> QED
        BY <1>1, <4>1 DEF SessionTypeOK
    <3>5. \A i, j \in DOMAIN pending' : pending'[i] = pending'[j] => i = j
      BY <3>1, <3>2, <3>3, <3>4
    <3>6. Elements(pending') = Elements(pending) \cup {b}
      BY <1>2, <3>1, ElementsAppend
    <3>7. Len(pending') <= MaxPending
      BY <3>1, <3>2, <3>3, SessionConstants
    <3> QED
      BY <2>2, <3>2, <3>5, <3>6, <3>7
  <2> QED
    BY <2>1, <2>2
<1>7. SessionTypeOK'
  BY <1>1, <1>2, <1>3, <1>4, <1>5, <1>6 DEF SessionTypeOK, IndexOK, Good, Msg
<1>8. Wanted' \subseteq Wanted \cup ({b} \ stored)
  BY <1>3, <1>5 DEF Wanted
<1>9. {b} \ stored \subseteq Elements(pending') \cup requested \cup lost'
  BY <1>3, <1>6
<1>10. InTransit' = InTransit /\ lost \subseteq lost'
  BY <1>3 DEF InTransit
<1> QED
  BY <1>3, <1>6, <1>7, <1>8, <1>9, <1>10 DEF Inv, Answered, WantedBlocksAreTracked

LEMMA IndexFailsPreserves ==
  ASSUME Inv, IndexHeaderFails
  PROVE  Inv'
<1>1. SessionTypeOK /\ pc = "headers" /\ headers.rest # <<>>
  BY DEF Inv, IndexHeaderFails, NextHeader
<1>2. Tail(headers.rest) \in Seq(Blocks)
  BY <1>1, ElementsHeadTail DEF SessionTypeOK
<1>3. /\ headers' = [headers EXCEPT !.rest = Tail(@)]
      /\ faults < MaxFaults /\ faults' = faults + 1
      /\ UNCHANGED <<height, tip, pending, lost, early>>
      /\ UNCHANGED <<pc, stored, requested, silence, lastCount, inbox, peerTop, continueAt, known>>
  BY DEF IndexHeaderFails, NextHeader, peerVars
<1>4. headers' \in [rest : Seq(Blocks), size : Nat, new : Nat]
  <2>1. headers \in [rest : Seq(Blocks), size : Nat, new : Nat]
    BY <1>1 DEF SessionTypeOK
  <2>2. PICK r \in Seq(Blocks), z \in Nat, n \in Nat : headers = [rest |-> r, size |-> z, new |-> n]
    BY <2>1
  <2>3. headers' = [rest |-> Tail(r), size |-> z, new |-> n]
    BY <1>3, <2>2
  <2>4. Tail(r) \in Seq(Blocks)
    BY <1>2, <2>2
  <2> QED
    BY <2>2, <2>3, <2>4
<1>5. faults' \in 0..MaxFaults /\ pc' = "headers"
  <2>1. faults \in 0..MaxFaults /\ MaxFaults \in Nat
    BY <1>1, SessionConstants DEF SessionTypeOK
  <2>2. faults < MaxFaults /\ faults' = faults + 1 /\ pc' = pc
    BY <1>3
  <2> QED
    BY <1>1, <2>1, <2>2
<1>6. HeightOf(tip)' = HeightOf(tip)
  BY <1>3 DEF HeightOf
<1>7. SessionTypeOK'
  BY <1>1, <1>3, <1>4, <1>5, <1>6 DEF SessionTypeOK
<1> QED
  BY <1>3, <1>7 DEF Inv, Answered, WantedBlocksAreTracked, Wanted, InTransit

\* A batch moves hashes from the queue to the requests, which are all answered.
LEMMA BatchKeepsTrack ==
  ASSUME Inv, RequestBatch, UNCHANGED nodeVars
  PROVE  (Answered /\ WantedBlocksAreTracked)'
<1>1. SessionTypeOK /\ InTransit = InBox(inbox) /\ InTransit' = InBox(inbox')
  BY InboxTyped DEF Inv, InTransit, InBox
<1>2. /\ requested \subseteq requested' /\ Elements(pending) \subseteq Elements(pending') \cup requested'
      /\ InBox(inbox) \subseteq InBox(inbox') /\ lost \subseteq lost'
      /\ requested' \subseteq requested \cup InBox(inbox') \cup lost'
  BY <1>1, BatchEffect
<1>3. Wanted' = Wanted
  BY DEF Wanted, nodeVars
<1>4. Answered'
  BY <1>1, <1>2 DEF Inv, Answered
<1>5. WantedBlocksAreTracked'
  BY <1>1, <1>2, <1>3 DEF Inv, WantedBlocksAreTracked
<1> QED
  BY <1>4, <1>5

LEMMA FinishPreserves ==
  ASSUME Inv, FinishHeaders
  PROVE  Inv'
<1>1. SessionTypeOK /\ Good(inbox) /\ InTransit = InBox(inbox) /\ InTransit' = InBox(inbox')
  BY InboxTyped DEF Inv, InTransit, InBox
<1>2. /\ pc' = "read" /\ headers' = NoHeaders /\ pc = "headers"
      /\ UNCHANGED <<nodeVars, lastCount, peerTop, early>>
  BY DEF FinishHeaders
<1>3. headers' \in [rest : Seq(Blocks), size : Nat, new : Nat]
  BY <1>2 DEF NoHeaders
<1>4. CASE AnswerGetHeaders(inbox) /\ UNCHANGED <<pending, requested, silence, lost, faults>>
  <2>1. /\ Good(inbox') /\ InBox(inbox) \subseteq InBox(inbox')
        /\ known' \subseteq Blocks /\ continueAt' \in 0..peerTop
    BY <1>1, <1>4, HeadersAnswer
  <2>2. SessionTypeOK'
    BY <1>1, <1>2, <1>3, <1>4, <2>1 DEF SessionTypeOK, HeightOf, Good, Msg, nodeVars
  <2> QED
    BY <1>1, <1>2, <1>4, <2>1, <2>2 DEF Inv, Answered, WantedBlocksAreTracked, Wanted, nodeVars
<1>5. CASE RequestBatch /\ UNCHANGED known
  <2>1. SessionTypeOK'
    BY <1>1, <1>2, <1>3, <1>5, BatchEffect DEF SessionTypeOK, HeightOf, Good, Msg, nodeVars
  <2> QED
    BY <1>2, <1>5, <2>1, BatchKeepsTrack DEF Inv
<1> QED
  BY <1>4, <1>5 DEF FinishHeaders

LEMMA TickPreserves ==
  ASSUME Inv, Tick
  PROVE  Inv'
<1>1. SessionTypeOK /\ Good(inbox) /\ InTransit = InBox(inbox) /\ InTransit' = InBox(inbox')
  BY InboxTyped DEF Inv, InTransit, InBox
<1>2. /\ pc = "read" /\ lastCount' = HeightOf(tip)
      /\ UNCHANGED <<nodeVars, pc, headers, peerTop, early>>
  BY DEF Tick
<1>3. lastCount' \in Nat
  BY <1>1, <1>2 DEF SessionTypeOK, HeightOf, Unknown, Blocks
<1>4. Waited \in 0..TimeoutTicks
  BY <1>1, SessionConstants DEF Waited, Least, SessionTypeOK
<1>5. CASE Recover
  <2>1. /\ requested' = (IF Clears THEN {} ELSE requested)
        /\ silence' = (IF Clears THEN 0 ELSE Waited)
        /\ UNCHANGED <<pending, lost, faults>>
    BY <1>5 DEF Recover
  <2>2. requested' \in {{}, requested} /\ silence' \in 0..TimeoutTicks
    BY <1>4, <2>1, SessionConstants
  <2>3. /\ Good(inbox') /\ InBox(inbox) \subseteq InBox(inbox')
        /\ known' \subseteq Blocks /\ continueAt' \in 0..peerTop
    BY <1>1, <1>5, BlocksAnswer DEF Recover
  <2>4. SessionTypeOK'
    BY <1>1, <1>2, <1>3, <2>1, <2>2, <2>3 DEF SessionTypeOK, HeightOf, Good, Msg, nodeVars
  <2> QED
    BY <1>1, <1>2, <2>1, <2>2, <2>3, <2>4 DEF Inv, Answered, WantedBlocksAreTracked, Wanted, nodeVars
<1>6. CASE RequestBatch /\ UNCHANGED known
  <2>1. SessionTypeOK'
    BY <1>1, <1>2, <1>3, <1>6, BatchEffect DEF SessionTypeOK, HeightOf, Good, Msg, nodeVars
  <2> QED
    BY <1>2, <1>6, <2>1, BatchKeepsTrack DEF Inv
<1>7. CASE silence' = Waited /\ UNCHANGED <<pending, requested, inbox, continueAt, lost, faults, known>>
  <2>1. SessionTypeOK'
    BY <1>1, <1>2, <1>3, <1>4, <1>7 DEF SessionTypeOK, HeightOf, nodeVars
  <2> QED
    BY <1>2, <1>7, <2>1 DEF Inv, Answered, WantedBlocksAreTracked, Wanted, InTransit, nodeVars
<1> QED
  BY <1>5, <1>6, <1>7 DEF Tick, Proceed

-------------------------------------------------------------------------------

LEMMA StepPreserves ==
  ASSUME Inv, [Next]_vars
  PROVE  Inv'
<1>1. CASE UNCHANGED vars
  BY <1>1 DEF Inv, Answered, WantedBlocksAreTracked, Wanted, InTransit, SessionTypeOK, HeightOf,
              vars, nodeVars, sessionVars, peerVars, history
<1>2. CASE Handle
  BY <1>2, InvPreserves, BlockPreserves, HeadersPreserves, IndexPreserves, FinishPreserves DEF Handle
<1>3. CASE Next
  BY <1>2, <1>3, AnnouncePreserves, AnnounceOtherPreserves, StartPreserves, EndPreserves, BlockFailsPreserves,
     IndexFailsPreserves, TickPreserves DEF Next
<1> QED
  BY <1>1, <1>3

LEMMA SpecInv == Spec => []Inv
<1> QED
  BY InitInv, StepPreserves, PTL DEF Spec

\* Whatever the peer sends and whichever save fails, the queue holds different
\* hashes within its limit, a tip is an indexed block, and a session that ended
\* left nothing of its requests behind.
THEOREM SessionTypeCorrect == Spec => []SessionTypeOK
<1>1. Inv => SessionTypeOK
  BY DEF Inv
<1> QED
  BY <1>1, SpecInv, PTL

\* No block whose header was indexed is silently forgotten: stall recovery drops
\* only requests whose blocks are on their way or were counted as lost before.
THEOREM WantedStaysTracked == Spec => []WantedBlocksAreTracked
<1>1. Inv => WantedBlocksAreTracked
  BY DEF Inv
<1> QED
  BY <1>1, SpecInv, PTL

-------------------------------------------------------------------------------
(* The chain a session builds *)

\* Without a block indexed before its parent the index is the peer's chain up to the
\* tip; and what is stored is indexed, or its header could not be saved.
Chain == ~early => \A b \in Blocks : height[b] = IF b <= tip THEN b ELSE Unknown
StoredIsIndexed == \A b \in stored : height[b] # Unknown \/ b \in lost
ChainInv == Chain /\ StoredIsIndexed

LEMMA IndexKeepsChain ==
  ASSUME SessionTypeOK, Chain, NEW b \in Blocks, Index(b)
  PROVE  /\ Chain' /\ height'[b] # Unknown
         /\ \A c \in Blocks : height[c] # Unknown => height'[c] # Unknown
<1>1. CASE height[b] # Unknown
  BY <1>1 DEF Index, Chain
<1>2. CASE height[b] = Unknown
  <2> DEFINE parent == HeightOf(b - 1)
             new == (IF parent = Unknown THEN HeightOf(tip) ELSE parent) + 1
  <2>1. /\ b \in Nat /\ b >= 1 /\ b <= MaxTop /\ tip \in 0..MaxTop /\ MaxTop \in Nat /\ Blocks = 1..MaxTop
        /\ height \in [Blocks -> Nat \cup {Unknown}]
    BY SessionConstants DEF Blocks, SessionTypeOK
  <2>2. parent \in Nat \cup {Unknown} /\ HeightOf(tip) \in Nat
    BY <2>1 DEF HeightOf, SessionTypeOK, Unknown
  <2>3. new \in Nat /\ new # Unknown
    BY <2>2 DEF Unknown
  <2>4. /\ height' = [height EXCEPT ![b] = new]
        /\ tip' = IF new > HeightOf(tip) THEN b ELSE tip
        /\ early' = (early \/ parent = Unknown)
    BY <1>2 DEF Index
  <2>5. ASSUME ~early'
        PROVE  b = tip + 1 /\ new = b /\ tip' = b
    <3>1. ~early /\ parent # Unknown
      BY <2>4, <2>5, Zenon
    <3>2. \A c \in Blocks : height[c] = IF c <= tip THEN c ELSE Unknown
      BY <3>1 DEF Chain
    <3>3. ~(b <= tip)
      BY <1>2, <2>1, <3>2 DEF Unknown
    <3>4. b - 1 <= tip /\ parent = b - 1
      BY <2>1, <3>1, <3>2 DEF HeightOf
    <3>5. HeightOf(tip) = tip
      BY <2>1, <3>2 DEF HeightOf
    <3>6. b = tip + 1 /\ new = b
      BY <2>1, <3>1, <3>3, <3>4
    <3> HIDE DEF new
    <3> QED
      BY <2>1, <2>4, <3>5, <3>6
  <2> HIDE DEF new, parent
  <2>6. height'[b] = new /\ \A c \in Blocks : c # b => height'[c] = height[c]
    BY <2>1, <2>4
  <2>7. Chain'
    <3> SUFFICES ASSUME ~early', NEW c \in Blocks
                 PROVE  height'[c] = IF c <= tip' THEN c ELSE Unknown
      BY DEF Chain
    <3>1. ~early
      BY <2>4, Zenon
    <3>2. b = tip + 1 /\ new = b /\ tip' = b
      BY <2>5
    <3>3. CASE c = b
      BY <2>1, <2>6, <3>2, <3>3
    <3>4. CASE c # b
      <4>1. height'[c] = IF c <= tip THEN c ELSE Unknown
        BY <2>6, <3>1, <3>4 DEF Chain
      <4> QED
        BY <2>1, <3>2, <3>4, <4>1
    <3> QED
      BY <3>3, <3>4
  <2> QED
    BY <2>3, <2>6, <2>7
<1> QED
  BY <1>1, <1>2

LEMMA ChainSteps ==
  ASSUME SessionTypeOK, ChainInv, [Next]_vars
  PROVE  ChainInv'
<1>1. ASSUME UNCHANGED <<nodeVars, early>>, lost \subseteq lost'
      PROVE  ChainInv'
  BY <1>1 DEF ChainInv, Chain, StoredIsIndexed, nodeVars
<1>2. ASSUME NEW box, NEW s, AnswerGetData(box, s)
      PROVE  lost \subseteq lost'
  BY <1>2 DEF AnswerGetData
<1>3. RequestBatch => lost \subseteq lost'
  BY <1>2 DEF RequestBatch
<1>4. CASE UNCHANGED vars
  BY <1>1, <1>4 DEF vars, history
<1>5. CASE Announce \/ AnnounceOther \/ StartSession \/ EndSession
  BY <1>1, <1>5 DEF Announce, AnnounceOther, StartSession, EndSession, history
<1>6. CASE ReceiveInv \/ ReceiveHeaders \/ FinishHeaders \/ Tick
  <2>1. UNCHANGED <<nodeVars, early>>
    BY <1>6 DEF ReceiveInv, ReceiveHeaders, FinishHeaders, Tick, history
  <2>2. lost \subseteq lost'
    BY <1>2, <1>3, <1>6 DEF ReceiveInv, ReceiveHeaders, FinishHeaders, Tick, Recover, Proceed, history
  <2> QED
    BY <1>1, <2>1, <2>2
<1>7. ASSUME Reads("block")
      PROVE  Head(Items) \in Blocks
  <2>1. Good(inbox) /\ inbox # <<>> /\ Head(inbox).type = "block"
    BY <1>7, InboxTyped DEF Reads
  <2>2. Items \in Seq(Blocks) /\ Items # <<>>
    BY <2>1, TailBox DEF Items, Msg
  <2> QED
    BY <2>2, ElementsHeadTail
<1>8. CASE ReceiveBlock
  <2>1. Head(Items) \in Blocks /\ Index(Head(Items)) /\ stored' = stored \cup {Head(Items)} /\ lost' = lost
    BY <1>7, <1>8 DEF ReceiveBlock, ReadBlock
  <2>2. stored \subseteq Blocks
    BY DEF SessionTypeOK
  <2> QED
    BY <2>1, <2>2, IndexKeepsChain DEF ChainInv, StoredIsIndexed
<1>9. CASE ReceiveBlockFails
  BY <1>9 DEF ReceiveBlockFails, ChainInv, Chain, StoredIsIndexed
<1>10. CASE IndexHeader
  <2>1. Index(Head(headers.rest)) /\ stored' = stored /\ lost \subseteq lost' /\ headers.rest # <<>>
    BY <1>10 DEF IndexHeader, NextHeader
  <2>2. Head(headers.rest) \in Blocks /\ stored \subseteq Blocks
    BY <2>1, ElementsHeadTail DEF SessionTypeOK
  <2> QED
    BY <2>1, <2>2, IndexKeepsChain DEF ChainInv, StoredIsIndexed
<1>11. CASE IndexHeaderFails
  BY <1>11 DEF IndexHeaderFails, NextHeader, ChainInv, Chain, StoredIsIndexed
<1> QED
  BY <1>4, <1>5, <1>6, <1>8, <1>9, <1>10, <1>11 DEF Next, Handle

LEMMA ChainStart == Init => ChainInv
<1> SUFFICES ASSUME Init PROVE ChainInv
  OBVIOUS
<1>1. \A b \in Blocks : height[b] = Unknown /\ ~(b <= 0)
  BY DEF Init, Blocks
<1> QED
  BY <1>1 DEF Init, ChainInv, Chain, StoredIsIndexed

\* The safety half of catching up: whatever order answers, ticks, failures and lost
\* sessions come in, a node with an empty queue and nothing on its way, that lost no
\* block and indexed none before its parent, has stored exactly the blocks up to its tip.
THEOREM SettledHasTheChain == Spec => []SettledIsComplete
<1>1. Inv /\ ChainInv => SettledIsComplete
  <2> SUFFICES ASSUME Inv, ChainInv, ~early, lost = {}, pending = <<>>, InTransit = {}
               PROVE  stored = 1..tip
    BY DEF SettledIsComplete
  <2>1. \A b \in Blocks : height[b] # Unknown <=> b <= tip
    BY DEF ChainInv, Chain, Unknown, Blocks
  <2>2. stored \subseteq Blocks /\ tip \in 0..MaxTop /\ MaxTop \in Nat
    BY SessionConstants DEF Inv, SessionTypeOK
  <2>3. stored \subseteq 1..tip
    BY <2>1, <2>2 DEF ChainInv, StoredIsIndexed, Blocks
  <2>4. Wanted = {}
    BY DEF Inv, Answered, WantedBlocksAreTracked, Elements
  <2>5. 1..tip \subseteq stored
    BY <2>1, <2>2, <2>4 DEF Wanted, Blocks
  <2> QED
    BY <2>3, <2>5
<1>2. Inv /\ ChainInv /\ [Next]_vars => ChainInv'
  BY ChainSteps DEF Inv
<1>3. Spec => [](Inv /\ ChainInv)
  BY InitInv, ChainStart, StepPreserves, <1>2, PTL DEF Spec
<1> QED
  BY <1>1, <1>3, PTL
===============================================================================
