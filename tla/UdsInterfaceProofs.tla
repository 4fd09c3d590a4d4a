------------------------- MODULE UdsInterfaceProofs -------------------------
(***************************************************************************)
(* Proofs about UdsInterface, for any number of objects and messages.      *)
(***************************************************************************)
EXTENDS UdsInterface, SequenceTheorems, TLAPS

(* The constructor and the destructor take the topics one at a time. *)
LifeInv ==
  \A i \in Interfaces :
    /\ status[i] = "unborn" => step[i] = 0
    /\ status[i] = "constructing" => step[i] \in 1..2
    /\ status[i] = "destroying" => step[i] \in 1..2
    /\ status[i] # "alive" => call[i] = "idle"

(* An object that has never shared the Client is alone, and subscribed as  *)
(* far as its constructor has come.                                        *)
Unshared ==
  ~shared => /\ lost = {}
             /\ \A i, j \in Present : i = j
             /\ \A i \in Interfaces :
                  /\ status[i] = "alive" => subscribed = Topics
                  /\ status[i] = "constructing" =>
                       \A k \in 1..step[i] : TopicOrder[k] \in subscribed

IInv == TypeOK /\ LifeInv /\ Unshared

(* The type invariant in parts. *)
LifeType ==
  /\ status \in [Interfaces -> {"unborn", "constructing", "alive", "destroying", "dead"}]
  /\ step \in [Interfaces -> 0..3]
CallType ==
  /\ call \in [Interfaces -> {"idle", "get", "blocked", "dangling", "respond"}]
  /\ wanted \in [Interfaces -> Topics \cup {"none"}]
  /\ \A i \in Interfaces :
       wanted[i] # "none" <=> call[i] \in {"get", "blocked", "dangling"}
QueueType ==
  /\ subscribed \subseteq Topics
  /\ queue \in [Topics -> Seq(Message)]
  /\ \A t \in Topics \ subscribed : queue[t] = <<>>
RestType ==
  /\ arrived \in 0..MaxMessages
  /\ process \in {"running", "terminated", "use_after_free"}
  /\ lost \subseteq 1..MaxMessages

(* The three topics and the order of the subscriptions. *)
LEMMA TopicFacts ==
  /\ Topics = {"alloc", "release", "request"}
  /\ Len(TopicOrder) = 3
  /\ TopicOrder[1] = "alloc" /\ TopicOrder[2] = "release" /\ TopicOrder[3] = "request"
  /\ \A k \in 1..3 : TopicOrder[k] \in Topics
<1>1. /\ DOMAIN TopicOrder = 1..3 /\ Len(TopicOrder) = 3
      /\ TopicOrder[1] = "alloc" /\ TopicOrder[2] = "release"
      /\ TopicOrder[3] = "request"
  BY DEF TopicOrder
<1>2. Topics = {TopicOrder[k] : k \in 1..3}
  BY <1>1 DEF Topics, Range
<1>3. \A k \in 1..3 : k = 1 \/ k = 2 \/ k = 3
  OBVIOUS
<1> QED
  BY <1>1, <1>2, <1>3

(* The type invariant by its parts. *)
LEMMA TypeParts ==
  TypeOK <=> LifeType /\ CallType /\ QueueType /\ RestType /\ shared \in BOOLEAN
<1>1. Len(TopicOrder) = 3
  BY TopicFacts
<1> QED
  BY <1>1 DEF TypeOK, LifeType, CallType, QueueType, RestType

(* The type invariant of the next state by its parts. *)
LEMMA NextTypeParts ==
  LifeType' /\ CallType' /\ QueueType' /\ RestType' /\ shared' \in BOOLEAN => TypeOK'
<1>1. Len(TopicOrder) = 3
  BY TopicFacts
<1> QED
  BY <1>1 DEF TypeOK, LifeType, CallType, QueueType, RestType

(* The inductive invariant holds at first. *)
LEMMA InitIInv == Init => IInv
<1> SUFFICES ASSUME Init PROVE IInv
  OBVIOUS
<1>1. shared \in BOOLEAN /\ ~shared
  BY Zenon DEF Init
<1>2. <<>> \in Seq(Message)
  OBVIOUS
<1>3. TypeOK
  BY <1>1, <1>2, TopicFacts, UdsAssumption DEF Init, TypeOK
<1>4. LifeInv /\ Unshared
  BY DEF Init, LifeInv, Unshared, Present
<1> QED
  BY <1>3, <1>4 DEF IInv
-----------------------------------------------------------------------------
(* A subscription keeps the inductive invariant. *)
LEMMA SubscribeStep ==
  ASSUME IInv, NEW i \in Interfaces, SubscribeNext(i)
  PROVE  IInv'
<1> USE TopicFacts, TypeParts, NextTypeParts DEF IInv
<1> DEFINE k == step[i] + 1
<1>1. /\ status[i] \in {"unborn", "constructing"}
      /\ k \in 1..3 /\ TopicOrder[k] \in Topics
      /\ status[i] = "unborn" => k = 1
      /\ status[i] # "alive" /\ call[i] = "idle"
  BY DEF LifeInv, LifeType, SubscribeNext
<1>2. /\ subscribed' = subscribed \cup {TopicOrder[k]}
      /\ step' = [step EXCEPT ![i] = k]
      /\ status' = [status EXCEPT ![i] = IF k = 3 THEN "alive" ELSE "constructing"]
      /\ UNCHANGED <<call, wanted, queue, arrived, process, lost>>
  BY DEF SubscribeNext, callVars
<1>3. shared' \in BOOLEAN /\ (~shared' => ~shared /\ Present \ {i} = {})
  BY DEF SubscribeNext
<1>k. k \in 1..3
  BY <1>1
<1> HIDE DEF k
<1>4. TypeOK'
  <2>1. LifeType'
    BY <1>k, <1>2 DEF LifeType
  <2>2. CallType'
    BY <1>2 DEF CallType
  <2>3. QueueType'
    BY <1>k, <1>2 DEF QueueType
  <2>4. RestType'
    BY <1>2 DEF RestType
  <2> QED
    BY <1>3, <2>1, <2>2, <2>3, <2>4
<1>5. LifeInv'
  BY <1>1, <1>2, <1>k DEF LifeInv, LifeType
<1>6. Unshared'
  <2> SUFFICES ASSUME ~shared' PROVE Unshared'
    BY DEF Unshared
  <2>1. ~shared /\ \A j \in Present : j = i
    BY <1>3
  <2>2. \A j \in Interfaces : j # i => status'[j] \notin {"constructing", "alive", "destroying"}
    BY <1>2, <2>1 DEF Present
  <2>3. lost' = {}
    BY <1>2, <2>1 DEF Unshared
  <2>4. \A n \in 1..k : TopicOrder[n] \in subscribed'
    <3>1. \A n \in 1..step[i] : TopicOrder[n] \in subscribed
      <4>1. CASE status[i] = "unborn"
        BY <4>1 DEF LifeInv
      <4>2. CASE status[i] = "constructing"
        BY <2>1, <4>2 DEF Unshared
      <4> QED
        BY <1>1, <4>1, <4>2
    <3>2. ASSUME NEW n \in 1..k PROVE n \in 1..step[i] \/ n = k
      BY <1>k DEF k, LifeType
    <3> QED
      BY <1>2, <3>1, <3>2
  <2>5. k = 3 => subscribed' = Topics
    <3>1. subscribed' \subseteq Topics
      BY <1>k, <1>2 DEF QueueType
    <3>2. k = 3 => TopicOrder[1] \in subscribed' /\ TopicOrder[2] \in subscribed'
                   /\ TopicOrder[3] \in subscribed'
      BY <2>4
    <3> QED
      BY <3>1, <3>2
  <2>6. \A j \in Present' : j = i
    BY <2>2 DEF Present
  <2>7. /\ step'[i] = k
        /\ status'[i] = "alive" => k = 3
    BY <1>2 DEF LifeType
  <2>8. ASSUME NEW j \in Interfaces
        PROVE  /\ status'[j] = "alive" => subscribed' = Topics
               /\ status'[j] = "constructing" =>
                    \A n \in 1..step'[j] : TopicOrder[n] \in subscribed'
    <3>1. CASE j = i
      BY <2>4, <2>5, <2>7, <3>1
    <3>2. CASE j # i
      BY <2>2, <3>2
    <3> QED
      BY <3>1, <3>2
  <2> QED
    BY <2>3, <2>6, <2>8 DEF Unshared
<1> QED
  BY <1>4, <1>5, <1>6

(* A subscription that throws keeps the inductive invariant. *)
LEMMA ThrowStep ==
  ASSUME IInv, NEW i \in Interfaces, SubscribeThrows(i)
  PROVE  IInv'
<1> USE TopicFacts, TypeParts, NextTypeParts DEF IInv
<1>1. /\ status[i] \in {"unborn", "constructing"}
      /\ TopicOrder[step[i] + 1] \in Topics
      /\ call[i] = "idle"
  BY DEF LifeInv, LifeType, SubscribeThrows
<1>2. /\ subscribed' = subscribed \cup {TopicOrder[step[i] + 1]}
      /\ status' = [status EXCEPT ![i] = "dead"]
      /\ UNCHANGED <<step, call, wanted, queue, arrived, process, shared, lost>>
  BY DEF SubscribeThrows, callVars
<1>3. TypeOK'
  <2>1. LifeType' /\ CallType' /\ QueueType' /\ RestType'
    BY <1>1, <1>2 DEF LifeType, CallType, QueueType, RestType
  <2>2. shared' \in BOOLEAN
    BY <1>2
  <2> QED
    BY <2>1, <2>2
<1>4. LifeInv'
  BY <1>1, <1>2 DEF LifeInv, LifeType
<1>5. Unshared'
  BY <1>1, <1>2 DEF Unshared, Present, LifeType
<1> QED
  BY <1>3, <1>4, <1>5

(* The destructor keeps the inductive invariant. *)
LEMMA UnsubscribeStep ==
  ASSUME IInv, NEW i \in Interfaces, UnsubscribeNext(i)
  PROVE  IInv'
<1> USE TopicFacts, TypeParts, NextTypeParts DEF IInv
<1> DEFINE k == IF status[i] = "alive" THEN 1 ELSE step[i] + 1
           t == TopicOrder[k]
           gone == Range(queue[t])
           ours == {m \in gone : m.to \cap (Receiving \ {i}) # {}}
<1>1. /\ status[i] \in {"alive", "destroying"} /\ call[i] = "idle"
      /\ k \in 1..3 /\ t \in Topics
      /\ status[i] = "alive" => k = 1
  <2>1. status[i] \in {"alive", "destroying"} /\ call[i] = "idle"
    BY DEF UnsubscribeNext
  <2>2. k \in 1..3 /\ (status[i] = "alive" => k = 1)
    BY <2>1 DEF LifeInv
  <2> HIDE DEF k
  <2> QED
    BY <2>1, <2>2
<1>2. /\ subscribed' = subscribed \ {t}
      /\ queue' = [queue EXCEPT ![t] = <<>>]
      /\ call' = [j \in Interfaces |->
                    IF call[j] = "blocked" /\ wanted[j] = t THEN "dangling" ELSE call[j]]
      /\ lost' = lost \cup {m.id : m \in ours}
      /\ step' = [step EXCEPT ![i] = k]
      /\ status' = [status EXCEPT ![i] = IF k = 3 THEN "dead" ELSE "destroying"]
      /\ process' \in {"running", "terminated"}
      /\ UNCHANGED <<wanted, arrived, shared>>
  BY DEF UnsubscribeNext
<1>3. \A m \in gone : m.id \in 1..MaxMessages
  <2>1. queue[t] \in Seq(Message)
    BY <1>1 DEF QueueType
  <2>2. \A n \in DOMAIN queue[t] : queue[t][n] \in Message
    BY <2>1
  <2> QED
    BY <2>2 DEF Range, Message
<1>4. ~shared => ours = {}
  BY <1>1 DEF Unshared, Present, Receiving
<1> HIDE DEF k, t, gone, ours
<1>5. {m.id : m \in ours} \subseteq 1..MaxMessages
  BY <1>3 DEF ours
<1>6. TypeOK'
  <2>1. LifeType'
    BY <1>1, <1>2 DEF LifeType
  <2>2. CallType'
    BY <1>2 DEF CallType
  <2>3. QueueType'
    <3>1. <<>> \in Seq(Message)
      OBVIOUS
    <3> QED
      BY <1>1, <1>2, <3>1 DEF QueueType
  <2>4. RestType'
    BY <1>2, <1>5 DEF RestType
  <2>5. shared' \in BOOLEAN
    BY <1>2
  <2> QED
    BY <2>1, <2>2, <2>3, <2>4, <2>5
<1>7. LifeInv'
  <2>1. \A j \in Interfaces : call[j] = "idle" => call'[j] = "idle"
    BY <1>2
  <2> QED
    BY <1>1, <1>2, <2>1 DEF LifeInv, LifeType, k
<1>8. Unshared'
  <2> SUFFICES ASSUME ~shared' PROVE Unshared'
    BY DEF Unshared
  <2>1. ~shared /\ \A j \in Present : j = i
    BY <1>1, <1>2 DEF Unshared, Present
  <2>2. lost' = {}
    BY <1>2, <1>4, <2>1 DEF Unshared
  <2>3. \A j \in Interfaces : j # i => status'[j] \notin {"constructing", "alive", "destroying"}
    BY <1>2, <2>1 DEF Present, LifeType
  <2>4. status'[i] \in {"dead", "destroying"}
    BY <1>2 DEF LifeType
  <2> QED
    BY <2>2, <2>3, <2>4 DEF Unshared, Present
<1> QED
  BY <1>6, <1>7, <1>8
-----------------------------------------------------------------------------
(* What the Client gives, or does not give, to a call. *)
LEMMA CallIInv ==
  ASSUME IInv, NEW i \in Interfaces, CallStep(i)
  PROVE  IInv'
<1> USE TopicFacts, TypeParts, NextTypeParts DEF IInv, LifeType, CallType, QueueType, RestType, LifeInv
<1>1. CASE ClientHasMessage(i)
  <2> DEFINE t == wanted[i]
             m == Head(queue[t])
  <2>1. /\ t \in Topics /\ queue[t] # <<>> /\ queue[t] \in Seq(Message)
        /\ call[i] \in {"get", "blocked"} /\ status[i] = "alive"
    BY <1>1 DEF ClientHasMessage
  <2>2. m \in Message /\ Tail(queue[t]) \in Seq(Message)
    BY <2>1, HeadTailProperties
  <2>3. /\ queue' = [queue EXCEPT ![t] = Tail(queue[t])]
        /\ wanted' = [wanted EXCEPT ![i] = "none"]
        /\ UNCHANGED <<status, step, subscribed, arrived, process, shared>>
    BY <1>1 DEF ClientHasMessage, lifeVars
  <2>4. /\ \/ call' = [call EXCEPT ![i] = "idle"]
           \/ call' = [call EXCEPT ![i] = "respond"]
        /\ \/ lost' = lost
           \/ /\ m.to \cap Receiving # {} /\ i \notin m.to
              /\ lost' = lost \cup {m.id}
    BY <1>1 DEF ClientHasMessage, Fits
  <2> HIDE DEF t, m
  <2>5. queue' \in [Topics -> Seq(Message)] /\ t \in subscribed
    BY <2>1, <2>2, <2>3
  <2>6. \A u \in Topics \ subscribed' : queue'[u] = <<>>
    BY <2>1, <2>3, <2>5
  <2>7. m.id \in 1..MaxMessages
    BY <2>2 DEF Message
  <2>8. ~shared => lost' = lost
    BY <2>1, <2>4 DEF Receiving, Present, Unshared
  <2>9. TypeOK'
    <3>1. LifeType' /\ QueueType'
      BY <2>3, <2>5, <2>6
    <3>2. CallType'
      BY <2>3, <2>4
    <3>3. RestType'
      BY <2>3, <2>4, <2>7
    <3>4. shared' \in BOOLEAN
      BY <2>3
    <3> QED
      BY <3>1, <3>2, <3>3, <3>4
  <2>10. LifeInv'
    BY <2>1, <2>3, <2>4
  <2>11. Unshared'
    BY <2>3, <2>8 DEF Present, Unshared
  <2> QED
    BY <2>9, <2>10, <2>11
<1>2. CASE ClientBlocks(i)
  BY <1>2 DEF ClientBlocks, lifeVars, clientVars, Present, Unshared
<1>3. CASE ClientReturnsNothing(i)
  BY <1>3 DEF ClientReturnsNothing, lifeVars, clientVars, Present, Unshared
<1>4. CASE ClientUsesErasedQueue(i)
  BY <1>4 DEF ClientUsesErasedQueue, lifeVars, callVars, clientVars, Present, Unshared
<1>5. CASE PublishState(i)
  BY <1>5 DEF PublishState, lifeVars, clientVars, Present, Unshared
<1> QED
  BY <1>1, <1>2, <1>3, <1>4, <1>5 DEF CallStep

(* A message that arrives keeps the inductive invariant. *)
LEMMA ArriveStep ==
  ASSUME IInv, NEW t \in Topics, NEW to \in SUBSET Interfaces, Arrive(t, to)
  PROVE  IInv'
<1> USE TopicFacts, UdsAssumption, TypeParts, NextTypeParts DEF IInv
<1> DEFINE m == [id |-> arrived + 1, to |-> to]
<1>1. /\ arrived' = arrived + 1 /\ arrived + 1 \in 1..MaxMessages
      /\ UNCHANGED <<status, step, call, wanted, subscribed, process, shared>>
  BY DEF Arrive, lifeVars, callVars, RestType
<1>2. \/ /\ t \in subscribed /\ queue' = [queue EXCEPT ![t] = Append(queue[t], m)]
         /\ lost' = lost
      \/ /\ t \notin subscribed /\ queue' = queue
         /\ \/ lost' = lost
            \/ to \cap Alive # {} /\ lost' = lost \cup {arrived + 1}
  BY DEF Arrive
<1>3. m \in Message
  BY <1>1 DEF Message
<1>4. Append(queue[t], m) \in Seq(Message)
  BY <1>3 DEF QueueType
<1> HIDE DEF m
<1>5. TypeOK'
  <2>1. LifeType' /\ CallType'
    BY <1>1 DEF LifeType, CallType
  <2>2. QueueType'
    <3>1. queue' \in [Topics -> Seq(Message)] /\ \A u \in Topics \ subscribed : queue'[u] = <<>>
      <4>1. queue \in [Topics -> Seq(Message)] /\ \A u \in Topics \ subscribed : queue[u] = <<>>
        BY DEF QueueType
      <4>2. CASE t \in subscribed /\ queue' = [queue EXCEPT ![t] = Append(queue[t], m)]
        BY <1>4, <4>1, <4>2
      <4>3. CASE queue' = queue
        BY <4>1, <4>3
      <4> QED
        BY <1>2, <4>2, <4>3
    <3> QED
      BY <1>1, <3>1 DEF QueueType
  <2>3. RestType'
    BY <1>1, <1>2 DEF RestType
  <2>4. shared' \in BOOLEAN
    BY <1>1
  <2> QED
    BY <2>1, <2>2, <2>3, <2>4
<1>6. LifeInv'
  BY <1>1 DEF LifeInv
<1>7. Unshared'
  <2>1. ~shared => lost' = lost
    BY <1>2 DEF Unshared, Alive
  <2> QED
    BY <1>1, <2>1 DEF Unshared, Present
<1> QED
  BY <1>5, <1>6, <1>7

(* Every step keeps the inductive invariant. *)
LEMMA NextIInv == IInv /\ [Next]_vars => IInv'
<1> SUFFICES ASSUME IInv, [Next]_vars PROVE IInv'
  OBVIOUS
<1>1. ASSUME NEW i \in Interfaces, NEW t \in Topics, Get(i, t) PROVE IInv'
  BY <1>1, TopicFacts
  DEF Get, lifeVars, clientVars, IInv, TypeOK, LifeInv, Unshared, Present, Alive
<1>2. CASE UNCHANGED vars
  BY <1>2 DEF vars, lifeVars, callVars, clientVars, IInv, TypeOK, LifeInv, Unshared, Present
<1> QED
  BY <1>1, <1>2, SubscribeStep, ThrowStep, UnsubscribeStep, CallIInv, ArriveStep DEF Next

(* Type correctness of UdsInterface. *)
THEOREM Typing == Spec => []TypeOK
<1>1. IInv => TypeOK
  BY DEF IInv
<1> QED
  BY InitIInv, NextIInv, <1>1, PTL DEF Spec

(* Nothing an object waits for is lost while the objects of a process do   *)
(* not share the Client.                                                   *)
THEOREM LossSafety == Spec => []LossNeedsSharing
<1>1. IInv => LossNeedsSharing
  BY DEF IInv, Unshared, LossNeedsSharing
<1> QED
  BY InitIInv, NextIInv, <1>1, PTL DEF Spec
-----------------------------------------------------------------------------
(* What a mailbox may do in a step, said once for the three of them: of    *)
(* the pending messages a call only ever takes the oldest.                 *)
Opens(t) ==
  /\ Request(t) = "closed" /\ Request(t)' = "none"
  /\ \A n \in 1..Len(Pending(t)') : Pending(t)'[n].content \in {t, "other"}
Closes(t) ==
  Request(t) # "closed" /\ Request(t)' = "closed" /\ Pending(t)' = <<>>
Arrives(t) ==
  /\ Request(t) # "closed" /\ Request(t)' = Request(t)
  /\ Pending(t)' # <<>> /\ Front(Pending(t)') = Pending(t)
  /\ Last(Pending(t)').content \in {t, "other"}
Asks(t) ==
  Request(t) = "none" /\ Request(t)' = t /\ Pending(t)' = Pending(t)
Refuses(t) ==
  Request(t) = t /\ Request(t)' = "none" /\ Pending(t)' = Pending(t)
Takes(t) ==
  /\ Request(t) = t /\ Request(t)' = "none"
  /\ Len(Pending(t)) >= 1 /\ Pending(t)[1].content \in {t, "other"}
  /\ Pending(t)' = RemoveAt(Pending(t), 1)
Stutters(t) == Request(t)' = Request(t) /\ Pending(t)' = Pending(t)

MailStep(t) ==
  \/ Opens(t) \/ Closes(t) \/ Arrives(t) \/ Asks(t) \/ Refuses(t) \/ Takes(t)
  \/ Stutters(t)

(* Removing the oldest message. *)
LEMMA RemoveOldest ==
  ASSUME NEW S, NEW s \in Seq(S), s # <<>>
  PROVE  RemoveAt(s, 1) = Tail(s)
<1>1. SubSeq(s, 1, 1 - 1) = <<>>
  OBVIOUS
<1>2. SubSeq(s, 1 + 1, Len(s)) = Tail(s)
  OBVIOUS
<1>3. Tail(s) \in Seq(S)
  OBVIOUS
<1>4. <<>> \o Tail(s) = Tail(s)
  BY <1>3
<1>5. RemoveAt(s, 1) = SubSeq(s, 1, 1 - 1) \o SubSeq(s, 1 + 1, Len(s))
  BY Zenon DEF RemoveAt
<1> QED
  BY <1>1, <1>2, <1>4, <1>5, Zenon

(* What was appended is the last element, and the rest is in front of it. *)
LEMMA FrontOfAppend ==
  ASSUME NEW S, NEW s \in Seq(S), NEW m \in S
  PROVE  /\ Append(s, m) # <<>>
         /\ Front(Append(s, m)) = s
         /\ Last(Append(s, m)) = m
<1> DEFINE u == Append(s, m)
<1>1. /\ u \in Seq(S) /\ u # <<>> /\ Len(u) = Len(s) + 1
      /\ u[Len(u)] = m
      /\ \A j \in 1..Len(s) : u[j] = s[j]
  OBVIOUS
<1>2. Len(s) \in Nat
  OBVIOUS
<1> HIDE DEF u
<1>3. SubSeq(u, 1, Len(u) - 1) = s
  BY <1>1, <1>2
<1> QED
  BY <1>1, <1>3 DEF Front, Last, u

(* The object a mailbox belongs to. *)
LEMMA OnlyOwner ==
  ASSUME Unshared, ~shared
  PROVE  /\ \A i \in Receiving : Receiving = {i} /\ Owner = i
         /\ Exclusive => Owner \in Receiving
<1>1. \A i, j \in Receiving : i = j
  BY DEF Unshared, Present, Receiving
<1> QED
  BY <1>1 DEF Owner, Exclusive

(* How object i sees the messages of a queue of topic t. *)
Views(t) == [id : 1..MaxMessages, content : {t, "other"}]
Seen(i, t, m) == [id |-> m.id, content |-> IF i \in m.to THEN t ELSE "other"]
SeenAll(i, t, q) == [n \in DOMAIN q |-> Seen(i, t, q[n])]

(* What a queue looks like to a request is as long as the queue. *)
LEMMA SeenType ==
  ASSUME NEW i, NEW t, NEW q \in Seq(Message)
  PROVE  /\ SeenAll(i, t, q) \in Seq(Views(t))
         /\ Len(SeenAll(i, t, q)) = Len(q)
         /\ \A n \in 1..Len(q) : SeenAll(i, t, q)[n] = Seen(i, t, q[n])
<1> DEFINE v == SeenAll(i, t, q)
<1>1. DOMAIN q = 1..Len(q) /\ Len(q) \in Nat /\ \A n \in 1..Len(q) : q[n] \in Message
  OBVIOUS
<1>2. \A n \in 1..Len(q) : Seen(i, t, q[n]) \in Views(t)
  BY <1>1 DEF Message, Seen, Views
<1>3. v = [n \in 1..Len(q) |-> Seen(i, t, q[n])]
  BY <1>1 DEF SeenAll
<1> HIDE DEF v
<1>4. v \in [1..Len(q) -> Views(t)]
  BY <1>2, <1>3
<1>5. v \in Seq(Views(t)) /\ DOMAIN v = 1..Len(q)
  BY <1>1, <1>4
<1>6. Len(v) = Len(q)
  BY <1>1, <1>5, LenProperties
<1>7. \A n \in 1..Len(q) : v[n] = Seen(i, t, q[n])
  BY <1>3
<1> QED
  BY <1>5, <1>6, <1>7 DEF v

(* What a request sees of a message. *)
LEMMA SeenContent ==
  ASSUME NEW t, NEW s \in Seq(Views(t)), NEW n \in 1..Len(s)
  PROVE  s[n].content \in {t, "other"}
<1>1. s[n] \in Views(t)
  OBVIOUS
<1> QED
  BY <1>1 DEF Views

(* Taking a message takes what is seen of it. *)
LEMMA SeenTail ==
  ASSUME NEW i, NEW t, NEW q \in Seq(Message), q # <<>>
  PROVE  SeenAll(i, t, Tail(q)) = Tail(SeenAll(i, t, q))
<1> DEFINE u == Tail(q)
           v == SeenAll(i, t, q)
           w == SeenAll(i, t, u)
<1>1. /\ u \in Seq(Message) /\ Len(u) = Len(q) - 1
      /\ Len(q) \in Nat \ {0}
      /\ \A n \in 1..(Len(q) - 1) : u[n] = q[n + 1]
  OBVIOUS
<1>2. /\ v \in Seq(Views(t)) /\ Len(v) = Len(q)
      /\ \A n \in 1..Len(q) : v[n] = Seen(i, t, q[n])
  BY SeenType
<1> HIDE DEF u
<1>3. /\ w \in Seq(Views(t)) /\ Len(w) = Len(q) - 1
      /\ \A n \in 1..(Len(q) - 1) : w[n] = Seen(i, t, u[n])
  BY <1>1, SeenType
<1> HIDE DEF v, w
<1>4. /\ Tail(v) \in Seq(Views(t)) /\ Len(Tail(v)) = Len(q) - 1
      /\ \A n \in 1..(Len(q) - 1) : Tail(v)[n] = v[n + 1]
  BY <1>1, <1>2
<1>5. ASSUME NEW n \in 1..(Len(q) - 1) PROVE w[n] = Tail(v)[n]
  <2>1. n + 1 \in 1..Len(q)
    BY <1>1
  <2> QED
    BY <1>1, <1>2, <1>3, <1>4, <2>1
<1>6. w = Tail(v)
  BY <1>3, <1>4, <1>5, SeqEqual
<1> QED
  BY <1>6 DEF u, v, w

(* A message that arrives is seen last. *)
LEMMA SeenAppend ==
  ASSUME NEW i, NEW t, NEW q \in Seq(Message), NEW m \in Message
  PROVE  SeenAll(i, t, Append(q, m)) = Append(SeenAll(i, t, q), Seen(i, t, m))
<1> DEFINE u == Append(q, m)
           v == SeenAll(i, t, q)
           w == SeenAll(i, t, u)
           e == Seen(i, t, m)
<1>1. /\ u \in Seq(Message) /\ Len(u) = Len(q) + 1 /\ Len(q) \in Nat
      /\ \A n \in 1..Len(q) : u[n] = q[n]
      /\ u[Len(q) + 1] = m
  OBVIOUS
<1>2. /\ v \in Seq(Views(t)) /\ Len(v) = Len(q)
      /\ \A n \in 1..Len(q) : v[n] = Seen(i, t, q[n])
  BY SeenType
<1> HIDE DEF u
<1>3. /\ w \in Seq(Views(t)) /\ Len(w) = Len(q) + 1
      /\ \A n \in 1..(Len(q) + 1) : w[n] = Seen(i, t, u[n])
  BY <1>1, SeenType
<1>4. e \in Views(t)
  BY DEF Message, Seen, Views
<1>5. e = Seen(i, t, m)
  OBVIOUS
<1> HIDE DEF v, w, e
<1>6. /\ Append(v, e) \in Seq(Views(t)) /\ Len(Append(v, e)) = Len(q) + 1
      /\ \A n \in 1..Len(q) : Append(v, e)[n] = v[n]
      /\ Append(v, e)[Len(q) + 1] = e
  BY <1>2, <1>4
<1>7. ASSUME NEW n \in 1..(Len(q) + 1) PROVE w[n] = Append(v, e)[n]
  <2>1. n \in 1..Len(q) \/ n = Len(q) + 1
    BY <1>1
  <2> QED
    BY <1>1, <1>2, <1>3, <1>5, <1>6, <2>1
<1>8. w = Append(v, e)
  BY <1>3, <1>6, <1>7, SeqEqual
<1> QED
  BY <1>8 DEF u, v, w, e

(* The mailboxes of an object that has the Client to itself. *)
Mailboxes ==
  ~shared => \A i \in Receiving, t \in Topics :
    /\ Exclusive /\ i \in Interfaces
    /\ Request(t) = (IF wanted[i] = t THEN t ELSE "none")
    /\ Request(t) # "closed"
    /\ Pending(t) = SeenAll(i, t, queue[t])
    /\ queue[t] \in Seq(Message)

(* The mailboxes of an interface used alone are mailboxes. *)
LEMMA OwnMailboxes == TypeOK /\ Unshared => Mailboxes
<1> SUFFICES ASSUME TypeOK, Unshared, ~shared, NEW i \in Receiving, NEW t \in Topics
             PROVE  /\ Exclusive /\ i \in Interfaces
                    /\ Request(t) = (IF wanted[i] = t THEN t ELSE "none")
                    /\ Request(t) # "closed"
                    /\ Pending(t) = SeenAll(i, t, queue[t])
                    /\ queue[t] \in Seq(Message)
  BY DEF Mailboxes
<1>1. Exclusive /\ Owner = i /\ i \in Interfaces
  BY OnlyOwner DEF Exclusive, Receiving
<1>2. queue[t] \in Seq(Message)
  BY DEF TypeOK
<1>3. Pending(t) = SeenAll(i, t, queue[t])
  BY <1>1 DEF Pending, SeenAll, Seen, View
<1>4. Request(t) = IF wanted[i] = t THEN t ELSE "none"
  BY <1>1 DEF Request
<1>5. Request(t) # "closed"
  BY <1>4, TopicFacts
<1> QED
  BY <1>1, <1>2, <1>3, <1>4, <1>5

(* And so they are in the next state. *)
LEMMA NextMailboxes == TypeOK' /\ Unshared' => Mailboxes'
  BY OwnMailboxes, PTL

(* A mailbox that nobody or somebody else owns is closed; it closes, and   *)
(* it is left alone.                                                       *)
LEMMA StaysClosed ==
  ASSUME NEW t \in Topics, ~Exclusive, ~Exclusive'
  PROVE  MailStep(t)
  BY DEF Request, Pending, MailStep, Stutters

(* Losing the exclusive use closes the mailboxes. *)
LEMMA ItCloses ==
  ASSUME NEW t \in Topics, Exclusive, ~Exclusive', Mailboxes
  PROVE  MailStep(t)
<1>1. Request(t)' = "closed" /\ Pending(t)' = <<>>
  BY DEF Request, Pending
<1>2. Request(t) # "closed"
  BY DEF Exclusive, Mailboxes
<1> QED
  BY <1>1, <1>2 DEF MailStep, Closes

(* A step that leaves a topic alone is a stutter of its mailbox. *)
LEMMA LeftAlone ==
  ASSUME NEW t \in Topics, NEW i \in Receiving, i \in Receiving', ~shared, ~shared',
         Mailboxes, Mailboxes',
         queue'[t] = queue[t], wanted'[i] = wanted[i] \/ t \notin {wanted[i], wanted'[i]}
  PROVE  MailStep(t)
<1>1. /\ Request(t) = IF wanted[i] = t THEN t ELSE "none"
      /\ Pending(t) = SeenAll(i, t, queue[t])
  BY DEF Mailboxes
<1>2. /\ Request(t)' = IF wanted'[i] = t THEN t ELSE "none"
      /\ Pending(t)' = SeenAll(i, t, queue'[t])
  BY DEF Mailboxes
<1> QED
  BY <1>1, <1>2 DEF MailStep, Stutters

(* A constructor opens the mailboxes, or closes them for the object that   *)
(* had them; an exception in it or a destructor closes them.               *)
LEMMA ComingAndGoing ==
  ASSUME IInv, IInv', NEW t \in Topics, NEW i \in Interfaces,
         SubscribeNext(i) \/ SubscribeThrows(i) \/ UnsubscribeNext(i)
  PROVE  MailStep(t)
<1>1. Mailboxes /\ Mailboxes'
  BY OwnMailboxes, NextMailboxes DEF IInv
<1>2. wanted' = wanted /\ (~shared' => ~shared)
  <2>1. CASE SubscribeNext(i)
    BY <2>1 DEF SubscribeNext, callVars
  <2>2. CASE SubscribeThrows(i)
    BY <2>2 DEF SubscribeThrows, callVars
  <2>3. CASE UnsubscribeNext(i)
    BY <2>3 DEF UnsubscribeNext
  <2> QED
    BY <2>1, <2>2, <2>3
<1>3. CASE ~Exclusive /\ ~Exclusive'
  BY <1>3, StaysClosed
<1>4. CASE Exclusive /\ ~Exclusive'
  BY <1>1, <1>4, ItCloses
<1>5. CASE ~Exclusive /\ Exclusive'
  <2>1. ~shared' /\ ~shared /\ Receiving = {}
    BY <1>2, <1>5 DEF Exclusive
  <2>2. PICK j \in Receiving' : TRUE
    BY <1>5 DEF Exclusive
  <2>3. j \in Interfaces /\ status[j] # "alive"
    BY <2>1 DEF Receiving
  <2>4. wanted'[j] = "none"
    BY <1>2, <2>3 DEF IInv, LifeInv, TypeOK
  <2>5. /\ Request(t)' = IF wanted'[j] = t THEN t ELSE "none"
        /\ Pending(t)' = SeenAll(j, t, queue'[t])
        /\ queue'[t] \in Seq(Message)
    BY <1>1, <2>1 DEF Mailboxes
  <2>6. Request(t)' = "none"
    BY <2>4, <2>5, TopicFacts
  <2>7. Pending(t)' \in Seq(Views(t))
    BY <2>5, SeenType
  <2>8. \A n \in 1..Len(Pending(t)') : Pending(t)'[n].content \in {t, "other"}
    BY <2>7, SeenContent
  <2>9. Request(t) = "closed"
    BY <1>5 DEF Request
  <2> QED
    BY <2>6, <2>8, <2>9 DEF MailStep, Opens
<1>6. CASE Exclusive /\ Exclusive'
  <2>1. ~shared /\ ~shared'
    BY <1>6 DEF Exclusive
  <2>2. PICK j \in Receiving : Receiving = {j}
    BY <1>6, <2>1, OnlyOwner DEF Exclusive, IInv
  <2>3. j \in Present /\ \A k \in Present : k = j
    BY <2>1, <2>2 DEF Present, Receiving, IInv, Unshared
  <2>4. Receiving' # {}
    BY <1>6 DEF Exclusive
  <2>5. CASE SubscribeNext(i)
    <3>1. Present \ {i} = {}
      BY <2>1, <2>5 DEF SubscribeNext
    <3>2. i = j
      BY <2>3, <3>1
    <3>3. j \in Receiving'
      BY <2>5, <3>2 DEF SubscribeNext, Receiving, IInv, TypeOK
    <3>4. queue' = queue
      BY <2>5 DEF SubscribeNext
    <3> QED
      BY <1>1, <1>2, <2>1, <3>3, <3>4, LeftAlone
  <2>6. CASE SubscribeThrows(i)
    <3>1. i # j
      BY <2>2, <2>4, <2>6 DEF SubscribeThrows, Receiving, IInv, TypeOK
    <3>2. j \in Receiving'
      BY <2>2, <2>6, <3>1 DEF SubscribeThrows, Receiving, IInv, TypeOK
    <3>3. queue' = queue
      BY <2>6 DEF SubscribeThrows
    <3> QED
      BY <1>1, <1>2, <2>1, <3>2, <3>3, LeftAlone
  <2>7. CASE UnsubscribeNext(i)
    <3>1. i = j
      BY <2>3, <2>7 DEF UnsubscribeNext, Present
    <3>2. status'[j] \notin {"constructing", "alive"}
      BY <2>7, <3>1 DEF UnsubscribeNext, IInv, TypeOK
    <3>3. \A k \in Interfaces : k # i => status'[k] = status[k]
      BY <2>7 DEF UnsubscribeNext, IInv, TypeOK
    <3>4. Receiving' = {}
      BY <2>2, <3>1, <3>2, <3>3 DEF Receiving
    <3> QED
      BY <2>4, <3>4
  <2> QED
    BY <2>5, <2>6, <2>7
<1> QED
  BY <1>3, <1>4, <1>5, <1>6

(* The steps of a call and the arrival of a message, for the object that   *)
(* has the mailboxes.                                                      *)
LEMMA OwnCallStep ==
  ASSUME IInv, Mailboxes, Mailboxes', ~shared, ~shared', NEW t \in Topics,
         NEW i \in Receiving, i \in Receiving', CallStep(i)
  PROVE  MailStep(t)
<1>1. /\ i \in Interfaces
      /\ Request(t) = IF wanted[i] = t THEN t ELSE "none"
      /\ Pending(t) = SeenAll(i, t, queue[t]) /\ queue[t] \in Seq(Message)
  BY DEF Mailboxes
<1>2. /\ Request(t)' = IF wanted'[i] = t THEN t ELSE "none"
      /\ Pending(t)' = SeenAll(i, t, queue'[t])
  BY DEF Mailboxes
<1>3. CASE ClientHasMessage(i)
  <2> DEFINE q == queue[t]
  <2>1. wanted'[i] = "none" /\ wanted[i] \in Topics
    BY <1>1, <1>3 DEF ClientHasMessage, IInv, TypeOK
  <2>2. CASE wanted[i] # t
    <3>1. queue'[t] = queue[t]
      BY <1>3, <2>1, <2>2 DEF ClientHasMessage, IInv, TypeOK
    <3>2. t \notin {wanted[i], wanted'[i]}
      BY <2>1, <2>2, TopicFacts
    <3> QED
      BY <3>1, <3>2, LeftAlone
  <2>3. CASE wanted[i] = t
    <3>1. q # <<>> /\ queue'[t] = Tail(q)
      BY <1>3, <2>3 DEF ClientHasMessage, IInv, TypeOK
    <3>2. /\ Pending(t) \in Seq(Views(t)) /\ Len(Pending(t)) = Len(q)
      BY <1>1, SeenType
    <3>3. Len(q) >= 1
      BY <1>1, <3>1
    <3>4. 1 \in 1..Len(Pending(t)) /\ Pending(t) # <<>>
      BY <3>2, <3>3
    <3>8. Pending(t)[1].content \in {t, "other"}
      BY <3>2, <3>4, SeenContent
    <3>5. Pending(t)' = Tail(Pending(t))
      BY <1>1, <1>2, <3>1, SeenTail
    <3>6. Pending(t)' = RemoveAt(Pending(t), 1)
      BY <3>2, <3>4, <3>5, RemoveOldest
    <3>7. Request(t) = t /\ Request(t)' = "none"
      BY <1>1, <1>2, <2>1, <2>3, TopicFacts
    <3> QED
      BY <3>2, <3>3, <3>6, <3>7, <3>8 DEF MailStep, Takes
  <2> QED
    BY <2>2, <2>3
<1>4. CASE ClientReturnsNothing(i)
  <2>1. wanted'[i] = "none" /\ queue' = queue
    BY <1>1, <1>4 DEF ClientReturnsNothing, clientVars, IInv, TypeOK
  <2>2. CASE wanted[i] = t
    <3>1. Request(t) = t /\ Request(t)' = "none" /\ Pending(t)' = Pending(t)
      BY <1>1, <1>2, <2>1, <2>2, TopicFacts
    <3> QED
      BY <3>1 DEF MailStep, Refuses
  <2>3. CASE wanted[i] # t
    BY <2>1, <2>3, LeftAlone, TopicFacts
  <2> QED
    BY <2>2, <2>3
<1>5. CASE ClientBlocks(i) \/ ClientUsesErasedQueue(i) \/ PublishState(i)
  <2>1. wanted' = wanted /\ queue' = queue
    BY <1>5 DEF ClientBlocks, ClientUsesErasedQueue, PublishState, callVars, clientVars
  <2> QED
    BY <2>1, LeftAlone
<1> QED
  BY <1>3, <1>4, <1>5 DEF CallStep

(* A call of the owner asks the mailbox of its topic only. *)
LEMMA OwnAsk ==
  ASSUME IInv, Mailboxes, Mailboxes', ~shared, ~shared', NEW t \in Topics, NEW u \in Topics,
         NEW i \in Receiving, i \in Receiving', Get(i, u)
  PROVE  MailStep(t)
<1>1. /\ i \in Interfaces
      /\ Request(t) = IF wanted[i] = t THEN t ELSE "none"
      /\ Pending(t) = SeenAll(i, t, queue[t])
  BY DEF Mailboxes
<1>2. /\ Request(t)' = IF wanted'[i] = t THEN t ELSE "none"
      /\ Pending(t)' = SeenAll(i, t, queue'[t])
  BY DEF Mailboxes
<1>3. wanted[i] = "none" /\ wanted'[i] = u /\ queue' = queue
  BY <1>1 DEF Get, clientVars, IInv, TypeOK
<1>4. CASE u = t
  <2>1. Request(t) = "none" /\ Request(t)' = t /\ Pending(t)' = Pending(t)
    BY <1>1, <1>2, <1>3, <1>4, TopicFacts
  <2> QED
    BY <2>1 DEF MailStep, Asks
<1>5. CASE u # t
  BY <1>3, <1>5, LeftAlone, TopicFacts
<1> QED
  BY <1>4, <1>5

(* A message that arrives is put into its mailbox only. *)
LEMMA OwnArrival ==
  ASSUME IInv, Mailboxes, Mailboxes', ~shared, ~shared', NEW t \in Topics, NEW u \in Topics,
         NEW i \in Receiving, i \in Receiving', NEW to \in SUBSET Interfaces, Arrive(u, to)
  PROVE  MailStep(t)
<1> DEFINE m == [id |-> arrived + 1, to |-> to]
<1>1. /\ Request(t) = IF wanted[i] = t THEN t ELSE "none"
      /\ Request(t) # "closed"
      /\ Pending(t) = SeenAll(i, t, queue[t]) /\ queue[t] \in Seq(Message)
  BY DEF Mailboxes
<1>2. /\ Request(t)' = IF wanted'[i] = t THEN t ELSE "none"
      /\ Pending(t)' = SeenAll(i, t, queue'[t])
  BY DEF Mailboxes
<1>3. wanted' = wanted
  BY DEF Arrive, callVars
<1>4. m \in Message
  BY UdsAssumption DEF Arrive, IInv, TypeOK, Message
<1>5. CASE queue'[t] = queue[t]
  BY <1>3, <1>5, LeftAlone
<1>6. CASE queue'[t] = Append(queue[t], m)
  <2>1. Pending(t) \in Seq(Views(t))
    BY <1>1, SeenType
  <2> HIDE DEF m
  <2>2. Pending(t)' = Append(Pending(t), Seen(i, t, m))
    BY <1>1, <1>2, <1>4, <1>6, SeenAppend
  <2>3. Seen(i, t, m) \in Views(t) /\ Seen(i, t, m).content \in {t, "other"}
    BY <1>4 DEF Seen, Views, Message
  <2>4. /\ Pending(t)' # <<>> /\ Front(Pending(t)') = Pending(t)
        /\ Last(Pending(t)') = Seen(i, t, m)
    BY <2>1, <2>2, <2>3, FrontOfAppend
  <2>5. Request(t)' = Request(t)
    BY <1>1, <1>2, <1>3
  <2> QED
    BY <1>1, <2>3, <2>4, <2>5 DEF MailStep, Arrives
<1>7. queue'[t] = queue[t] \/ queue'[t] = Append(queue[t], m)
  BY DEF Arrive, IInv, TypeOK
<1> QED
  BY <1>5, <1>6, <1>7

(* Every step is a step or a stutter of every mailbox. *)
LEMMA MailboxStep ==
  ASSUME IInv, IInv', NEW t \in Topics, [Next]_vars
  PROVE  MailStep(t)
<1>1. Mailboxes /\ Mailboxes'
  BY OwnMailboxes, NextMailboxes DEF IInv
<1>2. ASSUME NEW i \in Interfaces,
             SubscribeNext(i) \/ SubscribeThrows(i) \/ UnsubscribeNext(i)
      PROVE  MailStep(t)
  BY <1>2, ComingAndGoing
<1>3. ASSUME status' = status, shared' = shared, ~Exclusive
      PROVE  MailStep(t)
  BY <1>3, StaysClosed DEF Exclusive, Receiving
<1>4. ASSUME status' = status, shared' = shared, Exclusive
      PROVE  /\ ~shared /\ ~shared' /\ Receiving' = Receiving
             /\ \E i \in Receiving : Receiving = {i}
  BY <1>4, OnlyOwner DEF Exclusive, Receiving, IInv
<1>5. ASSUME NEW i \in Interfaces, CallStep(i) PROVE MailStep(t)
  <2>1. status' = status /\ shared' = shared
    BY <1>5 DEF CallStep, ClientHasMessage, ClientBlocks, ClientReturnsNothing,
       ClientUsesErasedQueue, PublishState, lifeVars
  <2>2. CASE Exclusive
    <3>1. call[i] # "idle"
      BY <1>5 DEF CallStep, ClientHasMessage, ClientBlocks, ClientReturnsNothing,
         ClientUsesErasedQueue, PublishState
    <3>2. i \in Receiving
      BY <3>1 DEF IInv, LifeInv, Receiving
    <3> QED
      BY <1>1, <1>4, <1>5, <2>1, <2>2, <3>2, OwnCallStep
  <2> QED
    BY <1>3, <2>1, <2>2
<1>6. ASSUME NEW i \in Interfaces, NEW u \in Topics, Get(i, u) PROVE MailStep(t)
  <2>1. status' = status /\ shared' = shared /\ i \in Receiving
    BY <1>6 DEF Get, lifeVars, Alive, Receiving
  <2>2. CASE Exclusive
    BY <1>1, <1>4, <1>6, <2>1, <2>2, OwnAsk
  <2> QED
    BY <1>3, <2>1, <2>2
<1>7. ASSUME NEW u \in Topics, NEW to \in SUBSET Interfaces, Arrive(u, to)
      PROVE  MailStep(t)
  <2>1. status' = status /\ shared' = shared
    BY <1>7 DEF Arrive, lifeVars
  <2>2. CASE Exclusive
    BY <1>1, <1>4, <1>7, <2>1, <2>2, OwnArrival
  <2> QED
    BY <1>3, <2>1, <2>2
<1>8. CASE UNCHANGED vars
  <2>1. /\ status' = status /\ shared' = shared /\ wanted' = wanted /\ queue' = queue
    BY <1>8 DEF vars, lifeVars, callVars, clientVars
  <2>2. CASE Exclusive
    BY <1>1, <1>4, <2>1, <2>2, LeftAlone
  <2> QED
    BY <1>3, <2>1, <2>2
<1> QED
  BY <1>2, <1>5, <1>6, <1>7, <1>8 DEF Next

(* The mailboxes are empty and closed at first. *)
LEMMA MailboxInit ==
  ASSUME Init, NEW t \in Topics
  PROVE  Pending(t) = <<>> /\ Request(t) = "closed"
<1>1. Receiving = {}
  BY DEF Init, Receiving
<1> QED
  BY <1>1 DEF Pending, Request, Exclusive

(* The three mailboxes do such steps. *)
LEMMA AllocationStep ==
  ASSUME MailStep("alloc")
  PROVE  [Allocations!Next]_<<Pending("alloc"), Request("alloc")>>
<1>1. CASE Opens("alloc")
  BY <1>1 DEF Opens, Allocations!Next, Allocations!Open, Allocations!AllContents
<1>2. CASE Closes("alloc")
  BY <1>2 DEF Closes, Allocations!Next, Allocations!Close
<1>3. CASE Arrives("alloc")
  BY <1>3 DEF Arrives, Allocations!Next, Allocations!Arrive, Allocations!AllContents,
     Allocations!Front, Allocations!Last, Front, Last
<1>4. CASE Asks("alloc")
  BY <1>4 DEF Asks, Allocations!Next, Allocations!Ask, Allocations!Requests
<1>5. CASE Refuses("alloc")
  BY <1>5 DEF Refuses, Allocations!Next, Allocations!Refuse, Allocations!Requests
<1>6. CASE Takes("alloc")
  <2>1. /\ Allocations!RemoveAt(Pending("alloc"), 1) = RemoveAt(Pending("alloc"), 1)
        /\ Request("alloc") \in Allocations!Requests
    BY <1>6 DEF Takes, Allocations!RemoveAt, RemoveAt, Allocations!Requests
  <2>2. 1 \in 1..Len(Pending("alloc")) /\ \A j \in 1..(1 - 1) : FALSE
    BY <1>6 DEF Takes
  <2>3. CASE Pending("alloc")[1].content = "alloc"
    BY <1>6, <2>1, <2>2, <2>3
    DEF Takes, Allocations!Next, Allocations!Answer, Allocations!Matches
  <2>4. CASE Pending("alloc")[1].content = "other"
    BY <1>6, <2>1, <2>2, <2>4 DEF Takes, Allocations!Next, Allocations!Discard
  <2> QED
    BY <1>6, <2>3, <2>4 DEF Takes
<1>7. CASE Stutters("alloc")
  BY <1>7 DEF Stutters
<1> QED
  BY <1>1, <1>2, <1>3, <1>4, <1>5, <1>6, <1>7 DEF MailStep

(* A step of the mailbox of releases, as its specification has it. *)
LEMMA ReleaseStep ==
  ASSUME MailStep("release")
  PROVE  [Releases!Next]_<<Pending("release"), Request("release")>>
<1>1. CASE Opens("release")
  BY <1>1 DEF Opens, Releases!Next, Releases!Open, Releases!AllContents
<1>2. CASE Closes("release")
  BY <1>2 DEF Closes, Releases!Next, Releases!Close
<1>3. CASE Arrives("release")
  BY <1>3 DEF Arrives, Releases!Next, Releases!Arrive, Releases!AllContents,
     Releases!Front, Releases!Last, Front, Last
<1>4. CASE Asks("release")
  BY <1>4 DEF Asks, Releases!Next, Releases!Ask, Releases!Requests
<1>5. CASE Refuses("release")
  BY <1>5 DEF Refuses, Releases!Next, Releases!Refuse, Releases!Requests
<1>6. CASE Takes("release")
  <2>1. /\ Releases!RemoveAt(Pending("release"), 1) = RemoveAt(Pending("release"), 1)
        /\ Request("release") \in Releases!Requests
    BY <1>6 DEF Takes, Releases!RemoveAt, RemoveAt, Releases!Requests
  <2>2. 1 \in 1..Len(Pending("release")) /\ \A j \in 1..(1 - 1) : FALSE
    BY <1>6 DEF Takes
  <2>3. CASE Pending("release")[1].content = "release"
    BY <1>6, <2>1, <2>2, <2>3
    DEF Takes, Releases!Next, Releases!Answer, Releases!Matches
  <2>4. CASE Pending("release")[1].content = "other"
    BY <1>6, <2>1, <2>2, <2>4 DEF Takes, Releases!Next, Releases!Discard
  <2> QED
    BY <1>6, <2>3, <2>4 DEF Takes
<1>7. CASE Stutters("release")
  BY <1>7 DEF Stutters
<1> QED
  BY <1>1, <1>2, <1>3, <1>4, <1>5, <1>6, <1>7 DEF MailStep

(* A step of the mailbox of requests, as its specification has it. *)
LEMMA RequestStep ==
  ASSUME MailStep("request")
  PROVE  [RequestMessages!Next]_<<Pending("request"), Request("request")>>
<1>1. CASE Opens("request")
  BY <1>1 DEF Opens, RequestMessages!Next, RequestMessages!Open, RequestMessages!AllContents
<1>2. CASE Closes("request")
  BY <1>2 DEF Closes, RequestMessages!Next, RequestMessages!Close
<1>3. CASE Arrives("request")
  BY <1>3 DEF Arrives, RequestMessages!Next, RequestMessages!Arrive, RequestMessages!AllContents,
     RequestMessages!Front, RequestMessages!Last, Front, Last
<1>4. CASE Asks("request")
  BY <1>4 DEF Asks, RequestMessages!Next, RequestMessages!Ask, RequestMessages!Requests
<1>5. CASE Refuses("request")
  BY <1>5 DEF Refuses, RequestMessages!Next, RequestMessages!Refuse, RequestMessages!Requests
<1>6. CASE Takes("request")
  <2>1. /\ RequestMessages!RemoveAt(Pending("request"), 1) = RemoveAt(Pending("request"), 1)
        /\ Request("request") \in RequestMessages!Requests
    BY <1>6 DEF Takes, RequestMessages!RemoveAt, RemoveAt, RequestMessages!Requests
  <2>2. 1 \in 1..Len(Pending("request")) /\ \A j \in 1..(1 - 1) : FALSE
    BY <1>6 DEF Takes
  <2>3. CASE Pending("request")[1].content = "request"
    BY <1>6, <2>1, <2>2, <2>3
    DEF Takes, RequestMessages!Next, RequestMessages!Answer, RequestMessages!Matches
  <2>4. CASE Pending("request")[1].content = "other"
    BY <1>6, <2>1, <2>2, <2>4 DEF Takes, RequestMessages!Next, RequestMessages!Discard
  <2> QED
    BY <1>6, <2>3, <2>4 DEF Takes
<1>7. CASE Stutters("request")
  BY <1>7 DEF Stutters
<1> QED
  BY <1>1, <1>2, <1>3, <1>4, <1>5, <1>6, <1>7 DEF MailStep

(* An object that has the Client to itself implements three mailboxes, for *)
(* any number of objects that come and go, until two of them share it.     *)
THEOREM Refinement == Spec => ImplementsMailboxes
<1>1. Init => Allocations!Init /\ Releases!Init /\ RequestMessages!Init
  BY MailboxInit, TopicFacts DEF Allocations!Init, Releases!Init, RequestMessages!Init
<1>2. IInv /\ IInv' /\ [Next]_vars => [Allocations!Next]_<<Pending("alloc"), Request("alloc")>>
  BY MailboxStep, AllocationStep, TopicFacts
<1>3. IInv /\ IInv' /\ [Next]_vars => [Releases!Next]_<<Pending("release"), Request("release")>>
  BY MailboxStep, ReleaseStep, TopicFacts
<1>4. IInv /\ IInv' /\ [Next]_vars =>
        [RequestMessages!Next]_<<Pending("request"), Request("request")>>
  BY MailboxStep, RequestStep, TopicFacts
<1> QED
  BY <1>1, <1>2, <1>3, <1>4, InitIInv, NextIInv, PTL
  DEF Spec, ImplementsMailboxes, Allocations!Spec, Releases!Spec, RequestMessages!Spec
=============================================================================
