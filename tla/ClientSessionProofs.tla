------------------------- MODULE ClientSessionProofs -------------------------
(***************************************************************************)
(* What holds of ClientSession for any number of threads and topics and    *)
(* any bounds: its types and its safety properties.  The connection is     *)
(* reasoned about as two sets, of what is in transit each way, and as an   *)
(* order on the packets where the order matters.                           *)
(***************************************************************************)
EXTENDS ClientSession, SequenceTheorems, TLAPS

Elements(s) == {s[i] : i \in 1..Len(s)}

(* In s, no element of B comes after one of A. *)
NoneAfter(s, A, B) ==
  \A i, j \in 1..Len(s) : i < j /\ s[i] \in A => s[j] \notin B

Out == Elements(outgoing)
In == Elements(incoming)

(* The object has a loop thread from loop_start to the end of the          *)
(* destructor, and without a connection nothing is in transit.             *)
LifeInv ==
  /\ life \in {"unborn", "connected"} =>
       /\ ~loop_thread /\ ~disconnecting
       /\ outgoing = <<>> /\ incoming = <<>> /\ broker = {}
  /\ life \in {"constructing", "alive", "destroying", "unretained"} => loop_thread
  /\ life = "dead" => ~loop_thread
  /\ life = "unwinding" => threw
  /\ disconnecting => life \in {"joining", "dead"}
  /\ loop_thread /\ ~connected /\ ~disconnecting =>
       outgoing = <<>> /\ incoming = <<>> /\ broker = {}

(* Who may be in a call, and in which. *)
CallInv ==
  /\ \A th \in Threads : op[th] = "unretain" <=> topic[th] = Status
  /\ \A th \in Threads : pc[th] # "idle" =>
       /\ life \in {"constructing", "alive", "destroying"}
       /\ life # "alive" => th = Owner
       /\ life = "destroying" <=> op[th] = "unretain"
  /\ life = "destroying" /\ Running => pc[Owner] # "idle"

(* A packet and its acknowledgement carry the serial of their call, and no *)
(* serial is ahead of the library's count.                                 *)
SerialInv ==
  /\ \A p \in Out :
       /\ p.kind # "status" => p.serial \in 1..sent
       /\ p.kind = "status" => p.serial = 0
       /\ p.topic = Status <=> p.kind \in {"unretain", "status"}
       /\ \A th \in Threads : pc[th] = "await" /\ p.serial = serial[th] =>
            p.kind = op[th] /\ p.topic = topic[th]
  /\ \A a \in In : a.kind = "ack" =>
       /\ a.serial \in 1..sent
       /\ \A th \in Threads : pc[th] = "await" /\ a.serial = serial[th] =>
            a.topic = topic[th]
  /\ acked \subseteq 1..sent

(* The topics the client has, or had, a queue for. *)
Known == queues \cup unsubscribed

KnownInv ==
  /\ missed = {}
  /\ broker \subseteq Known
  /\ \A p \in Out : p.kind = "subscribe" => p.topic \in Known
  /\ \A a \in In : a.kind = "message" => a.topic \in Known
  /\ \A th \in Threads : pc[th] # "idle" /\ op[th] = "subscribe" => topic[th] \in Known

Answered(s) == s \in acked \/ \E a \in In : a.kind = "ack" /\ a.serial = s

(* The packet of Unretain is on its way, or answered, or was lost. *)
CauseInv ==
  /\ process = "use_after_free" => threw
  /\ process \in {"undecodable", "publish_refused"} => Announcement \in Known
  /\ process = "unacknowledged" =>
       \/ losses > 0
       \/ \E p \in Out : p.kind = "unretain"
       \/ \E a \in In : a.kind = "ack" /\ a.topic = Status
  /\ life = "destroying" /\ pc[Owner] = "await" =>
       \/ losses > 0
       \/ \E p \in Out : p.serial = serial[Owner]
       \/ Answered(serial[Owner])

Withdrawn == ~retained /\ \A p \in Out : p.kind # "status"

Unretains == {p \in Packet : p.kind = "unretain"}
Statuses == {p \in Packet : p.kind = "status"}

(* The life l of the object, and the place c of the owner in its call, when *)
(* the packet of Unretain has gone out.                                     *)
UnretainLife(l, c) ==
  /\ l \in {"destroying", "unretained", "joining", "dead"}
  /\ l = "destroying" => c # "call"

(* Once Unretain is answered, and unless a status overtook it, no           *)
(* status is at the broker or on its way.                                  *)
StatusInv ==
  /\ (\E p \in Out : p.kind = "unretain") => UnretainLife(life, pc[Owner])
  /\ ~announced =>
       /\ NoneAfter(outgoing, Unretains, Statuses)
       /\ life = "destroying" /\ pc[Owner] = "await" /\ Answered(serial[Owner]) => Withdrawn
       /\ life \in {"unretained", "joining", "dead"} /\ Running /\ ~threw => Withdrawn

PacketsOf(t) == {p \in Packet : p.topic = t}
PacketOf(s) == {p \in Packet : p.serial = s}

Settled(t) == \A p \in Out : p.topic # t

(* A clean call is alone on its topic, its queue is as it wants it, its    *)
(* packet is the last one of the topic, and once it is answered the broker *)
(* is as it wants it too.                                                  *)
CleanCall(t, th) ==
  /\ \A u \in Threads : pc[u] # "idle" /\ topic[u] = t => u = th
  /\ t \in queues <=> op[th] = "subscribe"
  /\ pc[th] = "await" =>
       /\ NoneAfter(outgoing, PacketOf(serial[th]), PacketsOf(t))
       /\ Answered(serial[th]) => Settled(t) /\ (t \in broker <=> op[th] = "subscribe")

Agreed(t) ==
  /\ \A th \in Threads : pc[th] # "idle" /\ topic[th] = t => CleanCall(t, th)
  /\ ~Busy(t) => Settled(t) /\ (t \in queues <=> t \in broker)

AgreementInv == \A t \in Topics \ disturbed : Agreed(t)

IInv == /\ TypeOK /\ LifeInv /\ CallInv /\ SerialInv
        /\ KnownInv /\ CauseInv /\ StatusInv /\ AgreementInv
-----------------------------------------------------------------------------
(* Nothing is in an empty sequence. *)
LEMMA ElementsEmpty == Elements(<<>>) = {}
  BY DEF Elements

(* One element is in a sequence of one. *)
LEMMA ElementsOne == ASSUME NEW e PROVE Elements(<<e>>) = {e}
  BY DEF Elements

(* What Append adds to the elements of a sequence. *)
LEMMA ElementsAppend ==
  ASSUME NEW S, NEW s \in Seq(S), NEW e \in S
  PROVE  Elements(Append(s, e)) = Elements(s) \cup {e}
<1>1. /\ Len(s) \in Nat /\ Len(Append(s, e)) = Len(s) + 1
      /\ Append(s, e)[Len(s) + 1] = e
      /\ \A i \in 1..Len(s) : Append(s, e)[i] = s[i]
  BY AppendProperties
<1>2. 1..(Len(s) + 1) = 1..Len(s) \cup {Len(s) + 1}
  BY <1>1
<1> QED BY <1>1, <1>2 DEF Elements

(* A sequence has its head and what its tail has. *)
LEMMA ElementsTail ==
  ASSUME NEW S, NEW s \in Seq(S), s # <<>>
  PROVE  Elements(s) = {Head(s)} \cup Elements(Tail(s))
<1>1. /\ Len(s) \in Nat \ {0} /\ Head(s) = s[1] /\ Len(Tail(s)) = Len(s) - 1
      /\ \A i \in 1..Len(Tail(s)) : Tail(s)[i] = s[i + 1]
  BY HeadTailProperties, EmptySeq
<1>2. ASSUME NEW x \in Elements(s) PROVE x \in {Head(s)} \cup Elements(Tail(s))
  <2>1. PICK i \in 1..Len(s) : x = s[i]
    BY DEF Elements
  <2>2. CASE i = 1
    BY <1>1, <2>1, <2>2
  <2>3. CASE i # 1
    <3>1. i - 1 \in 1..Len(Tail(s)) /\ (i - 1) + 1 = i
      BY <1>1, <2>3
    <3>2. x = Tail(s)[i - 1]
      BY <1>1, <2>1, <3>1
    <3> QED BY <3>1, <3>2 DEF Elements
  <2> QED BY <2>2, <2>3
<1>3. ASSUME NEW x \in Elements(Tail(s)) PROVE x \in Elements(s)
  <2>1. PICK i \in 1..Len(Tail(s)) : x = Tail(s)[i]
    BY DEF Elements
  <2>2. i + 1 \in 1..Len(s) /\ x = s[i + 1]
    BY <1>1, <2>1
  <2> QED BY <2>2 DEF Elements
<1>4. Head(s) \in Elements(s)
  <2>1. 1 \in 1..Len(s)
    BY <1>1
  <2> QED BY <1>1, <2>1 DEF Elements
<1> QED BY <1>2, <1>3, <1>4

(* A sequence over a set has elements of the set. *)
LEMMA ElementsIn == ASSUME NEW S, NEW s \in Seq(S) PROVE Elements(s) \subseteq S
  BY DEF Elements

(* Nothing follows in a sequence of at most one element. *)
LEMMA NoneAfterFew ==
  ASSUME NEW A, NEW B, NEW e
  PROVE  NoneAfter(<<>>, A, B) /\ NoneAfter(<<e>>, A, B)
  BY DEF NoneAfter

(* The order of two kinds of elements survives taking the head. *)
LEMMA NoneAfterTail ==
  ASSUME NEW S, NEW s \in Seq(S), s # <<>>, NEW A, NEW B, NoneAfter(s, A, B)
  PROVE  /\ NoneAfter(Tail(s), A, B)
         /\ Head(s) \in A => \A x \in Elements(Tail(s)) : x \notin B
<1>1. /\ Len(s) \in Nat \ {0} /\ Head(s) = s[1] /\ Len(Tail(s)) = Len(s) - 1
      /\ \A i \in 1..Len(Tail(s)) : Tail(s)[i] = s[i + 1]
  BY HeadTailProperties, EmptySeq
<1>2. ASSUME NEW i \in 1..Len(Tail(s)), NEW j \in 1..Len(Tail(s)),
             i < j, Tail(s)[i] \in A
      PROVE  Tail(s)[j] \notin B
  <2>1. i + 1 \in 1..Len(s) /\ j + 1 \in 1..Len(s) /\ i + 1 < j + 1
    BY <1>1, <1>2
  <2>2. Tail(s)[i] = s[i + 1] /\ Tail(s)[j] = s[j + 1]
    BY <1>1
  <2> QED BY <1>2, <2>1, <2>2 DEF NoneAfter
<1>3. ASSUME Head(s) \in A, NEW x \in Elements(Tail(s)) PROVE x \notin B
  <2>1. PICK i \in 1..Len(Tail(s)) : x = Tail(s)[i]
    BY DEF Elements
  <2>2. 1 \in 1..Len(s) /\ i + 1 \in 1..Len(s) /\ 1 < i + 1 /\ x = s[i + 1]
    BY <1>1, <2>1
  <2> QED BY <1>1, <1>3, <2>2 DEF NoneAfter
<1>4. NoneAfter(Tail(s), A, B)
  BY <1>2 DEF NoneAfter
<1> QED BY <1>3, <1>4

(* An element added in order keeps the order of two kinds of elements. *)
LEMMA NoneAfterAppend ==
  ASSUME NEW S, NEW s \in Seq(S), NEW e \in S, NEW A, NEW B, NoneAfter(s, A, B),
         e \notin B \/ \A x \in Elements(s) : x \notin A
  PROVE  NoneAfter(Append(s, e), A, B)
<1>1. /\ Len(s) \in Nat /\ Len(Append(s, e)) = Len(s) + 1
      /\ Append(s, e)[Len(s) + 1] = e
      /\ \A i \in 1..Len(s) : Append(s, e)[i] = s[i]
  BY AppendProperties
<1> SUFFICES ASSUME NEW i \in 1..(Len(s) + 1), NEW j \in 1..(Len(s) + 1),
                    i < j, Append(s, e)[i] \in A
             PROVE  Append(s, e)[j] \notin B
  BY <1>1 DEF NoneAfter
<1>2. i \in 1..Len(s) /\ s[i] \in A
  BY <1>1
<1>3. CASE j = Len(s) + 1
  <2>1. s[i] \in Elements(s)
    BY <1>2 DEF Elements
  <2> QED BY <1>1, <1>2, <1>3, <2>1
<1>4. CASE j \in 1..Len(s)
  BY <1>1, <1>2, <1>4 DEF NoneAfter
<1> QED BY <1>1, <1>3, <1>4
-----------------------------------------------------------------------------
(* What is in transit are packets one way and arrivals the other. *)
LEMMA InTransit ==
  ASSUME TypeOK PROVE Out \subseteq Packet /\ In \subseteq Arrival
  BY ElementsIn DEF TypeOK, Out, In

(* A packet sent is one more in transit. *)
LEMMA PacketSent ==
  ASSUME TypeOK, NEW p \in Packet, outgoing' = Append(outgoing, p)
  PROVE  outgoing' \in Seq(Packet) /\ Out' = Out \cup {p}
  BY ElementsAppend DEF TypeOK, Out

(* The broker takes the packet that was sent first. *)
LEMMA PacketTaken ==
  ASSUME TypeOK, outgoing # <<>>, outgoing' = Tail(outgoing)
  PROVE  /\ outgoing' \in Seq(Packet) /\ Head(outgoing) \in Packet
         /\ Out = {Head(outgoing)} \cup Out'
  BY ElementsTail, HeadTailProperties DEF TypeOK, Out

(* What the broker sends is one more in transit. *)
LEMMA ArrivalSent ==
  ASSUME TypeOK, NEW a \in Arrival, incoming' = Append(incoming, a)
  PROVE  incoming' \in Seq(Arrival) /\ In' = In \cup {a}
  BY ElementsAppend DEF TypeOK, In

(* The loop takes what the broker sent first. *)
LEMMA ArrivalTaken ==
  ASSUME TypeOK, incoming # <<>>, incoming' = Tail(incoming)
  PROVE  /\ incoming' \in Seq(Arrival) /\ Head(incoming) \in Arrival
         /\ In = {Head(incoming)} \cup In'
  BY ElementsTail, HeadTailProperties DEF TypeOK, In

(* An empty link has nothing in transit. *)
LEMMA NothingInTransit ==
  /\ outgoing = <<>> => Out = {}
  /\ incoming = <<>> => In = {}
  BY ElementsEmpty DEF Out, In

(* A link left alone keeps what is in transit. *)
LEMMA SameInTransit ==
  /\ UNCHANGED outgoing => UNCHANGED Out
  /\ UNCHANGED incoming => UNCHANGED In
  BY DEF Out, In
-----------------------------------------------------------------------------
(* The type invariant by groups of variables. *)
CallTypes ==
  /\ pc \in [Threads -> {"idle", "call", "await"}]
  /\ op \in [Threads -> Ops]
  /\ topic \in [Threads -> Topics \cup {Status}]
  /\ serial \in [Threads -> 0..MaxCalls]
  /\ sent \in 0..MaxCalls
  /\ \A th \in Threads : pc[th] = "await" => serial[th] \in 1..sent

LinkTypes ==
  /\ connected \in BOOLEAN /\ losses \in 0..MaxLosses
  /\ outgoing \in Seq(Packet) /\ incoming \in Seq(Arrival)

BrokerTypes ==
  broker \subseteq Topics /\ retained \in BOOLEAN /\ messages_sent \in 0..MaxMessages

LifeTypes ==
  /\ life \in Lives
  /\ loop_thread \in BOOLEAN /\ disconnecting \in BOOLEAN /\ threw \in BOOLEAN

HistoryTypes ==
  /\ disturbed \subseteq Topics \cup {Status} /\ unsubscribed \subseteq Topics
  /\ missed \subseteq Topics /\ announced \in BOOLEAN

RestTypes ==
  /\ queues \subseteq Topics /\ acked \subseteq 1..MaxCalls
  /\ process \in {"running", "unacknowledged", "refused", "undecodable",
                  "publish_refused", "use_after_free"}

(* The type invariant by the groups of variables. *)
LEMMA TypeParts ==
  /\ TypeOK => CallTypes /\ LinkTypes /\ BrokerTypes /\ LifeTypes /\ HistoryTypes /\ RestTypes
  /\ CallTypes' /\ LinkTypes' /\ BrokerTypes' /\ LifeTypes' /\ HistoryTypes' /\ RestTypes'
       => TypeOK'
  BY DEF TypeOK, CallTypes, LinkTypes, BrokerTypes, LifeTypes, HistoryTypes, RestTypes

(* A group of variables left alone keeps its types. *)
LEMMA TypeFrames ==
  /\ CallTypes /\ UNCHANGED callVars => CallTypes'
  /\ LinkTypes /\ UNCHANGED linkVars => LinkTypes'
  /\ BrokerTypes /\ UNCHANGED brokerVars => BrokerTypes'
  /\ LifeTypes /\ UNCHANGED lifeVars => LifeTypes'
  /\ HistoryTypes /\ UNCHANGED historyVars => HistoryTypes'
  /\ RestTypes /\ UNCHANGED <<queues, acked, process>> => RestTypes'
<1>1. CallTypes /\ UNCHANGED callVars => CallTypes'
  BY DEF CallTypes, callVars
<1>2. LinkTypes /\ UNCHANGED linkVars => LinkTypes'
  BY DEF LinkTypes, linkVars
<1>3. BrokerTypes /\ UNCHANGED brokerVars => BrokerTypes'
  BY DEF BrokerTypes, brokerVars
<1>4. LifeTypes /\ UNCHANGED lifeVars => LifeTypes'
  BY DEF LifeTypes, lifeVars
<1>5. HistoryTypes /\ UNCHANGED historyVars => HistoryTypes'
  BY DEF HistoryTypes, historyVars
<1>6. RestTypes /\ UNCHANGED <<queues, acked, process>> => RestTypes'
  BY DEF RestTypes
<1> QED BY <1>1, <1>2, <1>3, <1>4, <1>5, <1>6

(* A call that begins keeps the types of its thread. *)
LEMMA TypeBegin ==
  ASSUME CallTypes, HistoryTypes, NEW th \in Threads, NEW o \in Ops,
         NEW t \in Topics \cup {Status}, Begin(th, o, t)
  PROVE  CallTypes' /\ disturbed' \subseteq Topics \cup {Status}
  BY DEF CallTypes, HistoryTypes, Begin

(* A call that ends keeps the types of its thread. *)
LEMMA TypeEnd ==
  ASSUME CallTypes, NEW th \in Threads, EndCall(th), UNCHANGED sent
  PROVE  CallTypes'
  BY SessionAssumption DEF CallTypes, EndCall, Ops

(* An exception keeps the types. *)
LEMMA TypeThrow ==
  ASSUME TypeOK, NEW th \in Threads, NEW cause \in {"unacknowledged", "refused"},
         Throw(th, cause)
  PROVE  TypeOK'
<1>1. CallTypes' /\ LinkTypes' /\ BrokerTypes'
  BY TypeParts, TypeFrames, TypeEnd DEF Throw
<1>2. LifeTypes'
  BY TypeParts DEF LifeTypes, Lives, Throw
<1>3. HistoryTypes'
  BY TypeParts DEF HistoryTypes, CallTypes, Throw
<1>4. RestTypes'
  BY TypeParts DEF RestTypes, Throw
<1> QED BY <1>1, <1>2, <1>3, <1>4, TypeParts

(* A step of a call keeps the types. *)
LEMMA TypeThread ==
  ASSUME TypeOK, NEW th \in Threads, ThreadStep(th) PROVE TypeOK'
<1>1. CASE LibraryAccepts(th)
  <2> DEFINE p == [kind |-> op[th], topic |-> topic[th], serial |-> sent + 1]
  <2>1. sent < MaxCalls /\ sent + 1 \in 0..MaxCalls
    BY <1>1, SessionAssumption, TypeParts DEF LibraryAccepts, CallTypes
  <2>2. p \in Packet
    BY <2>1, TypeParts DEF CallTypes, Packet
  <2>3. LinkTypes'
    <3>1. outgoing' \in Seq(Packet)
      BY <1>1, <2>2, PacketSent DEF LibraryAccepts
    <3> QED BY <1>1, <3>1, TypeParts DEF LibraryAccepts, LinkTypes
  <2>4. CallTypes'
    <3>1. /\ pc' = [pc EXCEPT ![th] = "await"] /\ serial' = [serial EXCEPT ![th] = sent + 1]
          /\ sent' = sent + 1 /\ UNCHANGED <<op, topic>>
      BY <1>1 DEF LibraryAccepts, StoresSerial
    <3>2. ASSUME NEW u \in Threads, pc'[u] = "await" PROVE serial'[u] \in 1..sent'
      BY <2>1, <3>1, <3>2, TypeParts DEF CallTypes
    <3>3. pc' \in [Threads -> {"idle", "call", "await"}] /\ serial' \in [Threads -> 0..MaxCalls]
      BY <2>1, <3>1, TypeParts DEF CallTypes
    <3> QED BY <2>1, <3>1, <3>2, <3>3, TypeParts DEF CallTypes
  <2> QED BY <1>1, <2>3, <2>4, TypeParts, TypeFrames DEF LibraryAccepts
<1>2. CASE LibraryRefuses(th) \/ Timeout(th)
  BY <1>2, TypeThrow DEF LibraryRefuses, Timeout
<1>3. CASE Return(th)
  <2>1. CallTypes' /\ LinkTypes' /\ BrokerTypes' /\ HistoryTypes'
    BY <1>3, TypeParts, TypeFrames, TypeEnd DEF Return
  <2>2. LifeTypes'
    BY <1>3, TypeParts DEF LifeTypes, Lives, Return
  <2>3. RestTypes'
    BY <1>3, TypeParts DEF RestTypes, Return, WaitForMessageId
  <2> QED BY <2>1, <2>2, <2>3, TypeParts
<1> QED BY <1>1, <1>2, <1>3 DEF ThreadStep

(* A step of the constructor, the destructor or the loop keeps the types. *)
LEMMA TypeObject ==
  ASSUME TypeOK, ObjectStep \/ LoopEnds PROVE TypeOK'
<1>1. CASE Destroy
  <2>1. CallTypes' /\ disturbed' \subseteq Topics \cup {Status}
    <3>1. "unretain" \in Ops
      BY DEF Ops
    <3> QED BY <1>1, <3>1, TypeParts, TypeBegin, SessionAssumption DEF Destroy, Unretain
  <2>2. HistoryTypes' /\ RestTypes' /\ LifeTypes'
    BY <1>1, <2>1, TypeParts
       DEF Destroy, Unretain, Begin, HistoryTypes, RestTypes, LifeTypes, Lives
  <2> QED BY <1>1, <2>1, <2>2, TypeParts, TypeFrames DEF Destroy, Unretain, Begin
<1>2. ASSUME ~Destroy PROVE TypeOK'
  <2>1. /\ UNCHANGED <<outgoing, incoming, losses, callVars, brokerVars,
                       historyVars, queues, acked, process>>
        /\ life' \in Lives /\ loop_thread' \in BOOLEAN /\ disconnecting' \in BOOLEAN
        /\ threw' \in BOOLEAN /\ connected' \in BOOLEAN
    BY <1>2, TypeParts
       DEF ObjectStep, ConstructorThrows, Connect, LoopStart, Disconnect, Disconnected,
           LoopStop, Unwind, LoopEnds, linkVars, LifeTypes, LinkTypes, Lives
  <2>2. LinkTypes' /\ LifeTypes'
    BY <2>1, TypeParts DEF LinkTypes, LifeTypes
  <2> QED BY <2>1, <2>2, TypeParts, TypeFrames
<1> QED BY <1>1, <1>2

(* A step of the link or the broker keeps the types. *)
LEMMA TypeLink ==
  ASSUME TypeOK, SerialInv, KnownInv,
         \/ BrokerReceives \/ Lose \/ Reconnect \/ OnAck \/ OnMessage
         \/ CallbackTooLate \/ \E t \in Topics : BrokerSends(t)
  PROVE  TypeOK'
<1>1. CASE BrokerReceives
  <2> DEFINE p == Head(outgoing)
             ack == [kind |-> "ack", topic |-> p.topic, serial |-> p.serial]
  <2>1. outgoing' \in Seq(Packet) /\ p \in Packet /\ p \in Out
    BY <1>1, PacketTaken DEF BrokerReceives
  <2>2. /\ p.kind \in Ops \cup {"status"} /\ p.topic \in Topics \cup {Status}
        /\ p.kind \in {"subscribe", "unsubscribe"} => p.topic \in Topics
    BY <2>1 DEF Packet, SerialInv
  <2>3. ack \in Arrival
    BY <2>1 DEF Packet, Arrival
  <2>4. incoming' \in Seq(Arrival)
    BY <1>1, <2>3, TypeParts, ArrivalSent DEF BrokerReceives, LinkTypes
  <2> HIDE DEF p
  <2>5. BrokerTypes' /\ HistoryTypes'
    BY <1>1, <2>2, TypeParts DEF BrokerReceives, BrokerTypes, HistoryTypes, p
  <2>6. LinkTypes' /\ RestTypes'
    BY <1>1, <2>1, <2>4, TypeParts DEF BrokerReceives, LinkTypes, RestTypes
  <2> QED BY <1>1, <2>5, <2>6, TypeParts, TypeFrames DEF BrokerReceives
<1>2. CASE Lose
  <2>1. LinkTypes'
    <3>1. losses + 1 \in 0..MaxLosses
      BY <1>2, TypeParts, SessionAssumption DEF Lose, LinkTypes
    <3>2. outgoing' \in Seq(Packet) /\ incoming' \in Seq(Arrival)
      BY <1>2, EmptySeq DEF Lose
    <3> QED BY <1>2, <3>1, <3>2 DEF Lose, LinkTypes
  <2>2. BrokerTypes' /\ HistoryTypes' /\ RestTypes'
    BY <1>2, TypeParts DEF Lose, BrokerTypes, HistoryTypes, RestTypes
  <2> QED BY <1>2, <2>1, <2>2, TypeParts, TypeFrames DEF Lose
<1>3. CASE Reconnect
  <2> DEFINE p == [kind |-> "unretain", topic |-> Status, serial |-> serial[Owner]]
  <2>1. p \in Packet
    BY TypeParts, SessionAssumption DEF CallTypes, Packet, Ops
  <2>2. <<p>> \in Seq(Packet) /\ <<>> \in Seq(Packet)
    BY <2>1, EmptySeq
  <2>3. LinkTypes'
    BY <1>3, <2>2, TypeParts DEF Reconnect, LinkTypes
  <2> QED BY <1>3, <2>3, TypeParts, TypeFrames DEF Reconnect
<1>4. CASE OnAck
  <2>1. /\ incoming' \in Seq(Arrival) /\ Head(incoming) \in In
        /\ Head(incoming).kind = "ack"
    BY <1>4, ArrivalTaken DEF OnAck, Callback
  <2>2. Head(incoming).serial \in 1..MaxCalls
    BY <2>1, TypeParts, SessionAssumption DEF SerialInv, CallTypes
  <2>3. LinkTypes' /\ RestTypes'
    BY <1>4, <2>1, <2>2, TypeParts DEF OnAck, LinkTypes, RestTypes
  <2> QED BY <1>4, <2>3, TypeParts, TypeFrames DEF OnAck
<1>5. CASE OnMessage
  <2> DEFINE p == [kind |-> "status", topic |-> Status, serial |-> 0]
  <2>1. p \in Packet
    BY SessionAssumption DEF Packet
  <2>2. incoming' \in Seq(Arrival) /\ Head(incoming) \in Arrival
    BY <1>5, ArrivalTaken DEF OnMessage, Callback
  <2>3. outgoing' \in Seq(Packet)
    BY <1>5, <2>1, TypeParts, PacketSent DEF OnMessage, LinkTypes
  <2>4. LinkTypes' /\ RestTypes'
    BY <1>5, <2>2, <2>3, TypeParts DEF OnMessage, LinkTypes, RestTypes
  <2>5. HistoryTypes'
    <3>1. Head(incoming) \in In /\ Head(incoming).kind = "message"
      BY <1>5, ArrivalTaken DEF OnMessage, Callback
    <3>2. missed' = missed
      BY <1>5, <3>1 DEF OnMessage, KnownInv, Known
    <3>3. announced' \in BOOLEAN
      BY <1>5, TypeParts DEF OnMessage, HistoryTypes
    <3> QED BY <1>5, <3>2, <3>3, TypeParts DEF OnMessage, HistoryTypes
  <2> QED BY <1>5, <2>4, <2>5, TypeParts, TypeFrames DEF OnMessage
<1>6. CASE CallbackTooLate
  <2>1. RestTypes'
    BY <1>6, TypeParts DEF CallbackTooLate, RestTypes
  <2> QED BY <1>6, <2>1, TypeParts, TypeFrames DEF CallbackTooLate
<1>7. ASSUME NEW t \in Topics, BrokerSends(t) PROVE TypeOK'
  <2> DEFINE a == [kind |-> "message", topic |-> t, serial |-> 0]
  <2>1. a \in Arrival
    BY SessionAssumption DEF Arrival
  <2>2. incoming' \in Seq(Arrival)
    BY <1>7, <2>1, ArrivalSent DEF BrokerSends
  <2>3. LinkTypes' /\ BrokerTypes' /\ RestTypes'
    BY <1>7, <2>2, TypeParts, SessionAssumption
       DEF BrokerSends, LinkTypes, BrokerTypes, RestTypes
  <2> QED BY <1>7, <2>3, TypeParts, TypeFrames DEF BrokerSends
<1> QED BY <1>1, <1>2, <1>3, <1>4, <1>5, <1>6, <1>7

(* Every step keeps the types. *)
LEMMA TypeStep ==
  ASSUME TypeOK, SerialInv, KnownInv, [Next]_vars PROVE TypeOK'
<1>1. ASSUME NEW th \in Threads, NEW t \in Topics,
             Subscribe(th, t) \/ Unsubscribe(th, t)
      PROVE  TypeOK'
  <2>1. PICK o \in Ops : Begin(th, o, t)
    BY <1>1 DEF Subscribe, Unsubscribe, Ops
  <2>2. CallTypes' /\ disturbed' \subseteq Topics \cup {Status}
    BY <2>1, TypeParts, TypeBegin
  <2>3. LinkTypes' /\ BrokerTypes' /\ LifeTypes'
    BY <1>1, <2>1, TypeParts, TypeFrames DEF Begin, Subscribe, Unsubscribe
  <2>4. HistoryTypes' /\ RestTypes'
    BY <1>1, <2>1, <2>2, TypeParts
       DEF Begin, Subscribe, Unsubscribe, NewQueue, HistoryTypes, RestTypes
  <2> QED BY <2>2, <2>3, <2>4, TypeParts
<1>2. CASE UNCHANGED vars
  BY <1>2, TypeParts, TypeFrames DEF vars
<1> QED BY <1>1, <1>2, TypeThread, TypeObject, TypeLink DEF Next, LoopStep
-----------------------------------------------------------------------------
(* Every step keeps the loop thread for as long as the object needs it. *)
LEMMA LifeStep ==
  ASSUME TypeOK, LifeInv, CallInv, [Next]_vars PROVE LifeInv'
<1>1. CASE ObjectStep
  <2>1. UNCHANGED <<outgoing, incoming, broker>>
    BY <1>1 DEF ObjectStep, ConstructorThrows, Connect, LoopStart, Destroy, Unretain, Begin,
         Disconnect, LoopStop, Unwind, linkVars, brokerVars
  <2>2. CASE ConstructorThrows \/ Connect \/ LoopStart
    BY <2>1, <2>2 DEF ConstructorThrows, Connect, LoopStart, linkVars, LifeInv
  <2>3. CASE Destroy
    BY <2>1, <2>3 DEF Destroy, Unretain, Begin, Alive, linkVars, LifeInv
  <2>4. CASE Disconnect \/ LoopStop \/ Unwind
    BY <2>1, <2>4 DEF Disconnect, Disconnected, LoopStop, Joined, Unwind, linkVars, LifeInv
  <2> QED BY <1>1, <2>2, <2>3, <2>4 DEF ObjectStep
<1>2. CASE LoopEnds \/ CallbackTooLate \/ UNCHANGED vars
  BY <1>2 DEF LoopEnds, CallbackTooLate, vars, linkVars, lifeVars, brokerVars, LifeInv
<1>3. CASE OnAck \/ OnMessage
  <2>1. /\ UNCHANGED <<life, loop_thread, disconnecting, threw, connected, broker>>
        /\ incoming # <<>> /\ loop_thread
    BY <1>3 DEF OnAck, OnMessage, Callback, lifeVars, brokerVars
  <2> QED BY <2>1 DEF LifeInv
<1>4. CASE BrokerReceives
  <2>1. /\ UNCHANGED <<life, loop_thread, disconnecting, threw, connected>>
        /\ outgoing # <<>>
    BY <1>4 DEF BrokerReceives, lifeVars
  <2> QED BY <2>1 DEF LifeInv
<1>5. ASSUME NEW t \in Topics, BrokerSends(t) PROVE LifeInv'
  <2>1. /\ UNCHANGED <<life, loop_thread, disconnecting, threw, connected>>
        /\ broker # {}
    BY <1>5 DEF BrokerSends, lifeVars
  <2> QED BY <2>1 DEF LifeInv
<1>6. CASE Lose \/ Reconnect
  BY <1>6 DEF Lose, Reconnect, lifeVars, brokerVars, LifeInv
<1>7. ASSUME NEW th \in Threads, LibraryAccepts(th) PROVE LifeInv'
  <2>1. /\ UNCHANGED <<life, loop_thread, disconnecting, threw, connected>>
        /\ life \notin {"unborn", "connected"} /\ connected
    BY <1>7 DEF LibraryAccepts, lifeVars, CallInv
  <2> QED BY <2>1 DEF LifeInv
<1>8. ASSUME NEW th \in Threads,
             LibraryRefuses(th) \/ Timeout(th) \/ Return(th)
      PROVE  LifeInv'
  <2>1. UNCHANGED <<loop_thread, disconnecting, connected, outgoing, incoming, broker>>
    BY <1>8 DEF LibraryRefuses, Timeout, Throw, Return, linkVars, brokerVars
  <2>2. CASE Return(th)
    <3>1. /\ threw' = threw
          /\ life' = CASE life = "constructing" -> "alive"
                       [] life = "destroying" -> "unretained"
                       [] OTHER -> life
      BY <2>2 DEF Return
    <3> QED BY <2>1, <3>1 DEF LifeInv
  <2>3. CASE LibraryRefuses(th) \/ Timeout(th)
    <3>1. /\ life' = IF life = "constructing" THEN "unwinding" ELSE life
          /\ threw' = (threw \/ life = "constructing")
      BY <2>3 DEF LibraryRefuses, Timeout, Throw
    <3> QED BY <2>1, <3>1 DEF LifeInv
  <2> QED BY <1>8, <2>2, <2>3
<1>9. ASSUME NEW th \in Threads, NEW t \in Topics,
             Subscribe(th, t) \/ Unsubscribe(th, t)
      PROVE  LifeInv'
  BY <1>9 DEF Subscribe, Unsubscribe, Begin, lifeVars, linkVars, brokerVars, LifeInv
<1> QED BY <1>1, <1>2, <1>3, <1>4, <1>5, <1>6, <1>7, <1>8, <1>9
        DEF Next, LoopStep, ThreadStep
-----------------------------------------------------------------------------
(* What keeps the calls, keeps CallInv, as long as the process runs or has *)
(* ended for good.                                                         *)
LEMMA CallFrame ==
  ASSUME CallInv, UNCHANGED <<pc, op, topic, life>>, Running
  PROVE  CallInv'
  BY DEF CallInv, Running

(* Every step keeps who may be in a call, and in which. *)
LEMMA CallStep ==
  ASSUME TypeOK, LifeInv, CallInv, [Next]_vars PROVE CallInv'
<1>0. CASE UNCHANGED vars
  BY <1>0 DEF vars, callVars, lifeVars, CallInv, Running
<1>1. CASE ObjectStep
  <2>1. CASE Destroy
    <3>1. /\ pc' = [pc EXCEPT ![Owner] = "call"] /\ op' = [op EXCEPT ![Owner] = "unretain"]
          /\ topic' = [topic EXCEPT ![Owner] = Status]
          /\ life' = "destroying" /\ \A th \in Threads : pc[th] = "idle"
      BY <2>1 DEF Destroy, Unretain, Begin
    <3> QED BY <3>1, SessionAssumption DEF CallInv, TypeOK
  <2>2. CASE ConstructorThrows \/ Connect \/ LoopStart \/ Disconnect \/ LoopStop \/ Unwind
    <3>1. /\ UNCHANGED <<pc, op, topic>> /\ life' # "destroying"
          /\ life \notin {"constructing", "alive", "destroying"}
      BY <2>2 DEF ConstructorThrows, Connect, LoopStart, Disconnect, LoopStop, Unwind,
           callVars
    <3> QED BY <3>1 DEF CallInv
  <2> QED BY <1>1, <2>1, <2>2 DEF ObjectStep
<1>2. CASE LoopStep \/ BrokerReceives \/ Lose \/ Reconnect \/ \E t \in Topics : BrokerSends(t)
  <2>1. Running /\ UNCHANGED <<callVars, life>>
    BY <1>2 DEF LoopStep, OnAck, OnMessage, CallbackTooLate, LoopEnds, Callback,
         BrokerReceives, Lose, Reconnect, BrokerSends, lifeVars
  <2> QED BY <2>1, CallFrame DEF callVars
<1>3. ASSUME NEW th \in Threads, LibraryAccepts(th) PROVE CallInv'
  <2>1. /\ UNCHANGED <<op, topic, life>> /\ pc[th] # "idle"
        /\ pc' = [pc EXCEPT ![th] = "await"] /\ Running
    BY <1>3 DEF LibraryAccepts, lifeVars
  <2> QED BY <2>1 DEF CallInv, TypeOK
<1>4. ASSUME NEW th \in Threads, NEW cause \in {"unacknowledged", "refused"},
             Throw(th, cause), pc[th] # "idle"
      PROVE  CallInv'
  <2>1. /\ pc' = [pc EXCEPT ![th] = "idle"] /\ op' = [op EXCEPT ![th] = "subscribe"]
        /\ topic' = [topic EXCEPT ![th] = Announcement]
        /\ life' = IF life = "constructing" THEN "unwinding" ELSE life
        /\ life = "destroying" => process' # "running"
    BY <1>4 DEF Throw, EndCall
  <2>2. \A u \in Threads : op'[u] = "unretain" <=> topic'[u] = Status
    BY <2>1, SessionAssumption DEF CallInv, TypeOK
  <2>3. \A u \in Threads : pc'[u] # "idle" => u # th /\ life = "alive"
    BY <1>4, <2>1 DEF CallInv, TypeOK
  <2> QED BY <2>1, <2>2, <2>3 DEF CallInv, Running, TypeOK
<1>5. ASSUME NEW th \in Threads, Return(th) PROVE CallInv'
  <2>1. /\ pc' = [pc EXCEPT ![th] = "idle"] /\ op' = [op EXCEPT ![th] = "subscribe"]
        /\ topic' = [topic EXCEPT ![th] = Announcement] /\ pc[th] = "await"
        /\ life' = CASE life = "constructing" -> "alive"
                     [] life = "destroying" -> "unretained"
                     [] OTHER -> life
    BY <1>5 DEF Return, EndCall
  <2>2. \A u \in Threads : op'[u] = "unretain" <=> topic'[u] = Status
    BY <2>1, SessionAssumption DEF CallInv, TypeOK
  <2>3. \A u \in Threads : pc'[u] # "idle" =>
          u # th /\ life = "alive" /\ pc[u] # "idle" /\ op'[u] = op[u]
    BY <2>1 DEF CallInv, TypeOK
  <2>4. life' # "destroying" /\ (life = "alive" => life' = "alive")
    BY <2>1
  <2> QED BY <2>2, <2>3, <2>4 DEF CallInv
<1>6. ASSUME NEW th \in Threads, NEW t \in Topics,
             Subscribe(th, t) \/ Unsubscribe(th, t)
      PROVE  CallInv'
  <2>1. PICK o \in {"subscribe", "unsubscribe"} : Begin(th, o, t)
    BY <1>6 DEF Subscribe, Unsubscribe
  <2>2. life' = life /\ (life = "alive" \/ (life = "constructing" /\ th = Owner))
    BY <1>6 DEF Subscribe, Unsubscribe, MayCall, Alive, lifeVars
  <2>3. /\ pc' = [pc EXCEPT ![th] = "call"] /\ op' = [op EXCEPT ![th] = o]
        /\ topic' = [topic EXCEPT ![th] = t]
    BY <2>1 DEF Begin
  <2> QED BY <2>2, <2>3, SessionAssumption DEF CallInv, TypeOK
<1> QED BY <1>0, <1>1, <1>2, <1>3, <1>4, <1>5, <1>6
        DEF Next, ThreadStep, LibraryRefuses, Timeout
-----------------------------------------------------------------------------
(* Nobody comes to wait, and who waits does it for the same packet. *)
WaitsKept ==
  \A th \in Threads : pc'[th] = "await" =>
    pc[th] = "await" /\ UNCHANGED <<op[th], topic[th], serial[th]>>

(* A step that sends no new message keeps the serials with their calls. *)
LEMMA SerialFrame ==
  ASSUME TypeOK, SerialInv, WaitsKept, sent' = sent, acked' \subseteq 1..sent,
         \A p \in Out' : \/ p \in Out
                         \/ p.kind = "status" /\ p.serial = 0 /\ p.topic = Status,
         \A a \in In' : a.kind = "ack" =>
           \/ a \in In
           \/ \E p \in Out : p.kind # "status" /\ a.serial = p.serial /\ a.topic = p.topic
  PROVE  SerialInv'
<1>1. ASSUME NEW th \in Threads, pc'[th] = "await"
      PROVE  /\ pc[th] = "await" /\ serial[th] \in 1..sent
             /\ UNCHANGED <<op[th], topic[th], serial[th]>>
  BY <1>1, TypeParts DEF WaitsKept, CallTypes
<1>2. ASSUME NEW p \in Out'
      PROVE  /\ p.kind # "status" => p.serial \in 1..sent
             /\ p.kind = "status" => p.serial = 0
             /\ p.topic = Status <=> p.kind \in {"unretain", "status"}
             /\ \A th \in Threads : pc'[th] = "await" /\ p.serial = serial'[th] =>
                  p.kind = op'[th] /\ p.topic = topic'[th]
  <2>1. CASE p \in Out
    BY <1>1, <2>1 DEF SerialInv
  <2>2. CASE p.kind = "status" /\ p.serial = 0 /\ p.topic = Status
    BY <1>1, <2>2
  <2> QED BY <2>1, <2>2
<1>3. ASSUME NEW a \in In', a.kind = "ack"
      PROVE  /\ a.serial \in 1..sent
             /\ \A th \in Threads : pc'[th] = "await" /\ a.serial = serial'[th] =>
                  a.topic = topic'[th]
  <2>1. CASE a \in In
    BY <1>1, <1>3, <2>1 DEF SerialInv
  <2>2. ASSUME NEW p \in Out, p.kind # "status", a.serial = p.serial, a.topic = p.topic
        PROVE  /\ a.serial \in 1..sent
               /\ \A th \in Threads : pc'[th] = "await" /\ a.serial = serial'[th] =>
                    a.topic = topic'[th]
    BY <1>1, <2>2 DEF SerialInv
  <2> QED BY <1>3, <2>1, <2>2
<1> QED BY <1>2, <1>3 DEF SerialInv

(* Steps that leave the calls alone, end one or begin one make no thread   *)
(* wait for another answer.                                                *)
LEMMA WaitsStep ==
  ASSUME TypeOK, NEW th \in Threads
  PROVE  /\ UNCHANGED callVars => WaitsKept
         /\ EndCall(th) => WaitsKept
         /\ \A o, t : Begin(th, o, t) => WaitsKept
<1>1. UNCHANGED callVars => WaitsKept
  BY DEF callVars, WaitsKept
<1>2. EndCall(th) => WaitsKept
  BY DEF EndCall, WaitsKept, TypeOK
<1>3. ASSUME NEW o, NEW t, Begin(th, o, t) PROVE WaitsKept
  BY <1>3 DEF Begin, WaitsKept, TypeOK
<1> QED BY <1>1, <1>2, <1>3

(* The steps that leave what is in transit, and who waits. *)
QuietStep ==
  \/ UNCHANGED vars \/ ObjectStep \/ LoopEnds \/ CallbackTooLate
  \/ \E th \in Threads : LibraryRefuses(th) \/ Return(th) \/ Timeout(th)
  \/ \E th \in Threads, t \in Topics : Subscribe(th, t) \/ Unsubscribe(th, t)

(* Steps without the link leave what is in transit. *)
LEMMA Quiet ==
  ASSUME TypeOK, QuietStep
  PROVE  /\ WaitsKept /\ UNCHANGED <<Out, In, sent, outgoing>> /\ acked' \subseteq acked
<1>0. Owner \in Threads
  BY SessionAssumption
<1>1. UNCHANGED <<outgoing, incoming>> => UNCHANGED <<Out, In>>
  BY SameInTransit
<1>2. CASE UNCHANGED vars \/ ObjectStep \/ LoopEnds \/ CallbackTooLate
  <2>1. UNCHANGED <<outgoing, incoming, sent, acked>>
    BY <1>2 DEF vars, linkVars, callVars, ObjectStep, ConstructorThrows, Connect, LoopStart,
         Destroy, Unretain, Begin, Disconnect, LoopStop, Unwind, LoopEnds, CallbackTooLate
  <2>2. UNCHANGED callVars \/ Begin(Owner, "unretain", Status)
    BY <1>2 DEF vars, ObjectStep, ConstructorThrows, Connect, LoopStart,
         Destroy, Unretain, Disconnect, LoopStop, Unwind, LoopEnds, CallbackTooLate
  <2> QED BY <1>0, <1>1, <2>1, <2>2, WaitsStep
<1>3. ASSUME NEW th \in Threads, LibraryRefuses(th) \/ Return(th) \/ Timeout(th)
      PROVE  /\ WaitsKept /\ UNCHANGED <<Out, In, sent, outgoing>> /\ acked' \subseteq acked
  <2>1. /\ EndCall(th) /\ UNCHANGED <<outgoing, incoming, sent>>
        /\ acked' \subseteq acked
    BY <1>3 DEF LibraryRefuses, Return, Timeout, Throw, linkVars, WaitForMessageId
  <2> QED BY <1>1, <2>1, WaitsStep
<1>4. ASSUME NEW th \in Threads, NEW t \in Topics, Subscribe(th, t) \/ Unsubscribe(th, t)
      PROVE  /\ WaitsKept /\ UNCHANGED <<Out, In, sent, outgoing>> /\ acked' \subseteq acked
  <2>1. PICK o \in Ops : Begin(th, o, t)
    BY <1>4 DEF Subscribe, Unsubscribe, Ops
  <2>2. UNCHANGED <<outgoing, incoming, sent, acked>>
    BY <2>1 DEF Begin, linkVars
  <2> QED BY <1>1, <2>1, <2>2, WaitsStep
<1> QED BY <1>2, <1>3, <1>4 DEF QuietStep

(* What each of the other steps does to what is in transit. *)
StatusPacket == [kind |-> "status", topic |-> Status, serial |-> 0]
UnretainPacket == [kind |-> "unretain", topic |-> Status, serial |-> serial[Owner]]
CallPacket(th) == [kind |-> op[th], topic |-> topic[th], serial |-> sent + 1]
AckOf(p) == [kind |-> "ack", topic |-> p.topic, serial |-> p.serial]

(* A packet the library accepts is sent last. *)
LEMMA AcceptsLink ==
  ASSUME TypeOK, NEW th \in Threads, LibraryAccepts(th)
  PROVE  /\ CallPacket(th) \in Packet
         /\ outgoing' = Append(outgoing, CallPacket(th))
         /\ Out' = Out \cup {CallPacket(th)} /\ In' = In
<1>1. sent + 1 \in 0..MaxCalls
  BY SessionAssumption DEF LibraryAccepts, TypeOK
<1>2. CallPacket(th) \in Packet
  BY <1>1 DEF CallPacket, Packet, TypeOK
<1>3. outgoing' = Append(outgoing, CallPacket(th)) /\ UNCHANGED incoming
  BY DEF LibraryAccepts, CallPacket
<1> QED BY <1>2, <1>3, PacketSent, SameInTransit

(* The broker takes the first packet and acknowledges all but the status. *)
LEMMA ReceivesLink ==
  ASSUME TypeOK, BrokerReceives, NEW p, p = Head(outgoing)
  PROVE  /\ p \in Packet /\ p \in Out /\ outgoing # <<>> /\ outgoing' = Tail(outgoing)
         /\ Out = {p} \cup Out'
         /\ Out' = Elements(Tail(outgoing))
         /\ p.kind = "status" => In' = In
         /\ p.kind # "status" => In' = In \cup {AckOf(p)}
<1>1. outgoing # <<>> /\ outgoing' = Tail(outgoing)
  BY DEF BrokerReceives
<1>2. p \in Packet /\ Out = {p} \cup Out'
  BY <1>1, PacketTaken
<1>3. AckOf(p) \in Arrival
  BY <1>2 DEF Packet, Arrival, AckOf
<1>4. incoming' = IF p.kind = "status" THEN incoming ELSE Append(incoming, AckOf(p))
  BY DEF BrokerReceives, AckOf
<1> QED BY <1>1, <1>2, <1>3, <1>4, ArrivalSent, SameInTransit DEF Out

(* An acknowledgement that arrives was in transit. *)
LEMMA AckLink ==
  ASSUME TypeOK, OnAck
  PROVE  \E a \in In : /\ a.kind = "ack" /\ In = {a} \cup In'
                       /\ acked' = acked \cup {a.serial} /\ UNCHANGED <<outgoing, Out>>
<1>1. In = {Head(incoming)} \cup In'
  BY ArrivalTaken DEF OnAck, Callback
<1> QED BY <1>1, SameInTransit DEF OnAck

(* A message that arrives was in transit, and may cause an announcement. *)
LEMMA MessageLink ==
  ASSUME TypeOK, OnMessage
  PROVE  \E a \in In :
           /\ a.kind = "message" /\ In = {a} \cup In'
           /\ a.topic \in Known => missed' = missed
           /\ \/ UNCHANGED <<outgoing, Out, announced, process>>
              \/ /\ outgoing' = Append(outgoing, StatusPacket)
                 /\ StatusPacket \in Packet
                 /\ Out' = Out \cup {StatusPacket}
                 /\ announced' = (announced \/ UnretainSent)
                 /\ UNCHANGED process
              \/ /\ a.topic = Announcement
                 /\ process' \in {"undecodable", "publish_refused"}
                 /\ UNCHANGED <<outgoing, Out, announced>>
<1> DEFINE a == Head(incoming)
<1>1. In = {a} \cup In' /\ a.kind = "message"
  BY ArrivalTaken DEF OnMessage, Callback
<1>2. StatusPacket \in Packet
  BY SessionAssumption DEF StatusPacket, Packet
<1>3. a.topic \in Known => missed' = missed
  BY DEF OnMessage, Known
<1>4. \/ UNCHANGED <<outgoing, announced, process>>
      \/ /\ outgoing' = Append(outgoing, StatusPacket)
         /\ announced' = (announced \/ UnretainSent)
         /\ UNCHANGED process
      \/ /\ a.topic = Announcement
         /\ process' \in {"undecodable", "publish_refused"}
         /\ UNCHANGED <<outgoing, announced>>
  BY DEF OnMessage, StatusPacket
<1> HIDE DEF a
<1>5. outgoing' = Append(outgoing, StatusPacket) => Out' = Out \cup {StatusPacket}
  BY <1>2, PacketSent
<1> QED BY <1>1, <1>2, <1>3, <1>4, <1>5, SameInTransit

(* A message the broker passes on is in transit. *)
LEMMA SendsLink ==
  ASSUME TypeOK, NEW t \in Topics, BrokerSends(t)
  PROVE  /\ In' = In \cup {[kind |-> "message", topic |-> t, serial |-> 0]}
         /\ UNCHANGED <<outgoing, Out>>
<1>1. [kind |-> "message", topic |-> t, serial |-> 0] \in Arrival
  BY SessionAssumption DEF Arrival
<1> QED BY <1>1, ArrivalSent, SameInTransit DEF BrokerSends

(* A lost connection loses all that is in transit. *)
LEMMA LoseLink == Lose => Out' = {} /\ In' = {}
  BY ElementsEmpty DEF Lose, Out, In

(* A new connection resends the withdrawal of the status, if it is         *)
(* awaited, and nothing else.                                              *)
LEMMA ReconnectLink ==
  ASSUME TypeOK, LifeInv, Reconnect
  PROVE  /\ Out = {} /\ UNCHANGED In
         /\ IF life = "destroying" /\ pc[Owner] = "await"
            THEN outgoing' = <<UnretainPacket>> /\ Out' = {UnretainPacket}
            ELSE outgoing' = <<>> /\ Out' = {}
<1>1. outgoing = <<>>
  BY DEF Reconnect, LifeInv
<1>2. Elements(<<UnretainPacket>>) = {UnretainPacket}
  BY ElementsOne
<1>3. outgoing' = IF life = "destroying" /\ pc[Owner] = "await"
                  THEN <<UnretainPacket>> ELSE <<>>
  BY DEF Reconnect, UnretainPacket
<1>4. Out' = Elements(outgoing') /\ UNCHANGED In
  BY SameInTransit DEF Out, Reconnect
<1> QED BY <1>1, <1>2, <1>3, <1>4, NothingInTransit, ElementsEmpty

(* Every step keeps a packet and its acknowledgement with the serial of    *)
(* their call.                                                             *)
LEMMA SerialStep ==
  ASSUME TypeOK, LifeInv, CallInv, SerialInv, [Next]_vars PROVE SerialInv'
<1>0. Owner \in Threads /\ acked \subseteq 1..sent
  BY SessionAssumption DEF SerialInv
<1>1. CASE QuietStep
  BY <1>0, <1>1, Quiet, SerialFrame
<1>2. CASE BrokerReceives
  <2> DEFINE p == Head(outgoing)
  <2>1. /\ p \in Out /\ Out = {p} \cup Out'
        /\ p.kind = "status" => In' = In
        /\ p.kind # "status" => In' = In \cup {AckOf(p)}
    BY <1>2, ReceivesLink
  <2>2. AckOf(p).serial = p.serial /\ AckOf(p).topic = p.topic
    BY DEF AckOf
  <2>3. UNCHANGED callVars /\ acked' = acked
    BY <1>2 DEF BrokerReceives
  <2>4. WaitsKept /\ sent' = sent
    BY <1>0, <2>3, WaitsStep DEF callVars
  <2> HIDE DEF p
  <2> QED BY <1>0, <2>1, <2>2, <2>3, <2>4, SerialFrame
<1>3. CASE OnAck
  <2>1. PICK a \in In : /\ a.kind = "ack" /\ In = {a} \cup In' /\ UNCHANGED Out
                        /\ acked' = acked \cup {a.serial}
    BY <1>3, AckLink
  <2>2. WaitsKept /\ sent' = sent
    BY <1>0, <1>3, WaitsStep DEF OnAck, callVars
  <2>3. acked' \subseteq 1..sent
    BY <1>0, <2>1 DEF SerialInv
  <2> QED BY <2>1, <2>2, <2>3, SerialFrame
<1>4. CASE OnMessage
  <2>1. /\ In' \subseteq In
        /\ UNCHANGED Out \/ Out' = Out \cup {StatusPacket}
    BY <1>4, MessageLink
  <2>2. WaitsKept /\ sent' = sent /\ acked' = acked
    BY <1>0, <1>4, WaitsStep DEF OnMessage, callVars
  <2>3. /\ StatusPacket.kind = "status" /\ StatusPacket.serial = 0
        /\ StatusPacket.topic = Status
    BY DEF StatusPacket
  <2> QED BY <1>0, <2>1, <2>2, <2>3, SerialFrame
<1>5. ASSUME NEW t \in Topics, BrokerSends(t) PROVE SerialInv'
  <2>1. /\ In' = In \cup {[kind |-> "message", topic |-> t, serial |-> 0]}
        /\ UNCHANGED Out
    BY <1>5, SendsLink
  <2>2. WaitsKept /\ sent' = sent /\ acked' = acked
    BY <1>0, <1>5, WaitsStep DEF BrokerSends, callVars
  <2> QED BY <1>0, <2>1, <2>2, SerialFrame
<1>6. CASE Lose
  <2>1. WaitsKept /\ sent' = sent /\ acked' = acked
    BY <1>0, <1>6, WaitsStep DEF Lose, callVars
  <2> QED BY <1>0, <1>6, <2>1, LoseLink, SerialFrame
<1>7. CASE Reconnect
  <2>1. UNCHANGED <<callVars, acked>>
    BY <1>7 DEF Reconnect
  <2>2. CASE life = "destroying" /\ pc[Owner] = "await"
    <3>1. Out' = {UnretainPacket} /\ In' = In
      BY <1>7, <2>2, ReconnectLink
    <3>2. /\ UnretainPacket.kind = "unretain" /\ UnretainPacket.topic = Status
          /\ UnretainPacket.serial = serial[Owner] /\ serial[Owner] \in 1..sent
      BY <1>0, <2>2 DEF UnretainPacket, TypeOK
    <3>3. /\ op[Owner] = "unretain" /\ topic[Owner] = Status
          /\ \A th \in Threads : pc[th] = "await" => th = Owner
      BY <1>0, <2>2 DEF CallInv
    <3> HIDE DEF UnretainPacket
    <3> QED BY <2>1, <3>1, <3>2, <3>3 DEF SerialInv, callVars
  <2>3. CASE ~(life = "destroying" /\ pc[Owner] = "await")
    <3>1. Out' = {} /\ In' = In
      BY <1>7, <2>3, ReconnectLink
    <3>2. WaitsKept /\ sent' = sent /\ acked' = acked
      BY <1>0, <2>1, WaitsStep DEF callVars
    <3> QED BY <1>0, <3>1, <3>2, SerialFrame
  <2> QED BY <2>2, <2>3
<1>8. ASSUME NEW th \in Threads, LibraryAccepts(th) PROVE SerialInv'
  <2>1. /\ Out' = Out \cup {CallPacket(th)} /\ In' = In
        /\ CallPacket(th).kind = op[th] /\ CallPacket(th).topic = topic[th]
        /\ CallPacket(th).serial = sent + 1
    BY <1>8, AcceptsLink DEF CallPacket
  <2>2. /\ sent' = sent + 1 /\ UNCHANGED <<op, topic, acked>> /\ sent \in Nat
        /\ pc' = [pc EXCEPT ![th] = "await"]
        /\ serial' = [serial EXCEPT ![th] = sent + 1]
        /\ pc \in [Threads -> {"idle", "call", "await"}]
        /\ serial \in [Threads -> 0..MaxCalls]
    BY <1>8, SessionAssumption DEF LibraryAccepts, StoresSerial, TypeOK
  <2>3. /\ serial'[th] = sent + 1
        /\ \A u \in Threads \ {th} : pc'[u] = pc[u] /\ serial'[u] = serial[u]
        /\ \A u \in Threads : pc[u] = "await" => serial[u] <= sent
        /\ op[th] # "status" /\ (op[th] = "unretain" <=> topic[th] = Status)
    <3>1. \A u \in Threads : pc[u] = "await" => serial[u] \in 1..sent
      BY DEF TypeOK
    <3>2. op[th] # "status" /\ (op[th] = "unretain" <=> topic[th] = Status)
      BY DEF TypeOK, Ops, CallInv
    <3>3. /\ serial'[th] = sent + 1
          /\ \A u \in Threads \ {th} : pc'[u] = pc[u] /\ serial'[u] = serial[u]
      BY <2>2
    <3> QED BY <2>2, <3>1, <3>2, <3>3
  <2>4. ASSUME NEW p \in Out'
        PROVE  /\ p.kind # "status" => p.serial \in 1..sent'
               /\ p.kind = "status" => p.serial = 0
               /\ p.topic = Status <=> p.kind \in {"unretain", "status"}
               /\ \A u \in Threads : pc'[u] = "await" /\ p.serial = serial'[u] =>
                    p.kind = op'[u] /\ p.topic = topic'[u]
    <3>1. CASE p = CallPacket(th)
      <4>1. /\ p.kind = op[th] /\ p.topic = topic[th] /\ p.serial = sent + 1
            /\ sent + 1 \in 1..sent'
        BY <2>1, <2>2, <3>1
      <4>2. ASSUME NEW u \in Threads, pc'[u] = "await", p.serial = serial'[u] PROVE u = th
        BY <2>2, <2>3, <4>1, <4>2
      <4> QED BY <2>2, <2>3, <4>1, <4>2
    <3>2. CASE p \in Out
      <4>1. /\ p.kind # "status" => p.serial \in 1..sent
            /\ p.kind = "status" => p.serial = 0
            /\ p.topic = Status <=> p.kind \in {"unretain", "status"}
            /\ \A u \in Threads : pc[u] = "await" /\ p.serial = serial[u] =>
                 p.kind = op[u] /\ p.topic = topic[u]
        BY <3>2 DEF SerialInv
      <4>2. p.serial # sent + 1
        BY <2>2, <4>1
      <4> QED BY <2>2, <2>3, <4>1, <4>2
    <3> QED BY <2>1, <3>1, <3>2
  <2>5. ASSUME NEW a \in In, a.kind = "ack"
        PROVE  /\ a.serial \in 1..sent'
               /\ \A u \in Threads : pc'[u] = "await" /\ a.serial = serial'[u] =>
                    a.topic = topic'[u]
    <3>1. /\ a.serial \in 1..sent
          /\ \A u \in Threads : pc[u] = "await" /\ a.serial = serial[u] => a.topic = topic[u]
      BY <2>5 DEF SerialInv
    <3> QED BY <2>2, <2>3, <3>1
  <2>6. acked' \subseteq 1..sent'
    BY <1>0, <2>2
  <2> QED BY <2>1, <2>4, <2>5, <2>6 DEF SerialInv
<1> QED BY <1>1, <1>2, <1>3, <1>4, <1>5, <1>6, <1>7, <1>8
        DEF QuietStep, Next, LoopStep, ThreadStep
-----------------------------------------------------------------------------
(* Nobody enters a call, and who is in one stays in that one. *)
BusyKept ==
  \A th \in Threads : pc'[th] # "idle" => pc[th] # "idle" /\ UNCHANGED <<op[th], topic[th]>>

(* A step that subscribes to nothing keeps the subscriptions among the     *)
(* known topics.                                                           *)
LEMMA KnownFrame ==
  ASSUME KnownInv, BusyKept, UNCHANGED <<queues, unsubscribed, missed>>,
         broker' \subseteq Known,
         \A p \in Out' : p.kind = "subscribe" => p \in Out \/ p.topic \in Known,
         \A a \in In' : a.kind = "message" => a \in In \/ a.topic \in Known
  PROVE  KnownInv'
<1>1. Known' = Known
  BY DEF Known
<1>2. ASSUME NEW th \in Threads, pc'[th] # "idle", op'[th] = "subscribe"
      PROVE  topic'[th] \in Known
  BY <1>2 DEF BusyKept, KnownInv
<1> QED BY <1>1, <1>2 DEF KnownInv

(* Steps that leave the calls alone, end one or pass one to the library    *)
(* make no thread enter a call.                                            *)
LEMMA BusyStep ==
  ASSUME TypeOK, NEW th \in Threads
  PROVE  /\ UNCHANGED callVars => BusyKept
         /\ EndCall(th) => BusyKept
         /\ LibraryAccepts(th) => BusyKept
<1>1. UNCHANGED callVars => BusyKept
  BY DEF callVars, BusyKept
<1>2. EndCall(th) => BusyKept
  BY DEF EndCall, BusyKept, TypeOK
<1>3. LibraryAccepts(th) => BusyKept
  BY DEF LibraryAccepts, BusyKept, TypeOK
<1> QED BY <1>1, <1>2, <1>3

(* Every step keeps the subscriptions among the known topics. *)
LEMMA KnownStep ==
  ASSUME TypeOK, LifeInv, CallInv, KnownInv, [Next]_vars PROVE KnownInv'
<1>0. Owner \in Threads /\ broker \subseteq Known
  BY SessionAssumption DEF KnownInv
<1>1. ASSUME NEW th \in Threads, NEW t \in Topics, Subscribe(th, t) \/ Unsubscribe(th, t)
      PROVE  KnownInv'
  <2>1. PICK o \in Ops : Begin(th, o, t)
    BY <1>1 DEF Subscribe, Unsubscribe, Ops
  <2>2. UNCHANGED <<Out, In, broker, missed>>
    BY <2>1, SameInTransit DEF Begin, linkVars, brokerVars
  <2>3. Known' = Known \cup {t}
    BY <1>1 DEF Subscribe, Unsubscribe, NewQueue, Known
  <2>4. ASSUME NEW u \in Threads, pc'[u] # "idle", op'[u] = "subscribe"
        PROVE  topic'[u] \in Known'
    <3>1. CASE u = th
      BY <2>1, <2>3, <3>1 DEF Begin, TypeOK
    <3>2. CASE u # th
      BY <2>1, <2>3, <2>4, <3>2 DEF Begin, TypeOK, KnownInv
    <3> QED BY <3>1, <3>2
  <2> QED BY <2>2, <2>3, <2>4 DEF KnownInv
<1>2. CASE Destroy
  <2>1. UNCHANGED <<Out, In, broker, missed>> /\ Known' = Known
    BY <1>2, SameInTransit DEF Destroy, Unretain, Begin, linkVars, brokerVars, Known
  <2>2. ASSUME NEW u \in Threads, pc'[u] # "idle" PROVE op'[u] # "subscribe"
    BY <1>2, <2>2 DEF Destroy, Unretain, Begin, TypeOK
  <2> QED BY <2>1, <2>2 DEF KnownInv
<1>3. CASE \/ UNCHANGED vars \/ LoopEnds \/ CallbackTooLate
           \/ ConstructorThrows \/ Connect \/ LoopStart \/ Disconnect \/ LoopStop \/ Unwind
  <2>1. UNCHANGED <<callVars, queues, unsubscribed, missed, broker, outgoing, incoming>>
    BY <1>3 DEF vars, LoopEnds, CallbackTooLate, ConstructorThrows, Connect, LoopStart,
         Disconnect, LoopStop, Unwind, historyVars, brokerVars, linkVars
  <2> QED BY <1>0, <2>1, BusyStep, SameInTransit, KnownFrame
<1>4. ASSUME NEW th \in Threads, LibraryRefuses(th) \/ Timeout(th) \/ Return(th)
      PROVE  KnownInv'
  <2>1. /\ EndCall(th)
        /\ UNCHANGED <<queues, unsubscribed, missed, broker, outgoing, incoming>>
    BY <1>4 DEF LibraryRefuses, Timeout, Throw, Return, historyVars, brokerVars, linkVars
  <2> QED BY <1>0, <2>1, BusyStep, SameInTransit, KnownFrame
<1>5. ASSUME NEW th \in Threads, LibraryAccepts(th) PROVE KnownInv'
  <2>1. UNCHANGED <<queues, unsubscribed, missed, broker>> /\ pc[th] # "idle"
    BY <1>5 DEF LibraryAccepts, historyVars, brokerVars
  <2>2. /\ Out' = Out \cup {CallPacket(th)} /\ In' = In
        /\ CallPacket(th).kind = "subscribe" => CallPacket(th).topic \in Known
    BY <1>5, <2>1, AcceptsLink DEF CallPacket, KnownInv
  <2> QED BY <1>0, <1>5, <2>1, <2>2, BusyStep, KnownFrame
<1>6. CASE BrokerReceives
  <2> DEFINE p == Head(outgoing)
  <2>1. /\ p \in Out /\ Out = {p} \cup Out'
        /\ In' = In \/ In' = In \cup {AckOf(p)}
    BY <1>6, ReceivesLink
  <2>2. p.kind = "subscribe" => p.topic \in Known
    BY <2>1 DEF KnownInv
  <2> HIDE DEF p
  <2>3. /\ UNCHANGED <<callVars, queues, unsubscribed, missed>>
        /\ \/ p.kind = "subscribe" /\ broker' = broker \cup {p.topic}
           \/ broker' \subseteq broker
    BY <1>6 DEF BrokerReceives, p
  <2>4. AckOf(p).kind = "ack"
    BY DEF AckOf
  <2> QED BY <1>0, <2>1, <2>2, <2>3, <2>4, BusyStep, KnownFrame
<1>7. CASE Lose \/ Reconnect
  <2>1. UNCHANGED <<callVars, queues, unsubscribed, missed>> /\ broker' \subseteq broker
    BY <1>7 DEF Lose, Reconnect, historyVars, brokerVars
  <2>2. In' \subseteq In /\ \A p \in Out' : p.kind # "subscribe"
    BY <1>7, LoseLink, ReconnectLink DEF UnretainPacket
  <2> QED BY <1>0, <2>1, <2>2, BusyStep, KnownFrame
<1>8. ASSUME NEW t \in Topics, BrokerSends(t) PROVE KnownInv'
  <2>1. UNCHANGED <<callVars, queues, unsubscribed, missed, broker>> /\ t \in broker
    BY <1>8 DEF BrokerSends, historyVars
  <2>2. /\ In' = In \cup {[kind |-> "message", topic |-> t, serial |-> 0]}
        /\ UNCHANGED Out
    BY <1>8, SendsLink
  <2> QED BY <1>0, <2>1, <2>2, BusyStep, KnownFrame
<1>9. CASE OnAck
  <2>1. UNCHANGED <<callVars, queues, unsubscribed, missed, broker>>
    BY <1>9 DEF OnAck, historyVars, brokerVars
  <2>2. In' \subseteq In /\ UNCHANGED Out
    BY <1>9, AckLink
  <2> QED BY <1>0, <2>1, <2>2, BusyStep, KnownFrame
<1>10. CASE OnMessage
  <2>1. UNCHANGED <<callVars, queues, unsubscribed, broker>>
    BY <1>10 DEF OnMessage, brokerVars
  <2>2. PICK a \in In :
          /\ a.kind = "message" /\ In = {a} \cup In'
          /\ a.topic \in Known => missed' = missed
          /\ UNCHANGED Out \/ Out' = Out \cup {StatusPacket}
    BY <1>10, MessageLink
  <2>3. missed' = missed
    BY <2>2 DEF KnownInv
  <2>4. StatusPacket.kind = "status"
    BY DEF StatusPacket
  <2> QED BY <1>0, <2>1, <2>2, <2>3, <2>4, BusyStep, KnownFrame
<1> QED BY <1>1, <1>2, <1>3, <1>4, <1>5, <1>6, <1>7, <1>8, <1>9, <1>10
        DEF Next, ObjectStep, LoopStep, ThreadStep
-----------------------------------------------------------------------------
(* Nothing is answered that was not. *)
NoAnswers ==
  \A s \in Nat :
    (s \in acked' \/ \E a \in In' : a.kind = "ack" /\ a.serial = s) => Answered(s)

(* What was answered, stays so. *)
KeptAnswers ==
  \A s \in Nat :
    Answered(s) => s \in acked' \/ \E a \in In' : a.kind = "ack" /\ a.serial = s

(* Which steps make, and which keep, the answer of an awaited packet. *)
LEMMA AnswerSteps ==
  ASSUME TypeOK
  PROVE  /\ In' = In /\ acked' \subseteq acked => NoAnswers
         /\ In' = In /\ acked' = acked => KeptAnswers
         /\ OnAck => NoAnswers /\ KeptAnswers
         /\ OnMessage => NoAnswers /\ KeptAnswers
         /\ \A t \in Topics : BrokerSends(t) => NoAnswers /\ KeptAnswers
<1>1. /\ In' = In /\ acked' \subseteq acked => NoAnswers
      /\ In' = In /\ acked' = acked => KeptAnswers
  BY DEF NoAnswers, KeptAnswers, Answered
<1>2. OnAck => NoAnswers /\ KeptAnswers
  BY AckLink DEF NoAnswers, KeptAnswers, Answered
<1>3. OnMessage => NoAnswers /\ KeptAnswers
  <2> SUFFICES ASSUME OnMessage PROVE NoAnswers /\ KeptAnswers
    OBVIOUS
  <2>1. PICK a \in In : a.kind = "message" /\ In = {a} \cup In'
    BY MessageLink
  <2>2. acked' = acked
    BY DEF OnMessage
  <2> QED BY <2>1, <2>2 DEF NoAnswers, KeptAnswers, Answered
<1>4. ASSUME NEW t \in Topics, BrokerSends(t) PROVE NoAnswers /\ KeptAnswers
  <2> DEFINE a == [kind |-> "message", topic |-> t, serial |-> 0]
  <2>1. In' = In \cup {a} /\ a.kind = "message"
    BY <1>4, SendsLink
  <2>2. acked' = acked
    BY <1>4 DEF BrokerSends
  <2> HIDE DEF a
  <2> QED BY <2>1, <2>2 DEF NoAnswers, KeptAnswers, Answered
<1> QED BY <1>1, <1>2, <1>3, <1>4

(* The part of CauseInv about a destructor that waits. *)
Unretaining ==
  life = "destroying" /\ pc[Owner] = "await" =>
    \/ losses > 0
    \/ \E p \in Out : p.serial = serial[Owner]
    \/ serial[Owner] \in acked
    \/ \E a \in In : a.kind = "ack" /\ a.serial = serial[Owner]

(* A step that loses no packet keeps the withdrawal of the status on its   *)
(* way.                                                                    *)
LEMMA UnretainingFrame ==
  ASSUME TypeOK, Unretaining, WaitsKept, life' = "destroying" => life = "destroying",
         KeptAnswers, losses' = losses, \A p \in Out : p \in Out'
  PROVE  Unretaining'
<1> SUFFICES ASSUME life' = "destroying", pc'[Owner] = "await"
             PROVE  \/ losses' > 0
                    \/ \E p \in Out' : p.serial = serial'[Owner]
                    \/ serial'[Owner] \in acked'
                    \/ \E a \in In' : a.kind = "ack" /\ a.serial = serial'[Owner]
  BY DEF Unretaining
<1>1. /\ life = "destroying" /\ pc[Owner] = "await" /\ serial'[Owner] = serial[Owner]
      /\ serial[Owner] \in Nat
  BY SessionAssumption DEF WaitsKept, TypeOK
<1>2. \/ losses > 0 \/ (\E p \in Out : p.serial = serial[Owner]) \/ Answered(serial[Owner])
  BY <1>1 DEF Unretaining, Answered
<1> QED BY <1>1, <1>2 DEF KeptAnswers

(* Every step keeps the withdrawal of the status on its way or answered. *)
LEMMA UnretainingStep ==
  ASSUME TypeOK, LifeInv, CallInv, SerialInv, Unretaining, [Next]_vars PROVE Unretaining'
<1>0. Owner \in Threads
  BY SessionAssumption
<1>1. CASE UNCHANGED vars \/ LoopEnds \/ CallbackTooLate
  <2>1. UNCHANGED <<callVars, life, outgoing, incoming, acked, losses>>
    BY <1>1 DEF vars, LoopEnds, CallbackTooLate, linkVars, lifeVars
  <2> QED BY <1>0, <2>1, WaitsStep, SameInTransit, AnswerSteps, UnretainingFrame
<1>2. CASE ObjectStep
  <2>1. life' # "destroying" \/ pc'[Owner] = "call"
    BY <1>0, <1>2 DEF ObjectStep, ConstructorThrows, Connect, LoopStart, Destroy, Unretain,
         Begin, Disconnect, LoopStop, Unwind, TypeOK
  <2> QED BY <2>1 DEF Unretaining
<1>3. ASSUME NEW th \in Threads, LibraryRefuses(th) \/ Timeout(th) \/ Return(th)
      PROVE  Unretaining'
  <2>1. /\ EndCall(th) /\ pc[th] # "idle"
        /\ life' = "destroying" => life = "destroying"
    BY <1>3 DEF LibraryRefuses, Timeout, Throw, Return
  <2>2. life = "destroying" => th = Owner
    BY <2>1 DEF CallInv
  <2>3. pc'[th] = "idle"
    BY <2>1 DEF EndCall, TypeOK
  <2> QED BY <2>1, <2>2, <2>3 DEF Unretaining
<1>4. ASSUME NEW th \in Threads, NEW t \in Topics, Subscribe(th, t) \/ Unsubscribe(th, t)
      PROVE  Unretaining'
  <2>1. life' # "destroying"
    BY <1>4 DEF Subscribe, Unsubscribe, MayCall, Alive, lifeVars
  <2> QED BY <2>1 DEF Unretaining
<1>5. ASSUME NEW th \in Threads, LibraryAccepts(th) PROVE Unretaining'
  <2>1. Out' = Out \cup {CallPacket(th)} /\ CallPacket(th).serial = sent + 1
    BY <1>5, AcceptsLink DEF CallPacket
  <2>2. /\ life' = life /\ pc[th] # "idle"
        /\ serial' = [serial EXCEPT ![th] = sent + 1]
    BY <1>5 DEF LibraryAccepts, StoresSerial, lifeVars
  <2>3. life = "destroying" => th = Owner
    BY <2>2 DEF CallInv
  <2>4. serial'[th] = sent + 1
    BY <2>2 DEF TypeOK
  <2> QED BY <2>1, <2>2, <2>3, <2>4 DEF Unretaining
<1>6. CASE BrokerReceives
  <2> DEFINE p == Head(outgoing)
  <2>1. /\ p \in Out /\ Out = {p} \cup Out'
        /\ p.kind = "status" => In' = In
        /\ p.kind # "status" => In' = In \cup {AckOf(p)}
    BY <1>6, ReceivesLink
  <2> HIDE DEF p
  <2>2. UNCHANGED <<callVars, life, acked, losses>>
    BY <1>6 DEF BrokerReceives, lifeVars
  <2>3. AckOf(p).kind = "ack" /\ AckOf(p).serial = p.serial
    BY DEF AckOf
  <2>4. p.kind = "status" => p.serial = 0
    BY <2>1 DEF SerialInv
  <2>5. pc[Owner] = "await" => serial[Owner] # 0
    BY <1>0 DEF TypeOK
  <2> QED BY <2>1, <2>2, <2>3, <2>4, <2>5 DEF Unretaining, callVars
<1>7. CASE Lose
  <2>1. losses' > 0
    BY <1>7 DEF Lose, TypeOK
  <2> QED BY <2>1 DEF Unretaining
<1>8. CASE Reconnect
  <2>1. UNCHANGED <<callVars, life>>
    BY <1>8 DEF Reconnect, lifeVars
  <2>2. life = "destroying" /\ pc[Owner] = "await" => Out' = {UnretainPacket}
    BY <1>8, ReconnectLink
  <2>3. UnretainPacket.serial = serial[Owner]
    BY DEF UnretainPacket
  <2> QED BY <2>1, <2>2, <2>3 DEF Unretaining, callVars
<1>9. CASE OnAck \/ OnMessage \/ \E t \in Topics : BrokerSends(t)
  <2>1. UNCHANGED <<callVars, life, losses>>
    BY <1>9 DEF OnAck, OnMessage, BrokerSends, lifeVars
  <2>2. KeptAnswers /\ Out \subseteq Out'
    BY <1>9, AnswerSteps, AckLink, MessageLink, SendsLink
  <2> QED BY <1>0, <2>1, <2>2, WaitsStep, UnretainingFrame
<1> QED BY <1>1, <1>2, <1>3, <1>4, <1>5, <1>6, <1>7, <1>8, <1>9
        DEF Next, LoopStep, ThreadStep

(* Every step keeps a cause for every way the program can have ended. *)
LEMMA CauseStep ==
  ASSUME TypeOK, LifeInv, CallInv, SerialInv, KnownInv, CauseInv, [Next]_vars
  PROVE  CauseInv'
<1>0. Owner \in Threads
  BY SessionAssumption
<1>1. Unretaining'
  <2>1. Unretaining
    BY DEF CauseInv, Unretaining, Answered
  <2> QED BY <2>1, UnretainingStep
<1>2. /\ process' = "use_after_free" => threw'
      /\ process' \in {"undecodable", "publish_refused"} => Announcement \in Known'
      /\ process' = "unacknowledged" =>
           \/ losses' > 0
           \/ \E p \in Out' : p.kind = "unretain"
           \/ \E a \in In' : a.kind = "ack" /\ a.topic = Status
  <2>1. CASE UNCHANGED vars
    <3>1. UNCHANGED <<process, threw, losses, Out, In, Known>>
      BY <2>1, SameInTransit DEF vars, lifeVars, linkVars, historyVars, Known
    <3> QED BY <3>1 DEF CauseInv
  <2>2. CASE Running'
    BY <2>2 DEF Running
  <2>3. ASSUME NEW th \in Threads, LibraryRefuses(th)
        PROVE  process' \in {"running", "refused"}
    BY <2>3 DEF LibraryRefuses, Throw, Running
  <2>4. ASSUME NEW th \in Threads, Timeout(th), process' # "running"
        PROVE  /\ process' = "unacknowledged"
               /\ \/ losses' > 0
                  \/ \E p \in Out' : p.kind = "unretain"
                  \/ \E a \in In' : a.kind = "ack" /\ a.topic = Status
    <3>1. /\ process' = "unacknowledged" /\ life = "destroying" /\ pc[th] = "await"
          /\ serial[th] \notin acked /\ UNCHANGED <<losses, outgoing, incoming>>
      BY <2>4 DEF Timeout, Throw, Running, linkVars
    <3>2. th = Owner /\ op[th] = "unretain" /\ topic[th] = Status
      BY <3>1 DEF CallInv
    <3>3. \/ losses > 0
          \/ \E p \in Out : p.serial = serial[th]
          \/ \E a \in In : a.kind = "ack" /\ a.serial = serial[th]
      BY <3>1, <3>2 DEF CauseInv, Answered
    <3>4. \/ losses > 0
          \/ \E p \in Out : p.kind = "unretain"
          \/ \E a \in In : a.kind = "ack" /\ a.topic = Status
      BY <3>1, <3>2, <3>3 DEF SerialInv
    <3> QED BY <3>1, <3>4, SameInTransit
  <2>5. ASSUME OnMessage, process' # "running"
        PROVE  process' \in {"undecodable", "publish_refused"} /\ Announcement \in Known'
    <3>1. PICK a \in In : /\ a.kind = "message" /\ a.topic = Announcement
                          /\ process' \in {"undecodable", "publish_refused"}
      BY <2>5, MessageLink DEF OnMessage, Callback, Running
    <3>2. Announcement \in Known
      BY <3>1 DEF KnownInv
    <3>3. Known' = Known
      BY <2>5 DEF OnMessage, Known
    <3> QED BY <3>1, <3>2, <3>3
  <2>6. ASSUME CallbackTooLate PROVE process' = "use_after_free" /\ threw'
    BY <2>6 DEF CallbackTooLate, Callback, MembersAlive, LifeInv, lifeVars
  <2>7. \/ UNCHANGED vars \/ Running' \/ OnMessage \/ CallbackTooLate
        \/ \E th \in Threads : LibraryRefuses(th) \/ Timeout(th)
    <3>1. Next => Running
      BY DEF Next, ObjectStep, ConstructorThrows, Connect, LoopStart, Destroy, Alive,
           Disconnect, LoopStop, Unwind, LoopStep, OnAck, OnMessage, CallbackTooLate,
           Callback, LoopEnds, BrokerReceives, Lose, Reconnect, BrokerSends, ThreadStep,
           LibraryAccepts, LibraryRefuses, Return, Timeout, Subscribe, Unsubscribe, MayCall
    <3>2. CASE \/ ObjectStep \/ OnAck \/ LoopEnds \/ BrokerReceives \/ Lose \/ Reconnect
               \/ \E t \in Topics : BrokerSends(t)
      BY <3>1, <3>2 DEF Next, LoopStep, ObjectStep, ConstructorThrows, Connect, LoopStart,
         Destroy, Unretain, Begin, Disconnect, LoopStop, Unwind, OnAck, LoopEnds,
         BrokerReceives, Lose, Reconnect, BrokerSends, Running
    <3>3. CASE \/ \E th \in Threads : LibraryAccepts(th) \/ Return(th)
               \/ \E th \in Threads, t \in Topics : Subscribe(th, t) \/ Unsubscribe(th, t)
      BY <3>1, <3>3 DEF Next, ThreadStep, LibraryAccepts, Return, Subscribe, Unsubscribe,
         Begin, Running
    <3> QED BY <3>2, <3>3 DEF Next, LoopStep, ThreadStep
  <2> QED BY <2>1, <2>2, <2>3, <2>4, <2>5, <2>6, <2>7 DEF Running
<1> QED BY <1>1, <1>2 DEF CauseInv, Unretaining, Answered
-----------------------------------------------------------------------------
NoStatusAfter == NoneAfter(outgoing, Unretains, Statuses)

(* What the status invariant says of a withdrawal, before the announcement *)
(* and after it.                                                           *)
LEMMA StatusParts ==
  ASSUME StatusInv
  PROVE  /\ (\E p \in Out : p.kind = "unretain") => UnretainLife(life, pc[Owner])
         /\ ~announced =>
              /\ NoStatusAfter
              /\ life = "destroying" /\ pc[Owner] = "await" /\ Answered(serial[Owner]) =>
                   Withdrawn
              /\ life \in {"unretained", "joining", "dead"} /\ Running /\ ~threw => Withdrawn
  BY DEF StatusInv, NoStatusAfter

(* Steps that keep the object, its calls and the broker's status. *)
LEMMA StatusFrame ==
  ASSUME TypeOK, StatusInv, WaitsKept, UNCHANGED <<life, threw, retained>>, NoAnswers,
         announced => announced', Running' => Running, pc'[Owner] = "call" => pc[Owner] = "call",
         \A p \in Out' : p \in Out \/ (p.kind = "status" /\ announced'),
         NoStatusAfter => NoStatusAfter' \/ announced'
  PROVE  StatusInv'
<1>1. (\E p \in Out' : p.kind = "unretain") =>
        UnretainLife(life', pc'[Owner])
  BY StatusParts DEF UnretainLife
<1> SUFFICES ASSUME ~announced'
             PROVE  /\ NoStatusAfter'
                    /\ life' = "destroying" /\ pc'[Owner] = "await" /\ Answered(serial[Owner])'
                         => Withdrawn'
                    /\ life' \in {"unretained", "joining", "dead"} /\ Running' /\ ~threw'
                         => Withdrawn'
  BY <1>1 DEF StatusInv, NoStatusAfter
<1>2. ~announced /\ NoStatusAfter'
  BY StatusParts
<1>3. Withdrawn => Withdrawn'
  BY DEF Withdrawn
<1>4. ASSUME life' = "destroying", pc'[Owner] = "await", Answered(serial[Owner])'
      PROVE  Withdrawn
  <2>1. /\ pc[Owner] = "await" /\ serial'[Owner] = serial[Owner] /\ serial[Owner] \in Nat
    BY <1>4, SessionAssumption DEF WaitsKept, TypeOK
  <2>2. Answered(serial[Owner])
    BY <1>4, <2>1 DEF NoAnswers, Answered
  <2> QED BY <1>2, <1>4, <2>1, <2>2, StatusParts
<1> QED BY <1>2, <1>3, <1>4, StatusParts

(* Every step keeps the status invariant. *)
LEMMA StatusStep ==
  ASSUME TypeOK, LifeInv, CallInv, SerialInv, StatusInv, [Next]_vars PROVE StatusInv'
<1>0. Owner \in Threads /\ outgoing \in Seq(Packet) /\ Out \subseteq Packet
  BY SessionAssumption, InTransit DEF TypeOK
<1>1. CASE UNCHANGED vars \/ LoopEnds \/ CallbackTooLate
  <2>1. /\ UNCHANGED <<callVars, life, threw, retained, announced, outgoing, incoming, acked>>
        /\ Running' => Running
    BY <1>1 DEF vars, LoopEnds, CallbackTooLate, linkVars, lifeVars, brokerVars,
         historyVars, Running
  <2>2. WaitsKept /\ NoAnswers /\ Out' = Out
    BY <1>0, <2>1, WaitsStep, SameInTransit, AnswerSteps
  <2> QED BY <2>1, <2>2, StatusFrame DEF NoStatusAfter, callVars
<1>2. CASE ConstructorThrows \/ Connect \/ LoopStart
  <2>1. /\ outgoing = <<>> /\ UNCHANGED outgoing
        /\ \/ life' \in {"connected", "constructing"}
           \/ life' = "dead" /\ threw'
    BY <1>2 DEF ConstructorThrows, Connect, LoopStart, linkVars, LifeInv
  <2>2. Out' = {} /\ NoStatusAfter'
    BY <2>1, NothingInTransit, SameInTransit, NoneAfterFew DEF NoStatusAfter
  <2> QED BY <2>1, <2>2 DEF StatusInv, NoStatusAfter
<1>3. CASE Destroy
  <2>1. /\ UNCHANGED <<outgoing, announced>> /\ life = "alive" /\ life' = "destroying"
        /\ pc'[Owner] = "call"
    BY <1>0, <1>3 DEF Destroy, Unretain, Begin, Alive, linkVars, historyVars, TypeOK
  <2>2. Out' = Out /\ (NoStatusAfter => NoStatusAfter')
    BY <2>1, SameInTransit DEF NoStatusAfter
  <2> QED BY <2>1, <2>2, StatusParts DEF StatusInv, NoStatusAfter, UnretainLife
<1>4. CASE Disconnect \/ LoopStop \/ Unwind
  <2>1. /\ UNCHANGED <<outgoing, announced, retained, threw, process>>
        /\ life' \in {"joining", "dead"}
        /\ life \in {"unretained", "joining"} \/ threw
    BY <1>4 DEF Disconnect, LoopStop, Unwind, linkVars, historyVars, brokerVars, LifeInv
  <2>2. Out' = Out /\ (NoStatusAfter => NoStatusAfter') /\ (Withdrawn => Withdrawn')
    BY <2>1, SameInTransit DEF NoStatusAfter, Withdrawn
  <2>3. Running' => Running
    BY <2>1 DEF Running
  <2> QED BY <2>1, <2>2, <2>3, StatusParts DEF StatusInv, NoStatusAfter, UnretainLife
<1>5. ASSUME NEW th \in Threads, NEW cause, Throw(th, cause), pc[th] # "idle"
      PROVE  StatusInv'
  <2>1. /\ UNCHANGED <<outgoing, announced>>
        /\ life' = IF life = "constructing" THEN "unwinding" ELSE life
        /\ pc'[th] = "idle"
    BY <1>5 DEF Throw, EndCall, linkVars, TypeOK
  <2>2. /\ life \in {"constructing", "alive", "destroying"}
        /\ life = "destroying" => th = Owner
    BY <1>5 DEF CallInv
  <2>3. Out' = Out /\ (NoStatusAfter => NoStatusAfter')
    BY <2>1, SameInTransit DEF NoStatusAfter
  <2> QED BY <2>1, <2>2, <2>3, StatusParts DEF StatusInv, NoStatusAfter, UnretainLife
<1>6. ASSUME NEW th \in Threads, Return(th) PROVE StatusInv'
  <2>1. /\ UNCHANGED <<outgoing, announced, retained>>
        /\ life' = CASE life = "constructing" -> "alive"
                     [] life = "destroying" -> "unretained"
                     [] OTHER -> life
        /\ pc[th] = "await" /\ serial[th] \in acked
    BY <1>6 DEF Return, WaitForMessageId, linkVars, historyVars, brokerVars
  <2>2. /\ life \in {"constructing", "alive", "destroying"}
        /\ life = "destroying" => th = Owner
    BY <2>1 DEF CallInv
  <2>3. life' \in {"alive", "unretained"} /\ (life' = "unretained" <=> life = "destroying")
    BY <2>1, <2>2
  <2>4. Out' = Out /\ (NoStatusAfter => NoStatusAfter') /\ (Withdrawn => Withdrawn')
    BY <2>1, SameInTransit DEF NoStatusAfter, Withdrawn
  <2>5. life = "destroying" /\ ~announced => Withdrawn
    BY <2>1, <2>2, StatusParts DEF Answered
  <2> QED BY <2>1, <2>3, <2>4, <2>5, StatusParts DEF StatusInv, NoStatusAfter, UnretainLife
<1>7. ASSUME NEW th \in Threads, NEW t \in Topics, Subscribe(th, t) \/ Unsubscribe(th, t)
      PROVE  StatusInv'
  <2>1. /\ UNCHANGED <<outgoing, announced, life>> /\ life \in {"alive", "constructing"}
    BY <1>7 DEF Subscribe, Unsubscribe, MayCall, Alive, Begin, linkVars, lifeVars
  <2>2. Out' = Out /\ (NoStatusAfter => NoStatusAfter')
    BY <2>1, SameInTransit DEF NoStatusAfter
  <2> QED BY <2>1, <2>2, StatusParts DEF StatusInv, NoStatusAfter, UnretainLife
<1>8. ASSUME NEW th \in Threads, LibraryAccepts(th) PROVE StatusInv'
  <2>1. /\ CallPacket(th) \in Packet /\ Out' = Out \cup {CallPacket(th)} /\ In' = In
        /\ outgoing' = Append(outgoing, CallPacket(th)) /\ CallPacket(th).kind = op[th]
    BY <1>8, AcceptsLink DEF CallPacket
  <2>2. /\ UNCHANGED <<life, announced, acked>> /\ pc[th] # "idle"
        /\ serial'[th] = sent + 1 /\ sent \in Nat
    BY <1>8, SessionAssumption
       DEF LibraryAccepts, StoresSerial, lifeVars, historyVars, TypeOK
  <2>3. /\ life \in {"constructing", "alive", "destroying"}
        /\ life = "destroying" => th = Owner
        /\ life = "destroying" <=> op[th] = "unretain"
    BY <2>2 DEF CallInv
  <2>4. CallPacket(th) \notin Statuses
    BY <2>1 DEF Statuses, TypeOK, Ops
  <2>5. NoStatusAfter => NoStatusAfter'
    BY <1>0, <2>1, <2>4, NoneAfterAppend DEF NoStatusAfter
  <2>6. ~Answered(sent + 1)
    BY <2>2 DEF Answered, SerialInv
  <2>7. life = "destroying" => ~(Answered(serial[Owner])')
    BY <2>1, <2>2, <2>3, <2>6 DEF Answered
  <2>8. (\E p \in Out' : p.kind = "unretain") =>
          UnretainLife(life', pc'[Owner])
    <3>1. pc'[th] = "await"
      BY <1>8 DEF LibraryAccepts, TypeOK
    <3>2. \A p \in Out : p.kind = "unretain" => UnretainLife(life, pc[Owner])
      BY StatusParts
    <3>3. pc'[Owner] = pc[Owner] \/ pc'[Owner] = "await"
      BY <1>0, <1>8 DEF LibraryAccepts, TypeOK
    <3> QED BY <2>1, <2>2, <2>3, <3>1, <3>2, <3>3 DEF UnretainLife
  <2> QED BY <2>2, <2>3, <2>5, <2>7, <2>8, StatusParts DEF StatusInv, NoStatusAfter
<1>9. CASE BrokerReceives
  <2> DEFINE p == Head(outgoing)
  <2>1. /\ p \in Packet /\ p \in Out /\ Out = {p} \cup Out' /\ outgoing # <<>>
        /\ outgoing' = Tail(outgoing) /\ Out' = Elements(Tail(outgoing))
        /\ p.kind = "status" => In' = In
        /\ p.kind # "status" => In' = In \cup {AckOf(p)}
    BY <1>9, ReceivesLink
  <2>2. NoStatusAfter =>
          NoStatusAfter' /\ (p \in Unretains => \A x \in Out' : x \notin Statuses)
    BY <1>0, <2>1, NoneAfterTail DEF NoStatusAfter
  <2> HIDE DEF p
  <2>3. /\ UNCHANGED <<callVars, life, threw, announced, acked, process>>
        /\ retained' = retained \/ retained' = (p.kind = "status")
        /\ p.kind = "unretain" => retained' = FALSE
    BY <1>9 DEF BrokerReceives, lifeVars, p
  <2>4. Withdrawn => Withdrawn'
    BY <2>1, <2>3 DEF Withdrawn
  <2>5. AckOf(p).serial = p.serial
    BY DEF AckOf
  <2>6. ASSUME ~announced, life = "destroying", pc[Owner] = "await",
               Answered(serial[Owner])'
        PROVE  Withdrawn'
    <3>1. CASE Answered(serial[Owner])
      BY <2>4, <2>6, <3>1, StatusParts
    <3>2. CASE ~Answered(serial[Owner])
      <4>1. p.kind # "status" /\ p.serial = serial[Owner]
        BY <2>1, <2>3, <2>5, <2>6, <3>2 DEF Answered, callVars
      <4>2. p.kind = "unretain"
        BY <1>0, <2>1, <2>6, <4>1 DEF SerialInv, CallInv
      <4>3. p \in Unretains /\ retained' = FALSE
        BY <2>1, <2>3, <4>2 DEF Unretains
      <4>4. \A x \in Out' : x \in Packet /\ x \notin Statuses
        BY <1>0, <2>1, <2>2, <2>6, <4>3, StatusParts
      <4> QED BY <4>3, <4>4 DEF Withdrawn, Statuses
    <3> QED BY <3>1, <3>2
  <2>7. /\ (\E x \in Out' : x.kind = "unretain") =>
             UnretainLife(life', pc'[Owner])
        /\ ~announced => NoStatusAfter'
    BY <2>1, <2>2, <2>3, StatusParts DEF callVars
  <2>8. Running' => Running
    BY <2>3 DEF Running
  <2> QED BY <2>3, <2>4, <2>6, <2>7, <2>8, StatusParts DEF StatusInv, NoStatusAfter, callVars
<1>10. CASE Lose
  <2>1. /\ UNCHANGED <<callVars, life, threw, retained, announced, process, acked>>
        /\ outgoing' = <<>> /\ Out' = {} /\ In' = {}
    BY <1>10, LoseLink DEF Lose, lifeVars
  <2>2. NoStatusAfter'
    BY <2>1, NoneAfterFew DEF NoStatusAfter
  <2>3. NoAnswers
    BY <2>1 DEF NoAnswers, Answered
  <2> QED BY <1>0, <2>1, <2>2, <2>3, WaitsStep, StatusFrame DEF Running, callVars
<1>11. CASE Reconnect
  <2>1. UNCHANGED <<callVars, life, threw, retained, announced, process, acked>>
    BY <1>11 DEF Reconnect, lifeVars, brokerVars, historyVars
  <2>2. /\ In' = In
        /\ IF life = "destroying" /\ pc[Owner] = "await"
           THEN outgoing' = <<UnretainPacket>> /\ Out' = {UnretainPacket}
           ELSE outgoing' = <<>> /\ Out' = {}
    BY <1>11, ReconnectLink
  <2>3. /\ NoStatusAfter'
        /\ \A p \in Out' :
             p.kind = "unretain" /\ life = "destroying" /\ pc[Owner] = "await"
    <3>1. UnretainPacket.kind = "unretain"
      BY DEF UnretainPacket
    <3>2. NoStatusAfter'
      BY <2>2, NoneAfterFew DEF NoStatusAfter
    <3> QED BY <2>2, <3>1, <3>2
  <2>4. Withdrawn => Withdrawn'
    BY <2>1, <2>3 DEF Withdrawn
  <2>5. Answered(serial[Owner])' => Answered(serial[Owner])
    BY <2>1, <2>2 DEF Answered, callVars
  <2> QED BY <2>1, <2>3, <2>4, <2>5, StatusParts
          DEF StatusInv, NoStatusAfter, UnretainLife, Running, callVars
<1>12. CASE OnAck \/ \E t \in Topics : BrokerSends(t)
  <2>1. UNCHANGED <<callVars, life, threw, retained, announced, process, outgoing, Out>>
    BY <1>12, AckLink, SendsLink
       DEF OnAck, BrokerSends, lifeVars, brokerVars, historyVars
  <2>2. NoAnswers /\ WaitsKept
    BY <1>0, <1>12, <2>1, AnswerSteps, WaitsStep
  <2> QED BY <2>1, <2>2, StatusFrame DEF NoStatusAfter, Running, callVars
<1>13. CASE OnMessage
  <2>1. UNCHANGED <<callVars, life, threw, retained>>
    BY <1>13 DEF OnMessage, lifeVars, brokerVars
  <2>2. \/ UNCHANGED <<outgoing, Out, announced, process>>
        \/ /\ outgoing' = Append(outgoing, StatusPacket)
           /\ StatusPacket \in Packet
           /\ Out' = Out \cup {StatusPacket}
           /\ announced' = (announced \/ UnretainSent)
           /\ UNCHANGED process
        \/ /\ process' \in {"undecodable", "publish_refused"}
           /\ UNCHANGED <<outgoing, Out, announced>>
    BY <1>13, MessageLink
  <2>3. NoAnswers /\ WaitsKept /\ Running
    BY <1>0, <1>13, <2>1, AnswerSteps, WaitsStep DEF OnMessage, Callback
  <2>4. CASE UNCHANGED <<outgoing, Out, announced>>
    BY <2>1, <2>3, <2>4, StatusFrame DEF NoStatusAfter, callVars
  <2>5. CASE /\ outgoing' = Append(outgoing, StatusPacket) /\ StatusPacket \in Packet
             /\ Out' = Out \cup {StatusPacket}
             /\ announced' = (announced \/ UnretainSent)
    <3>1. StatusPacket.kind = "status"
      BY DEF StatusPacket
    <3>2. CASE announced'
      BY <2>1, <2>3, <2>5, <3>1, <3>2, StatusFrame DEF callVars
    <3>3. CASE ~announced'
      <4>1. ~announced /\ ~UnretainSent
        BY <2>5, <3>3 DEF TypeOK
      <4>2. ~UnretainLife(life, pc[Owner])
        BY <4>1 DEF UnretainSent, UnretainLife
      <4>3. \A p \in Out : p \notin Unretains /\ p.kind # "unretain"
        BY <4>2, StatusParts DEF Unretains
      <4>4. NoStatusAfter'
        BY <1>0, <2>5, <4>1, <4>3, StatusParts, NoneAfterAppend DEF NoStatusAfter, Out
      <4>5. \A p \in Out' : p.kind # "unretain"
        BY <2>5, <3>1, <4>3
      <4>6. life = "destroying" => pc[Owner] = "call"
        BY <4>1 DEF UnretainSent
      <4>7. life \notin {"unretained", "joining", "dead"}
        BY <4>1 DEF UnretainSent
      <4> QED BY <2>1, <4>1, <4>4, <4>5, <4>6, <4>7 DEF StatusInv, NoStatusAfter, callVars
    <3> QED BY <3>2, <3>3
  <2> QED BY <2>2, <2>4, <2>5
<1> QED BY <1>1, <1>2, <1>3, <1>4, <1>5, <1>6, <1>7, <1>8, <1>9, <1>10, <1>11, <1>12, <1>13
        DEF Next, ObjectStep, LoopStep, ThreadStep, LibraryRefuses, Timeout
-----------------------------------------------------------------------------
(* For any set of packets, none of a topic's follow them: as far as the    *)
(* order of the packets matters to a call.                                 *)
OrderKept(t) ==
  \A A : NoneAfter(outgoing, A, PacketsOf(t)) => NoneAfter(outgoing', A, PacketsOf(t))

(* A call as it is seen by the step that follows it. *)
CleanCallNext(t, th) ==
  /\ \A u \in Threads : pc'[u] # "idle" /\ topic'[u] = t => u = th
  /\ t \in queues' <=> op'[th] = "subscribe"
  /\ pc'[th] = "await" =>
       /\ NoneAfter(outgoing', PacketOf(serial'[th]), PacketsOf(t))
       /\ (serial'[th] \in acked' \/ \E a \in In' : a.kind = "ack" /\ a.serial = serial'[th]) =>
            (\A p \in Out' : p.topic # t) /\ (t \in broker' <=> op'[th] = "subscribe")

AgreedNext(t) ==
  /\ \A th \in Threads : pc'[th] # "idle" /\ topic'[th] = t => CleanCallNext(t, th)
  /\ (\A th \in Threads : pc'[th] = "idle" \/ topic'[th] # t) =>
       (\A p \in Out' : p.topic # t) /\ (t \in queues' <=> t \in broker')

(* The agreement holds next if it holds next of each topic that is not     *)
(* disturbed.                                                              *)
LEMMA AgreementNext ==
  ASSUME \A t \in Topics \ disturbed' : AgreedNext(t) PROVE AgreementInv'
  BY DEF AgreementInv, Agreed, AgreedNext, CleanCall, CleanCallNext, Settled, Busy, Answered,
     PacketOf, PacketsOf

(* What the agreement says of the one call about a topic. *)
LEMMA CleanCallParts ==
  ASSUME AgreementInv, NEW t \in Topics \ disturbed
  PROVE  /\ \A th \in Threads : pc[th] # "idle" /\ topic[th] = t =>
              /\ \A u \in Threads : pc[u] # "idle" /\ topic[u] = t => u = th
              /\ t \in queues <=> op[th] = "subscribe"
              /\ pc[th] = "await" =>
                   /\ NoneAfter(outgoing, PacketOf(serial[th]), PacketsOf(t))
                   /\ Answered(serial[th]) =>
                        Settled(t) /\ (t \in broker <=> op[th] = "subscribe")
         /\ (\A th \in Threads : pc[th] = "idle" \/ topic[th] # t) =>
              Settled(t) /\ (t \in queues <=> t \in broker)
  BY DEF AgreementInv, Agreed, CleanCall, Busy

(* Steps that keep the calls, and the topic at both ends. *)
LEMMA AgreedFrame ==
  ASSUME TypeOK, AgreementInv, NEW t \in Topics \ disturbed,
         UNCHANGED callVars, queues' = queues, t \in broker' <=> t \in broker,
         NoAnswers, OrderKept(t), Settled(t) => \A p \in Out' : p.topic # t
  PROVE  AgreedNext(t)
<1>1. ASSUME NEW th \in Threads, pc[th] # "idle", topic[th] = t PROVE CleanCallNext(t, th)
  <2>1. /\ \A u \in Threads : pc[u] # "idle" /\ topic[u] = t => u = th
        /\ t \in queues <=> op[th] = "subscribe"
        /\ pc[th] = "await" =>
             /\ NoneAfter(outgoing, PacketOf(serial[th]), PacketsOf(t))
             /\ Answered(serial[th]) => Settled(t) /\ (t \in broker <=> op[th] = "subscribe")
    BY <1>1, CleanCallParts
  <2>2. serial[th] \in Nat
    BY SessionAssumption DEF TypeOK
  <2>3. NoneAfter(outgoing, PacketOf(serial[th]), PacketsOf(t)) =>
          NoneAfter(outgoing', PacketOf(serial[th]), PacketsOf(t))
    BY DEF OrderKept
  <2>4. (serial[th] \in acked' \/ \E a \in In' : a.kind = "ack" /\ a.serial = serial[th]) =>
          Answered(serial[th])
    BY <2>2 DEF NoAnswers
  <2> QED BY <2>1, <2>3, <2>4 DEF CleanCallNext, callVars
<1>2. (\A th \in Threads : pc[th] = "idle" \/ topic[th] # t) =>
        Settled(t) /\ (t \in queues <=> t \in broker)
  BY CleanCallParts
<1> QED BY <1>1, <1>2 DEF AgreedNext, callVars

(* A call is entered: alone on its topic it is clean. *)
LEMMA AgreedBegin ==
  ASSUME TypeOK, AgreementInv, NEW th \in Threads, NEW o \in Ops,
         NEW u \in Topics \cup {Status}, Begin(th, o, u),
         queues' \ {u} = queues \ {u},
         u \in Topics => (u \in queues' <=> o = "subscribe"),
         NEW t \in Topics \ disturbed'
  PROVE  AgreedNext(t)
<1>1. /\ pc[th] = "idle" /\ pc' = [pc EXCEPT ![th] = "call"]
      /\ op' = [op EXCEPT ![th] = o] /\ topic' = [topic EXCEPT ![th] = u]
      /\ disturbed' = IF Busy(u) THEN disturbed \cup {u} ELSE disturbed \ {u}
      /\ UNCHANGED <<serial, outgoing, incoming, broker, acked>>
  BY DEF Begin, linkVars, brokerVars
<1>2. /\ pc'[th] = "call" /\ op'[th] = o /\ topic'[th] = u
      /\ \A w \in Threads \ {th} : pc'[w] = pc[w] /\ op'[w] = op[w] /\ topic'[w] = topic[w]
  BY <1>1 DEF TypeOK
<1>3. UNCHANGED <<Out, In>>
  BY <1>1, SameInTransit
<1>4. CASE t = u
  <2>1. ~Busy(u)
    BY <1>1, <1>4
  <2>2. \A w \in Threads : pc'[w] # "idle" /\ topic'[w] = t => w = th
    BY <1>2, <1>4, <2>1 DEF Busy
  <2>3. CleanCallNext(t, th)
    BY <1>2, <1>4, <2>2 DEF CleanCallNext
  <2> QED BY <1>2, <1>4, <2>2, <2>3 DEF AgreedNext
<1>5. CASE t # u
  <2>1. t \in Topics \ disturbed /\ (t \in queues' <=> t \in queues)
    BY <1>1, <1>5
  <2>2. \A w \in Threads : pc'[w] # "idle" /\ topic'[w] = t =>
          w # th /\ pc[w] # "idle" /\ topic[w] = t
    BY <1>2, <1>5
  <2>3. ASSUME NEW w \in Threads, pc'[w] # "idle", topic'[w] = t
        PROVE  CleanCallNext(t, w)
    <3>1. /\ \A v \in Threads : pc[v] # "idle" /\ topic[v] = t => v = w
          /\ t \in queues <=> op[w] = "subscribe"
          /\ pc[w] = "await" =>
               /\ NoneAfter(outgoing, PacketOf(serial[w]), PacketsOf(t))
               /\ Answered(serial[w]) => Settled(t) /\ (t \in broker <=> op[w] = "subscribe")
      BY <2>1, <2>2, <2>3, CleanCallParts
    <3>2. w # th
      BY <2>2, <2>3
    <3> QED BY <1>1, <1>2, <1>3, <2>1, <2>2, <3>1, <3>2 DEF CleanCallNext, Answered, Settled
  <2>4. ASSUME \A w \in Threads : pc'[w] = "idle" \/ topic'[w] # t
        PROVE  (\A p \in Out' : p.topic # t) /\ (t \in queues' <=> t \in broker')
    <3>1. \A w \in Threads : pc[w] = "idle" \/ topic[w] # t
      BY <1>1, <1>2, <2>4
    <3> QED BY <1>1, <1>3, <2>1, <3>1, CleanCallParts DEF Settled
  <2> QED BY <2>3, <2>4 DEF AgreedNext
<1> QED BY <1>4, <1>5

(* A call ends, and leaves its topic as it should be, or disturbed. *)
LEMMA AgreedEnd ==
  ASSUME TypeOK, AgreementInv, NEW th \in Threads, pc[th] # "idle", EndCall(th),
         UNCHANGED <<outgoing, incoming, broker, queues>>, acked' \subseteq acked,
         NEW t \in Topics \ disturbed,
         topic[th] = t => pc[th] = "await" /\ serial[th] \in acked
  PROVE  AgreedNext(t)
<1>1. /\ pc' = [pc EXCEPT ![th] = "idle"] /\ op' = [op EXCEPT ![th] = "subscribe"]
      /\ topic' = [topic EXCEPT ![th] = Announcement]
      /\ serial' = [serial EXCEPT ![th] = 0]
  BY DEF EndCall
<1>2. /\ pc'[th] = "idle"
      /\ \A w \in Threads \ {th} : /\ pc'[w] = pc[w] /\ op'[w] = op[w]
                                   /\ topic'[w] = topic[w] /\ serial'[w] = serial[w]
  BY <1>1 DEF TypeOK
<1>3. UNCHANGED <<Out, In>>
  BY SameInTransit
<1>4. ASSUME NEW w \in Threads, pc'[w] # "idle", topic'[w] = t PROVE CleanCallNext(t, w)
  <2>1. w # th /\ pc[w] # "idle" /\ topic[w] = t
    BY <1>2, <1>4
  <2>2. /\ \A v \in Threads : pc[v] # "idle" /\ topic[v] = t => v = w
        /\ t \in queues <=> op[w] = "subscribe"
        /\ pc[w] = "await" =>
             /\ NoneAfter(outgoing, PacketOf(serial[w]), PacketsOf(t))
             /\ Answered(serial[w]) => Settled(t) /\ (t \in broker <=> op[w] = "subscribe")
    BY <2>1, CleanCallParts
  <2>3. \A v \in Threads : pc'[v] # "idle" /\ topic'[v] = t => v = w
    BY <1>2, <2>2
  <2> QED BY <1>2, <1>3, <2>1, <2>2, <2>3 DEF CleanCallNext, Answered, Settled
<1>5. ASSUME \A w \in Threads : pc'[w] = "idle" \/ topic'[w] # t
      PROVE  (\A p \in Out' : p.topic # t) /\ (t \in queues' <=> t \in broker')
  <2>1. CASE topic[th] = t
    <3>1. /\ t \in queues <=> op[th] = "subscribe"
          /\ Settled(t) /\ (t \in broker <=> op[th] = "subscribe")
      BY <2>1, CleanCallParts DEF Answered
    <3> QED BY <1>3, <3>1 DEF Settled
  <2>2. CASE topic[th] # t
    <3>1. \A w \in Threads : pc[w] = "idle" \/ topic[w] # t
      BY <1>2, <1>5, <2>2
    <3> QED BY <1>3, <3>1, CleanCallParts DEF Settled
  <2> QED BY <2>1, <2>2
<1> QED BY <1>4, <1>5 DEF AgreedNext

(* A packet the library accepts keeps the agreement. *)
LEMMA AgreedAccept ==
  ASSUME TypeOK, SerialInv, AgreementInv, NEW th \in Threads, LibraryAccepts(th),
         NEW t \in Topics \ disturbed
  PROVE  AgreedNext(t)
<1> DEFINE k == CallPacket(th)
<1>1. /\ k \in Packet /\ k.topic = topic[th] /\ k.serial = sent + 1
      /\ outgoing' = Append(outgoing, k) /\ Out' = Out \cup {k} /\ In' = In
  BY AcceptsLink DEF CallPacket
<1> HIDE DEF k
<1>2. /\ UNCHANGED <<op, topic, queues, broker, acked>> /\ pc[th] # "idle"
      /\ pc'[th] = "await" /\ serial'[th] = sent + 1 /\ sent \in Nat
      /\ \A w \in Threads \ {th} : pc'[w] = pc[w] /\ serial'[w] = serial[w]
  BY SessionAssumption DEF LibraryAccepts, StoresSerial, brokerVars, TypeOK
<1>3. outgoing \in Seq(Packet) /\ Out \subseteq Packet
  BY InTransit DEF TypeOK
<1>4. /\ \A p \in Out : p.serial # sent + 1
      /\ ~Answered(sent + 1)
  <2>1. \A p \in Out : p.serial # sent + 1
    BY <1>2 DEF SerialInv
  <2>2. ~Answered(sent + 1)
    BY <1>2 DEF SerialInv, Answered
  <2> QED BY <2>1, <2>2
<1>5. CASE topic[th] = t
  <2>1. /\ \A u \in Threads : pc[u] # "idle" /\ topic[u] = t => u = th
        /\ t \in queues <=> op[th] = "subscribe"
    BY <1>2, <1>5, CleanCallParts
  <2>2. \A u \in Threads : pc'[u] # "idle" /\ topic'[u] = t => u = th
    BY <1>2, <2>1
  <2>3. NoneAfter(outgoing', PacketOf(sent + 1), PacketsOf(t))
    <3>1. \A x \in Elements(outgoing) : x \notin PacketOf(sent + 1)
      BY <1>4 DEF PacketOf, Out
    <3>2. NoneAfter(outgoing, PacketOf(sent + 1), PacketsOf(t))
      <4>1. \A i \in 1..Len(outgoing) : outgoing[i] \in Elements(outgoing)
        BY DEF Elements
      <4> QED BY <3>1, <4>1 DEF NoneAfter
    <3> QED BY <1>1, <1>3, <3>1, <3>2, NoneAfterAppend
  <2>4. CleanCallNext(t, th)
    BY <1>1, <1>2, <1>4, <2>1, <2>2, <2>3 DEF CleanCallNext, Answered
  <2> QED BY <1>2, <1>5, <2>2, <2>4 DEF AgreedNext
<1>6. CASE topic[th] # t
  <2>1. k \notin PacketsOf(t)
    BY <1>1, <1>6 DEF PacketsOf
  <2>2. \A A : NoneAfter(outgoing, A, PacketsOf(t)) => NoneAfter(outgoing', A, PacketsOf(t))
    BY <1>1, <1>3, <2>1, NoneAfterAppend
  <2>3. ASSUME NEW w \in Threads, pc'[w] # "idle", topic'[w] = t PROVE CleanCallNext(t, w)
    <3>1. w # th /\ pc[w] # "idle" /\ topic[w] = t
      BY <1>2, <1>6, <2>3
    <3>2. /\ \A v \in Threads : pc[v] # "idle" /\ topic[v] = t => v = w
          /\ t \in queues <=> op[w] = "subscribe"
          /\ pc[w] = "await" =>
               /\ NoneAfter(outgoing, PacketOf(serial[w]), PacketsOf(t))
               /\ Answered(serial[w]) => Settled(t) /\ (t \in broker <=> op[w] = "subscribe")
      BY <3>1, CleanCallParts
    <3>3. \A v \in Threads : pc'[v] # "idle" /\ topic'[v] = t => v = w
      BY <1>2, <1>6, <3>2
    <3>4. pc[w] = "await" => NoneAfter(outgoing', PacketOf(serial[w]), PacketsOf(t))
      BY <2>2, <3>2
    <3> QED BY <1>1, <1>2, <1>6, <3>1, <3>2, <3>3, <3>4 DEF CleanCallNext, Answered, Settled
  <2>4. ASSUME \A w \in Threads : pc'[w] = "idle" \/ topic'[w] # t
        PROVE  (\A p \in Out' : p.topic # t) /\ (t \in queues' <=> t \in broker')
    <3>1. \A w \in Threads : pc[w] = "idle" \/ topic[w] # t
      BY <1>2, <1>6, <2>4
    <3> QED BY <1>1, <1>2, <1>6, <3>1, CleanCallParts DEF Settled
  <2> QED BY <2>3, <2>4 DEF AgreedNext
<1> QED BY <1>5, <1>6

(* A packet the broker takes keeps the agreement. *)
LEMMA AgreedReceive ==
  ASSUME TypeOK, SerialInv, AgreementInv, BrokerReceives, NEW t \in Topics \ disturbed'
  PROVE  AgreedNext(t)
<1> DEFINE p == Head(outgoing)
<1>1. /\ p \in Packet /\ p \in Out /\ Out = {p} \cup Out' /\ outgoing # <<>>
      /\ outgoing' = Tail(outgoing) /\ Out' = Elements(Tail(outgoing))
      /\ p.kind = "status" => In' = In
      /\ p.kind # "status" => In' = In \cup {AckOf(p)}
  BY ReceivesLink
<1>2. outgoing \in Seq(Packet) /\ Out \subseteq Packet
  BY InTransit DEF TypeOK
<1>3. \A A : NoneAfter(outgoing, A, PacketsOf(t)) =>
        /\ NoneAfter(outgoing', A, PacketsOf(t))
        /\ p \in A => \A x \in Out' : x \notin PacketsOf(t)
  BY <1>1, <1>2, NoneAfterTail
<1>4. /\ UNCHANGED <<callVars, queues, acked>> /\ disturbed \subseteq disturbed'
      /\ \/ p.kind = "subscribe" /\ broker' = broker \cup {p.topic}
         \/ p.kind = "subscribe" /\ p.topic \in disturbed' /\ broker' = broker
         \/ p.kind = "unsubscribe" /\ broker' = broker \ {p.topic}
         \/ p.kind \in {"unretain", "status"} /\ broker' = broker
  BY DEF BrokerReceives
<1> HIDE DEF p
<1>5. t \in Topics \ disturbed /\ (p.topic # t => (t \in broker' <=> t \in broker))
  BY <1>4
<1>6. Settled(t) => p.topic # t /\ \A x \in Out' : x.topic # t
  BY <1>1 DEF Settled
<1>7. AckOf(p).serial = p.serial
  BY DEF AckOf
<1>8. ASSUME NEW th \in Threads, pc[th] # "idle", topic[th] = t PROVE CleanCallNext(t, th)
  <2>1. /\ \A u \in Threads : pc[u] # "idle" /\ topic[u] = t => u = th
        /\ t \in queues <=> op[th] = "subscribe"
        /\ pc[th] = "await" =>
             /\ NoneAfter(outgoing, PacketOf(serial[th]), PacketsOf(t))
             /\ Answered(serial[th]) => Settled(t) /\ (t \in broker <=> op[th] = "subscribe")
    BY <1>5, <1>8, CleanCallParts
  <2>2. ASSUME pc[th] = "await"
        PROVE  NoneAfter(outgoing', PacketOf(serial[th]), PacketsOf(t))
    BY <1>3, <2>1, <2>2
  <2>3. ASSUME pc[th] = "await",
               serial[th] \in acked' \/ \E a \in In' : a.kind = "ack" /\ a.serial = serial[th]
        PROVE  (\A x \in Out' : x.topic # t) /\ (t \in broker' <=> op[th] = "subscribe")
    <3>1. CASE Answered(serial[th])
      BY <1>5, <1>6, <2>1, <2>3, <3>1
    <3>2. CASE ~Answered(serial[th])
      <4>1. p.kind # "status" /\ p.serial = serial[th]
        BY <1>1, <1>4, <1>7, <2>3, <3>2 DEF Answered
      <4>2. p.kind = op[th] /\ p.topic = t
        BY <1>1, <1>8, <2>3, <4>1 DEF SerialInv
      <4>3. p \in PacketOf(serial[th])
        BY <1>1, <4>1 DEF PacketOf
      <4>4. \A x \in Out' : x \in Packet /\ x \notin PacketsOf(t)
        BY <1>1, <1>2, <1>3, <2>1, <2>3, <4>3
      <4>5. op[th] # "unretain"
        BY <1>1, <4>2, SessionAssumption DEF SerialInv
      <4>6. \A x \in Out' : x.topic # t
        BY <4>4 DEF PacketsOf
      <4>7. t \in broker' <=> op[th] = "subscribe"
        BY <1>4, <4>1, <4>2, <4>5
      <4> QED BY <4>6, <4>7
    <3> QED BY <3>1, <3>2
  <2> QED BY <1>4, <2>1, <2>2, <2>3 DEF CleanCallNext, callVars
<1>9. ASSUME \A w \in Threads : pc[w] = "idle" \/ topic[w] # t
      PROVE  (\A x \in Out' : x.topic # t) /\ (t \in queues <=> t \in broker')
  BY <1>5, <1>6, <1>9, CleanCallParts
<1> QED BY <1>4, <1>8, <1>9 DEF AgreedNext, callVars

(* Every step keeps the agreement of the object and the broker. *)
LEMMA AgreementStep ==
  ASSUME TypeOK, LifeInv, CallInv, SerialInv, AgreementInv, [Next]_vars PROVE AgreementInv'
<1> SUFFICES ASSUME NEW t \in Topics \ disturbed' PROVE AgreedNext(t)
  BY AgreementNext
<1>0. /\ Owner \in Threads /\ Status \notin Topics /\ outgoing \in Seq(Packet)
      /\ Out \subseteq Packet
  BY SessionAssumption, InTransit DEF TypeOK
<1>1. CASE \/ UNCHANGED vars \/ LoopEnds \/ CallbackTooLate \/ ConstructorThrows
           \/ Connect \/ LoopStart \/ Disconnect \/ LoopStop \/ Unwind
  <2>1. UNCHANGED <<callVars, queues, broker, outgoing, incoming, acked, disturbed>>
    BY <1>1 DEF vars, LoopEnds, CallbackTooLate, ConstructorThrows, Connect, LoopStart,
         Disconnect, LoopStop, Unwind, linkVars, brokerVars, historyVars
  <2>2. UNCHANGED <<Out, In>> /\ NoAnswers /\ OrderKept(t)
    BY <2>1, SameInTransit, AnswerSteps DEF OrderKept
  <2> QED BY <2>1, <2>2, AgreedFrame DEF Settled
<1>2. CASE Destroy
  <2>1. Begin(Owner, "unretain", Status) /\ queues' = queues /\ "unretain" \in Ops
    BY <1>2 DEF Destroy, Unretain, Ops
  <2> QED BY <1>0, <2>1, AgreedBegin
<1>3. ASSUME NEW th \in Threads, NEW u \in Topics, Subscribe(th, u) \/ Unsubscribe(th, u)
      PROVE  AgreedNext(t)
  <2>1. PICK o \in Ops : /\ Begin(th, o, u) /\ queues' \ {u} = queues \ {u}
                         /\ u \in queues' <=> o = "subscribe"
    BY <1>3 DEF Subscribe, Unsubscribe, NewQueue, Ops
  <2> QED BY <2>1, AgreedBegin
<1>4. ASSUME NEW th \in Threads, NEW cause, Throw(th, cause), pc[th] # "idle"
      PROVE  AgreedNext(t)
  <2>1. /\ EndCall(th) /\ UNCHANGED <<outgoing, incoming, broker, queues, acked>>
        /\ disturbed' = disturbed \cup {topic[th]}
    BY <1>4 DEF Throw, linkVars, brokerVars
  <2> QED BY <1>4, <2>1, AgreedEnd
<1>5. ASSUME NEW th \in Threads, Return(th) PROVE AgreedNext(t)
  <2>1. /\ EndCall(th) /\ UNCHANGED <<outgoing, incoming, broker, queues, disturbed>>
        /\ pc[th] = "await" /\ serial[th] \in acked /\ acked' \subseteq acked
    BY <1>5 DEF Return, WaitForMessageId, linkVars, brokerVars, historyVars
  <2> QED BY <2>1, AgreedEnd
<1>6. ASSUME NEW th \in Threads, LibraryAccepts(th) PROVE AgreedNext(t)
  BY <1>6, AgreedAccept DEF LibraryAccepts, historyVars
<1>7. CASE BrokerReceives
  BY <1>7, AgreedReceive
<1>8. CASE Lose
  BY <1>8 DEF Lose
<1>9. CASE Reconnect
  <2>1. UNCHANGED <<callVars, queues, broker, acked, disturbed>>
    BY <1>9 DEF Reconnect, brokerVars, historyVars
  <2>2. /\ In' = In
        /\ \/ outgoing' = <<UnretainPacket>> /\ Out' = {UnretainPacket}
           \/ outgoing' = <<>> /\ Out' = {}
    BY <1>9, ReconnectLink
  <2>3. NoAnswers /\ OrderKept(t)
    BY <2>1, <2>2, AnswerSteps, NoneAfterFew DEF OrderKept
  <2>4. UnretainPacket.topic # t
    BY <1>0 DEF UnretainPacket
  <2> QED BY <2>1, <2>2, <2>3, <2>4, AgreedFrame
<1>10. CASE OnAck \/ \E u \in Topics : BrokerSends(u)
  <2>1. UNCHANGED <<callVars, queues, broker, disturbed, outgoing, Out>>
    BY <1>10, AckLink, SendsLink DEF OnAck, BrokerSends, brokerVars, historyVars
  <2>2. NoAnswers /\ OrderKept(t)
    BY <1>10, <2>1, AnswerSteps DEF OrderKept
  <2> QED BY <2>1, <2>2, AgreedFrame DEF Settled
<1>11. CASE OnMessage
  <2>1. UNCHANGED <<callVars, queues, broker, disturbed>> /\ NoAnswers
    BY <1>11, AnswerSteps DEF OnMessage, brokerVars
  <2>2. \/ UNCHANGED <<outgoing, Out>>
        \/ /\ outgoing' = Append(outgoing, StatusPacket) /\ StatusPacket \in Packet
           /\ Out' = Out \cup {StatusPacket}
    BY <1>11, MessageLink
  <2>3. StatusPacket.topic # t /\ StatusPacket \notin PacketsOf(t)
    BY <1>0 DEF StatusPacket, PacketsOf
  <2>4. OrderKept(t)
    <3>1. CASE UNCHANGED outgoing
      BY <3>1 DEF OrderKept
    <3>2. CASE outgoing' = Append(outgoing, StatusPacket) /\ StatusPacket \in Packet
      BY <1>0, <2>3, <3>2, NoneAfterAppend DEF OrderKept
    <3> QED BY <2>2, <3>1, <3>2
  <2> QED BY <2>1, <2>2, <2>3, <2>4, AgreedFrame DEF Settled
<1> QED BY <1>1, <1>2, <1>3, <1>4, <1>5, <1>6, <1>7, <1>8, <1>9, <1>10, <1>11
        DEF Next, ObjectStep, LoopStep, ThreadStep, LibraryRefuses, Timeout
-----------------------------------------------------------------------------
(* The inductive invariant holds at first. *)
LEMMA Initially == Init => IInv
<1> SUFFICES ASSUME Init PROVE IInv
  OBVIOUS
<1>1. TypeOK
  <2>1. CallTypes
    BY SessionAssumption DEF Init, CallTypes, Ops
  <2>2. <<>> \in Seq(Packet) /\ <<>> \in Seq(Arrival)
    OBVIOUS
  <2>3. 0 \in 0..MaxMessages /\ 0 \in 0..MaxLosses
    BY SessionAssumption
  <2>4. LinkTypes
    BY <2>2, <2>3 DEF Init, LinkTypes
  <2>5. BrokerTypes
    BY <2>3 DEF Init, BrokerTypes
  <2>6. LifeTypes
    BY DEF Init, LifeTypes, Lives
  <2>7. HistoryTypes
    BY DEF Init, HistoryTypes
  <2>8. RestTypes
    BY DEF Init, RestTypes
  <2> QED BY <2>1, <2>4, <2>5, <2>6, <2>7, <2>8
          DEF TypeOK, CallTypes, LinkTypes, BrokerTypes, LifeTypes, HistoryTypes, RestTypes
<1>2. Out = {} /\ In = {} /\ \A th \in Threads : pc[th] = "idle"
  BY NothingInTransit DEF Init
<1>3. LifeInv
  BY DEF Init, LifeInv
<1>4. CallInv
  BY <1>2, SessionAssumption DEF Init, CallInv
<1>5. SerialInv /\ KnownInv
  BY <1>2 DEF Init, SerialInv, KnownInv
<1>6. CauseInv
  BY DEF Init, CauseInv
<1>7. StatusInv
  BY <1>2, NoneAfterFew DEF Init, StatusInv
<1>8. AgreementInv
  BY <1>2 DEF Init, AgreementInv, Agreed, Settled
<1> QED BY <1>1, <1>3, <1>4, <1>5, <1>6, <1>7, <1>8 DEF IInv

(* The inductive invariant holds always. *)
LEMMA Inductive == Spec => []IInv
<1>1. IInv /\ [Next]_vars => IInv'
  BY TypeStep, LifeStep, CallStep, SerialStep, KnownStep, CauseStep, StatusStep, AgreementStep
     DEF IInv
<1> QED BY <1>1, Initially, PTL DEF Spec

(* Every variable keeps its type; a call that waits has a packet's serial. *)
THEOREM Typing == Spec => []TypeOK
<1>1. IInv => TypeOK
  BY DEF IInv
<1> QED BY <1>1, Inductive, PTL

(* No message is dropped on a topic that was never unsubscribed. *)
THEOREM MessageSafety == Spec => []NothingMissed
<1>1. IInv => NothingMissed
  BY DEF IInv, KnownInv, NothingMissed
<1> QED BY <1>1, Inductive, PTL

(* What ends the process has its cause outside the Client, or in a         *)
(* constructor that threw, or in an announcement the client subscribed to. *)
THEOREM CauseSafety == Spec => []EndsHaveCauses
<1>1. IInv => EndsHaveCauses
  <2> SUFFICES ASSUME IInv PROVE EndsHaveCauses
    OBVIOUS
  <2>1. /\ \A p \in Out : \E i \in DOMAIN outgoing : p = outgoing[i]
        /\ \A a \in In : \E i \in DOMAIN incoming : a = incoming[i]
    BY DEF Out, In, Elements, IInv, TypeOK
  <2> QED BY <2>1 DEF IInv, CauseInv, EndsHaveCauses, Known
<1> QED BY <1>1, Inductive, PTL

(* A destructor that no announcement overtook leaves no status behind. *)
THEOREM StatusSafety == Spec => []StatusWithdrawn
<1>1. IInv => StatusWithdrawn
  <2> SUFFICES ASSUME IInv PROVE StatusWithdrawn
    OBVIOUS
  <2>1. \A i \in DOMAIN outgoing : outgoing[i] \in Out
    BY DEF Out, Elements, IInv, TypeOK
  <2> QED BY <2>1 DEF IInv, StatusInv, Withdrawn, StatusWithdrawn
<1> QED BY <1>1, Inductive, PTL

(* After a clean call the client and the broker agree about its topic. *)
THEOREM AgreementSafety == Spec => []Agreement
<1>1. IInv => Agreement
  BY DEF IInv, AgreementInv, Agreed, Agreement
<1> QED BY <1>1, Inductive, PTL
=============================================================================
