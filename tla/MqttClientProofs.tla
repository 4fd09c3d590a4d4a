-------------------------- MODULE MqttClientProofs --------------------------
(* Theorems about MqttClient, for every set of threads and topics and for   *)
(* every bound.                                                             *)
EXTENDS MqttClient, SequenceTheorems, TLAPS

(* A message id is one of the library's. *)
LEMMA MidType ==
  ASSUME NEW s \in Nat \ {0}
  PROVE  MidOf(s) \in 1..MaxMid
  BY ClientAssumption DEF MidOf

(* The first message ids are the serials. *)
LEMMA MidIdentity ==
  ASSUME NEW s \in 1..MaxMid
  PROVE  MidOf(s) = s
  BY ClientAssumption DEF MidOf
-----------------------------------------------------------------------------
(* The type invariant in the parts that steps change together. *)
CallTypes ==
  /\ pc \in [Threads -> {"idle", "call", "await", "blocked", "expired"}]
  /\ op \in [Threads -> {"ack", "message"}]
  /\ topic \in [Threads -> Topics]
  /\ serial \in [Threads -> 0..MaxPackets]
  /\ ended \in [Threads -> Endings]

QueueVarTypes ==
  /\ queues \subseteq Topics
  /\ messages \in [Topics -> Seq(Nat)]
  /\ kept \in [Topics -> Seq(Nat)]
  /\ taken \in [Topics -> Seq(Nat)]
  /\ dangling \subseteq Threads

PacketTypes ==
  /\ message_ids \subseteq 1..MaxMid
  /\ sent \in 1..MaxPackets
  /\ inflight \subseteq 1..MaxPackets
  /\ acked \subseteq 1..MaxPackets

LoopTypes ==
  /\ subscription_status \in Nat
  /\ loop \in Nat
  /\ delivered \in [Topics -> Nat]
  /\ retained_status \in Nat

ProcessType ==
  process \in {"running", "duplicate_id", "bad_announcement",
               "publish_refused", "use_after_free"}

(* The type invariant by the groups of variables. *)
LEMMA TypeParts ==
  TypeOK <=> CallTypes /\ QueueVarTypes /\ PacketTypes /\ LoopTypes /\ ProcessType
  BY DEF TypeOK, CallTypes, QueueVarTypes, PacketTypes, LoopTypes, ProcessType

(* A group of variables left alone keeps its types. *)
LEMMA FrameTypes ==
  ASSUME TypeOK
  PROVE  /\ UNCHANGED callVars => CallTypes'
         /\ UNCHANGED queueVars => QueueVarTypes'
         /\ UNCHANGED packetVars => PacketTypes'
         /\ UNCHANGED loopVars => LoopTypes'
         /\ UNCHANGED process => ProcessType'
<1>1. UNCHANGED callVars => CallTypes'
  BY TypeParts DEF CallTypes, callVars
<1>2. UNCHANGED queueVars => QueueVarTypes'
  BY TypeParts DEF QueueVarTypes, queueVars
<1>3. UNCHANGED packetVars => PacketTypes'
  BY TypeParts DEF PacketTypes, packetVars
<1>4. UNCHANGED loopVars => LoopTypes'
  BY TypeParts DEF LoopTypes, loopVars
<1>5. UNCHANGED process => ProcessType'
  BY TypeParts DEF ProcessType
<1> QED BY <1>1, <1>2, <1>3, <1>4, <1>5

(* What GetLapiMessage and on_message do to a queue keeps it a queue. *)
LEMMA QueueTypes ==
  ASSUME NEW q \in Seq(Nat)
  PROVE  /\ \A m \in Nat : Append(q, m) \in Seq(Nat)
         /\ q # <<>> => Head(q) \in Nat /\ Tail(q) \in Seq(Nat)
  BY AppendProperties, HeadTailProperties

(* Front(t) and Store(t, m) keep the types of what they change. *)
LEMMA FrontType ==
  ASSUME TypeOK, NEW t \in Topics, Front(t)
  PROVE  QueueVarTypes'
<1>1. QueueVarTypes
  BY TypeParts
<1>2. /\ messages[t] \in Seq(Nat) /\ messages[t] # <<>>
      /\ taken[t] \in Seq(Nat)
  BY <1>1 DEF QueueVarTypes, Front
<1>3. /\ Head(messages[t]) \in Nat
      /\ Tail(messages[t]) \in Seq(Nat)
  BY <1>2, QueueTypes
<1>4. Append(taken[t], Head(messages[t])) \in Seq(Nat)
  BY <1>2, <1>3, QueueTypes
<1>5. /\ messages' = [messages EXCEPT ![t] = Tail(messages[t])]
      /\ taken' = [taken EXCEPT ![t] = Append(taken[t], Head(messages[t]))]
      /\ UNCHANGED <<queues, kept, dangling>>
  BY DEF Front
<1> QED BY <1>1, <1>3, <1>4, <1>5 DEF QueueVarTypes

(* Storing a message keeps the types. *)
LEMMA StoreType ==
  ASSUME TypeOK, NEW t \in Topics, NEW m \in Nat, Store(t, m)
  PROVE  CallTypes' /\ QueueVarTypes'
<1>1. CallTypes /\ QueueVarTypes
  BY TypeParts
<1>2. CASE t \in queues
  <2>1. /\ Append(messages[t], m) \in Seq(Nat)
        /\ Append(kept[t], m) \in Seq(Nat)
    BY <1>1, QueueTypes DEF QueueVarTypes
  <2>2. /\ messages' = [messages EXCEPT ![t] = Append(messages[t], m)]
        /\ kept' = [kept EXCEPT ![t] = Append(kept[t], m)]
        /\ UNCHANGED <<queues, taken, dangling>>
    BY <1>2 DEF Store
  <2>3. QueueVarTypes'
    BY <1>1, <2>1, <2>2 DEF QueueVarTypes
  <2>4. pc' = Awake /\ UNCHANGED <<op, topic, serial, ended>>
    BY <1>2 DEF Store
  <2>5. CallTypes'
    BY <1>1, <2>4 DEF CallTypes, Awake
  <2> QED BY <2>3, <2>5
<1>3. CASE t \notin queues
  BY <1>3, FrameTypes DEF Store
<1> QED BY <1>2, <1>3

(* The steps within a call keep the types of callVars. *)
LEMMA CallStepType ==
  ASSUME TypeOK, NEW th \in Threads
  PROVE  /\ StartCall(th) => CallTypes'
         /\ EndGet(th) => CallTypes'
         /\ \A how \in Endings : EndCall(th, how) => CallTypes'
         /\ \A where \in {"await", "blocked", "expired"} :
              Goto(th, where) => CallTypes'
<1>0. CallTypes
  BY TypeParts
<1> USE <1>0 DEF CallTypes
<1>1. StartCall(th) => CallTypes'
  BY DEF StartCall
<1>2. EndGet(th) => CallTypes'
  BY ClientAssumption DEF EndGet
<1>3. \A how \in Endings : EndCall(th, how) => CallTypes'
  BY ClientAssumption DEF EndCall
<1>4. \A where \in {"await", "blocked", "expired"} :
        Goto(th, where) => CallTypes'
  BY DEF Goto
<1> QED BY <1>1, <1>2, <1>3, <1>4
-----------------------------------------------------------------------------
(* Every variable keeps its type: in particular the library never passes   *)
(* MaxPackets and message_ids_ only ever holds identifiers 1..MaxMid.      *)
THEOREM Typing == Spec => []TypeOK
<1>1. Init => TypeOK
  BY ClientAssumption, EmptySeq DEF Init, TypeOK, Endings
<1>2. TypeOK /\ [Next]_vars => TypeOK'
  <2> SUFFICES ASSUME TypeOK, [Next]_vars
               PROVE  TypeOK'
    OBVIOUS
  <2> DEFINE Types == CallTypes /\ QueueVarTypes /\ PacketTypes /\ LoopTypes /\ ProcessType
  <2>0. Types
    BY TypeParts
  <2> USE FrameTypes, CallStepType DEF Endings
  <2>1. ASSUME NEW th \in Threads, ThreadStep(th) PROVE Types'
    <3>1. CASE LibraryAccepts(th)
      <4>1. /\ sent' = sent + 1 /\ inflight' = inflight \cup {sent + 1} /\ sent < MaxPackets
            /\ pc' = [pc EXCEPT ![th] = "await"] /\ serial' = [serial EXCEPT ![th] = sent + 1]
            /\ UNCHANGED <<op, topic, ended, message_ids, acked, queueVars, loopVars, process>>
        BY <3>1 DEF LibraryAccepts
      <4>2. sent + 1 \in 1..MaxPackets
        BY <2>0, <4>1, ClientAssumption DEF PacketTypes
      <4>3. CallTypes'
        BY <2>0, <4>1, <4>2 DEF CallTypes
      <4>4. PacketTypes'
        BY <2>0, <4>1, <4>2 DEF PacketTypes
      <4> QED BY <4>1, <4>3, <4>4
    <3>2. CASE LibraryRefuses(th)
      BY <3>2 DEF LibraryRefuses
    <3>3. CASE FindMessageId(th)
      <4>1. PacketTypes'
        BY <2>0, <3>3 DEF FindMessageId, PacketTypes
      <4> QED BY <3>3, <4>1 DEF FindMessageId
    <3>4. CASE WaitForMessageId(th)
      BY <3>4 DEF WaitForMessageId
    <3>5. CASE MessageIdTimeout(th)
      BY <3>5 DEF MessageIdTimeout
    <3>6. CASE GetWoken(th)
      <4>1. CASE Front(topic[th]) /\ EndGet(th)
        <5>1. topic[th] \in Topics
          BY <2>0 DEF CallTypes
        <5> QED BY <3>6, <4>1, <5>1, FrontType DEF GetWoken
      <4>2. CASE Goto(th, "blocked") /\ UNCHANGED queueVars
        BY <3>6, <4>2 DEF GetWoken
      <4> QED BY <3>6, <4>1, <4>2 DEF GetWoken
    <3>7. CASE GetErased(th)
      <4>1. CallTypes' /\ ProcessType'
        BY <3>7 DEF GetErased, ProcessType
      <4> QED BY <3>7, <4>1 DEF GetErased
    <3>8. CASE GetTimeout(th)
      <4>1. QueueVarTypes'
        BY <2>0, <3>8 DEF GetTimeout, QueueVarTypes
      <4> QED BY <3>8, <4>1 DEF GetTimeout
    <3> QED BY <2>1, <3>1, <3>2, <3>3, <3>4, <3>5, <3>6, <3>7, <3>8
            DEF ThreadStep
  <2>2. ASSUME NEW th \in Threads, Expire(th) \/ SpuriousWakeup(th)
        PROVE  Types'
    BY <2>2 DEF Expire, SpuriousWakeup
  <2>3. ASSUME NEW th \in Threads, NEW t \in Topics, BeginCall(th, t)
        PROVE  Types'
    <3>1. CASE Subscribe(th, t)
      <4>1. QueueVarTypes'
        BY <2>0, <3>1 DEF Subscribe, QueueVarTypes
      <4> QED BY <3>1, <4>1 DEF Subscribe
    <3>2. CASE Unsubscribe(th, t)
      <4>1. QueueVarTypes'
        BY <2>0, <3>2, EmptySeq DEF Unsubscribe, Receivers, QueueVarTypes
      <4> QED BY <3>2, <4>1 DEF Unsubscribe
    <3>3. CASE Publish(th)
      BY <3>3 DEF Publish
    <3>4. CASE GetAtOnce(th, t)
      BY <3>4, FrontType DEF GetAtOnce
    <3>5. CASE GetBlocks(th, t)
      <4>1. CallTypes'
        BY <2>0, <3>5 DEF GetBlocks, CallTypes
      <4> QED BY <3>5, <4>1 DEF GetBlocks
    <3> QED BY <2>3, <3>1, <3>2, <3>3, <3>4, <3>5 DEF BeginCall
  <2>4. ASSUME LoopStep PROVE Types'
    <3>1. ASSUME NEW s \in inflight, NotifyMessageId(s) PROVE Types'
      <4>1. MidOf(s) \in 1..MaxMid /\ s \in 1..MaxPackets
        BY <2>0, MidType DEF PacketTypes
      <4>2. PacketTypes' /\ ProcessType'
        BY <2>0, <3>1, <4>1 DEF NotifyMessageId, PacketTypes, ProcessType
      <4>3. CallTypes'
        BY <2>0, <3>1 DEF NotifyMessageId, CallTypes, Awake
      <4> QED BY <3>1, <4>2, <4>3 DEF NotifyMessageId
    <3>2. ASSUME NEW t \in Topics, OnMessage(t) PROVE Types'
      <4>1. /\ delivered[t] + 1 \in Nat
            /\ Store(t, delivered[t] + 1)
        BY <2>0, <3>2 DEF OnMessage, LoopTypes
      <4>2. CallTypes' /\ QueueVarTypes'
        BY <4>1, StoreType
      <4>3. LoopTypes'
        BY <2>0, <3>2, <4>1 DEF OnMessage, LoopTypes
      <4> QED BY <3>2, <4>2, <4>3 DEF OnMessage
    <3>3. CASE OnAnnouncement
      <4>1. PacketTypes'
        BY <2>0, <3>3, ClientAssumption DEF OnAnnouncement, PacketTypes
      <4>2. LoopTypes'
        BY <2>0, <3>3, ClientAssumption DEF OnAnnouncement, LoopTypes
      <4> QED BY <3>3, <4>1, <4>2 DEF OnAnnouncement
    <3>4. CASE OnAnnouncementThrows
      <4>1. LoopTypes' /\ ProcessType'
        BY <2>0, <3>4, ClientAssumption DEF OnAnnouncementThrows, LoopTypes, ProcessType
      <4> QED BY <3>4, <4>1 DEF OnAnnouncementThrows
    <3>5. CASE StoreAnnouncement
      <4>1. loop \in Nat /\ Store(Announcement, loop)
        BY <2>0, <3>5 DEF StoreAnnouncement, LoopTypes
      <4>2. CallTypes' /\ QueueVarTypes'
        BY <4>1, StoreType, ClientAssumption
      <4>3. LoopTypes'
        BY <2>0, <3>5 DEF StoreAnnouncement, LoopTypes
      <4> QED BY <3>5, <4>2, <4>3 DEF StoreAnnouncement
    <3> QED BY <2>4, <3>1, <3>2, <3>3, <3>4, <3>5 DEF LoopStep
  <2>5. ASSUME UNCHANGED vars PROVE Types'
    BY <2>5 DEF vars
  <2>6. Types'
    BY <2>1, <2>2, <2>3, <2>4, <2>5 DEF Next
  <2> QED BY <2>6 DEF TypeOK, CallTypes, QueueVarTypes, PacketTypes, LoopTypes, ProcessType
<1> QED BY <1>1, <1>2, PTL DEF Spec
-----------------------------------------------------------------------------
(* No thread sleeps through its acknowledgement or its message, whether or *)
(* not identifiers are reused and however many threads share a topic.      *)
THEOREM WakeupSafety == Spec => []NoLostWakeup
<1>1. Init => NoLostWakeup
  BY DEF Init, NoLostWakeup
<1>2. TypeOK /\ NoLostWakeup /\ [Next]_vars => NoLostWakeup'
  <2> SUFFICES ASSUME TypeOK, NoLostWakeup, [Next]_vars,
                      NEW w \in Threads, pc'[w] = "blocked"
               PROVE  /\ op'[w] = "ack" => MidOf(serial'[w]) \notin message_ids'
                      /\ op'[w] = "message" /\ w \notin dangling'
                           => messages'[topic'[w]] = <<>>
    BY DEF NoLostWakeup, MidOf
  <2> DEFINE Goal ==
        /\ op'[w] = "ack" => MidOf(serial'[w]) \notin message_ids'
        /\ op'[w] = "message" /\ w \notin dangling'
             => messages'[topic'[w]] = <<>>
  <2> USE DEF TypeOK, NoLostWakeup
  <2>1. ASSUME NEW th \in Threads, ThreadStep(th) PROVE Goal
    <3>1. CASE LibraryAccepts(th)
      BY <3>1 DEF LibraryAccepts, queueVars
    <3>2. CASE LibraryRefuses(th)
      BY <3>2 DEF LibraryRefuses, EndCall, queueVars, packetVars
    <3>3. CASE FindMessageId(th)
      BY <3>3 DEF FindMessageId, EndCall, queueVars
    <3>4. CASE WaitForMessageId(th)
      BY <3>4 DEF WaitForMessageId, Goto, queueVars, packetVars
    <3>5. CASE MessageIdTimeout(th)
      BY <3>5 DEF MessageIdTimeout, EndCall, queueVars, packetVars
    <3>6. CASE GetWoken(th)
      <4>1. CASE Front(topic[th]) /\ EndGet(th)
        BY <3>6, <4>1 DEF GetWoken, Front, EndGet, packetVars
      <4>2. CASE messages[topic[th]] = <<>> /\ Goto(th, "blocked") /\ UNCHANGED queueVars
        BY <3>6, <4>2 DEF GetWoken, Goto, queueVars, packetVars
      <4> QED BY <3>6, <4>1, <4>2 DEF GetWoken
    <3>7. CASE GetErased(th)
      BY <3>7 DEF GetErased, Goto, callVars, queueVars, packetVars
    <3>8. CASE GetTimeout(th)
      BY <3>8 DEF GetTimeout, EndGet, packetVars
    <3> QED BY <2>1, <3>1, <3>2, <3>3, <3>4, <3>5, <3>6, <3>7, <3>8
            DEF ThreadStep
  <2>2. ASSUME NEW th \in Threads, Expire(th) \/ SpuriousWakeup(th)
        PROVE  Goal
    BY <2>2 DEF Expire, SpuriousWakeup, Goto, queueVars, packetVars
  <2>3. ASSUME NEW th \in Threads, NEW t \in Topics, BeginCall(th, t)
        PROVE  Goal
    <3>1. CASE Subscribe(th, t)
      BY <3>1 DEF Subscribe, StartCall, packetVars
    <3>2. CASE Unsubscribe(th, t)
      BY <3>2 DEF Unsubscribe, StartCall, Receivers, packetVars
    <3>3. CASE Publish(th)
      BY <3>3 DEF Publish, StartCall, queueVars, packetVars
    <3>4. CASE GetAtOnce(th, t)
      BY <3>4 DEF GetAtOnce, Front, callVars, packetVars
    <3>5. CASE GetBlocks(th, t)
      BY <3>5 DEF GetBlocks, queueVars, packetVars
    <3> QED BY <2>3, <3>1, <3>2, <3>3, <3>4, <3>5 DEF BeginCall
  <2>4. ASSUME LoopStep PROVE Goal
    <3>1. ASSUME NEW s \in inflight, NotifyMessageId(s) PROVE Goal
      BY <3>1 DEF NotifyMessageId, Awake, queueVars
    <3>2. ASSUME NEW t \in Topics, OnMessage(t) PROVE Goal
      BY <3>2 DEF OnMessage, Store, Awake, queueVars, callVars, packetVars
    <3>3. CASE OnAnnouncement
      BY <3>3 DEF OnAnnouncement, callVars, queueVars
    <3>4. CASE OnAnnouncementThrows
      BY <3>4 DEF OnAnnouncementThrows, callVars, queueVars, packetVars
    <3>5. CASE StoreAnnouncement
      BY <3>5 DEF StoreAnnouncement, Store, Awake, queueVars, callVars, packetVars
    <3> QED BY <2>4, <3>1, <3>2, <3>3, <3>4, <3>5 DEF LoopStep
  <2>5. CASE UNCHANGED vars
    BY <2>5 DEF vars, callVars, queueVars, packetVars
  <2> QED BY <2>1, <2>2, <2>3, <2>4, <2>5 DEF Next
<1> QED BY <1>1, <1>2, Typing, PTL DEF Spec
-----------------------------------------------------------------------------
(* The packets behind message_ids_.                                         *)
THEOREM Packets == Spec => []PacketInv
<1>1. Init => PacketInv
  BY DEF Init, PacketInv
<1>2. TypeOK /\ PacketInv /\ [Next]_vars => PacketInv'
  <2> SUFFICES ASSUME TypeOK, PacketInv, [Next]_vars PROVE PacketInv'
    OBVIOUS
  <2> USE DEF TypeOK, PacketInv, MidOf
  <2>1. CASE UNCHANGED <<inflight, acked, sent>> /\ message_ids' \subseteq message_ids
    BY <2>1
  <2>2. ASSUME NEW th \in Threads, ThreadStep(th) PROVE PacketInv'
    <3>1. CASE LibraryAccepts(th)
      BY <3>1, ClientAssumption DEF LibraryAccepts
    <3>2. CASE FindMessageId(th)
      BY <3>2, <2>1 DEF FindMessageId
    <3>3. CASE \/ LibraryRefuses(th) \/ WaitForMessageId(th)
               \/ MessageIdTimeout(th) \/ GetWoken(th) \/ GetErased(th)
               \/ GetTimeout(th)
      BY <3>3, <2>1 DEF LibraryRefuses, WaitForMessageId, MessageIdTimeout,
                        GetWoken, GetErased, GetTimeout, packetVars
    <3> QED BY <2>2, <3>1, <3>2, <3>3 DEF ThreadStep
  <2>3. ASSUME NEW th \in Threads, Expire(th) \/ SpuriousWakeup(th)
        PROVE  PacketInv'
    BY <2>3, <2>1 DEF Expire, SpuriousWakeup, packetVars
  <2>4. ASSUME NEW th \in Threads, NEW t \in Topics, BeginCall(th, t)
        PROVE  PacketInv'
    BY <2>4, <2>1 DEF BeginCall, Subscribe, Unsubscribe, Publish, GetAtOnce,
                      GetBlocks, packetVars
  <2>5. ASSUME LoopStep PROVE PacketInv'
    <3>1. ASSUME NEW s \in inflight, NotifyMessageId(s) PROVE PacketInv'
      <4>1. CASE MidOf(s) \notin message_ids
        BY <3>1, <4>1 DEF NotifyMessageId
      <4>2. CASE MidOf(s) \in message_ids
        BY <3>1, <4>2 DEF NotifyMessageId
      <4> QED BY <4>1, <4>2
    <3>2. CASE OnAnnouncement
      BY <3>2 DEF OnAnnouncement
    <3>3. CASE \/ \E t \in Topics : OnMessage(t)
               \/ OnAnnouncementThrows \/ StoreAnnouncement
      BY <3>3, <2>1 DEF OnMessage, OnAnnouncementThrows, StoreAnnouncement,
                        packetVars
    <3> QED BY <2>5, <3>1, <3>2, <3>3 DEF LoopStep
  <2>6. CASE UNCHANGED vars
    BY <2>6, <2>1 DEF vars, packetVars
  <2> QED BY <2>2, <2>3, <2>4, <2>5, <2>6 DEF Next
<1> QED BY <1>1, <1>2, Typing, PTL DEF Spec

(* NotifyMessageId can only end the process once the library has handed    *)
(* out every identifier: before that, identifiers are packet numbers, and  *)
(* an identifier in message_ids_ is that of a packet already acknowledged. *)
THEOREM DuplicatesNeedReuse == Spec => []DuplicateNeedsReuse
<1>1. Init => DuplicateNeedsReuse
  BY DEF Init, DuplicateNeedsReuse
<1>2. TypeOK /\ PacketInv /\ DuplicateNeedsReuse /\ [Next]_vars
        => DuplicateNeedsReuse'
  <2> SUFFICES ASSUME TypeOK, PacketInv, DuplicateNeedsReuse, [Next]_vars,
                      process' = "duplicate_id"
               PROVE  sent' > MaxMid
    BY DEF DuplicateNeedsReuse
  <2>1. CASE process = "duplicate_id"
    <3>1. UNCHANGED vars
      BY <2>1 DEF Running, Next, ThreadStep, BeginCall, LoopStep,
           LibraryAccepts, LibraryRefuses, FindMessageId, WaitForMessageId,
           MessageIdTimeout, GetWoken, GetErased, GetTimeout, Expire,
           SpuriousWakeup, Subscribe, Unsubscribe, Publish, GetAtOnce,
           GetBlocks, NotifyMessageId, OnMessage, OnAnnouncement,
           OnAnnouncementThrows, StoreAnnouncement
    <3> QED BY <2>1, <3>1 DEF DuplicateNeedsReuse, vars, packetVars
  <2>2. CASE process # "duplicate_id"
    <3>1. PICK s \in inflight : NotifyMessageId(s)
      BY <2>2 DEF Next, ThreadStep, BeginCall, LoopStep, vars,
           LibraryAccepts, LibraryRefuses, FindMessageId, WaitForMessageId,
           MessageIdTimeout, GetWoken, GetErased, GetTimeout, Expire,
           SpuriousWakeup, Subscribe, Unsubscribe, Publish, GetAtOnce,
           GetBlocks, OnMessage, OnAnnouncement, OnAnnouncementThrows,
           StoreAnnouncement
    <3>2. MidOf(s) \in message_ids /\ UNCHANGED sent
      BY <2>2, <3>1 DEF NotifyMessageId
    <3>3. PICK a \in acked : MidOf(a) = MidOf(s)
      BY <3>2 DEF PacketInv
    <3>4. a # s /\ a \in 1..sent /\ s \in 1..sent
      BY <3>1, <3>3 DEF PacketInv
    <3>5. ~(sent <= MaxMid)
      <4> SUFFICES ASSUME sent <= MaxMid PROVE FALSE
        OBVIOUS
      <4>1. a \in 1..MaxMid /\ s \in 1..MaxMid
        BY <3>4, ClientAssumption DEF TypeOK
      <4> QED BY <4>1, <3>3, <3>4, MidIdentity
    <3> QED BY <3>2, <3>5, ClientAssumption DEF TypeOK
  <2> QED BY <2>1, <2>2
<1> QED BY <1>1, <1>2, Typing, Packets, PTL DEF Spec
-----------------------------------------------------------------------------
(* A behaviour in which the library does not come round to an identifier. *)
NoReuse == MaxPackets <= MaxMid

(* As long as no id is reused, an id tells the message. *)
LEMMA MidInjective ==
  ASSUME NoReuse, TypeOK, NEW a \in 1..sent, NEW b \in 1..sent,
         MidOf(a) = MidOf(b)
  PROVE  a = b
<1>1. a \in 1..MaxMid /\ b \in 1..MaxMid
  BY ClientAssumption DEF NoReuse, TypeOK
<1> QED BY <1>1, MidIdentity

(* message_ids_ is an exact account of the waiting calls' acknowledgements. *)
THEOREM CallsAccounted == ASSUME NoReuse PROVE Spec => []CallInv
<1>1. Init => CallInv
  BY DEF Init, CallInv, WaitsForAck
<1>2. TypeOK /\ PacketInv /\ CallInv /\ [Next]_vars => CallInv'
  <2> SUFFICES ASSUME TypeOK, PacketInv, CallInv, [Next]_vars PROVE CallInv'
    OBVIOUS
  <2>0. /\ pc \in [Threads -> {"idle", "call", "await", "blocked", "expired"}]
        /\ op \in [Threads -> {"ack", "message"}]
        /\ serial \in [Threads -> 0..MaxPackets]
        /\ message_ids \subseteq 1..MaxMid /\ acked \subseteq 1..MaxPackets
        /\ sent \in 1..MaxPackets /\ inflight \subseteq 1..MaxPackets
    BY DEF TypeOK
  <2> USE <2>0 DEF CallInv, WaitsForAck
  <2>1. CASE /\ UNCHANGED packetVars
             /\ \A th \in Threads :
                  WaitsForAck(th)' => WaitsForAck(th) /\ serial'[th] = serial[th]
    BY <2>1 DEF packetVars, MidOf
  <2>2. ASSUME NEW th \in Threads, ThreadStep(th) PROVE CallInv'
    <3>1. CASE LibraryAccepts(th)
      <4>1. /\ sent' = sent + 1 /\ UNCHANGED <<acked, message_ids>>
            /\ pc' = [pc EXCEPT ![th] = "await"]
            /\ serial' = [serial EXCEPT ![th] = sent + 1]
            /\ UNCHANGED op
        BY <3>1 DEF LibraryAccepts
      <4>2. sent + 1 \in 1..(sent + 1) /\ sent + 1 \notin acked
        BY ClientAssumption DEF PacketInv
      <4>3. MidOf(sent + 1) \notin message_ids
        <5> SUFFICES ASSUME NEW a \in acked, MidOf(a) = MidOf(sent + 1)
                     PROVE  FALSE
          BY DEF PacketInv
        <5>1. /\ a \in 1..sent /\ a \in 1..MaxMid /\ sent + 1 \in 1..MaxMid
          BY <3>1, ClientAssumption DEF PacketInv, NoReuse, LibraryAccepts
        <5>2. a = sent + 1
          BY <5>1, MidIdentity
        <5> QED BY <5>1, <5>2
      <4>4. \A w \in Threads : WaitsForAck(w)' =>
              /\ serial'[w] \in 1..sent'
              /\ serial'[w] \in acked' <=> MidOf(serial'[w]) \in message_ids'
        <5> SUFFICES ASSUME NEW w \in Threads, WaitsForAck(w)'
                     PROVE  /\ serial'[w] \in 1..sent'
                            /\ serial'[w] \in acked' <=>
                                 MidOf(serial'[w]) \in message_ids'
          OBVIOUS
        <5>1. CASE w = th
          BY <4>1, <4>2, <4>3, <5>1
        <5>2. CASE w # th
          <6>1. WaitsForAck(w) /\ serial'[w] = serial[w]
            BY <4>1, <5>2
          <6> QED BY <4>1, <6>1
        <5> QED BY <5>1, <5>2
      <4>5. \A a, b \in Threads :
              a # b /\ WaitsForAck(a)' /\ WaitsForAck(b)' => serial'[a] # serial'[b]
        <5>1. /\ serial'[th] = sent + 1
              /\ \A w \in Threads \ {th} :
                   /\ serial'[w] = serial[w]
                   /\ WaitsForAck(w)' => WaitsForAck(w)
          BY <4>1
        <5>2. \A w \in Threads \ {th} : WaitsForAck(w)' => serial'[w] # sent + 1
          BY <5>1
        <5> SUFFICES ASSUME NEW a \in Threads, NEW b \in Threads, a # b,
                            WaitsForAck(a)', WaitsForAck(b)'
                     PROVE  serial'[a] # serial'[b]
          OBVIOUS
        <5>3. CASE a = th
          BY <5>1, <5>2, <5>3
        <5>4. CASE b = th
          BY <5>1, <5>2, <5>4
        <5>5. CASE a # th /\ b # th
          BY <5>1, <5>5
        <5> QED BY <5>3, <5>4, <5>5
      <4> QED BY <4>4, <4>5 DEF MidOf
    <3>2. CASE FindMessageId(th)
      <4>1. /\ WaitsForAck(th) /\ ~WaitsForAck(th)'
            /\ UNCHANGED <<sent, acked, op>>
            /\ message_ids' = message_ids \ {MidOf(serial[th])}
            /\ \A w \in Threads \ {th} : pc'[w] = pc[w] /\ serial'[w] = serial[w]
        BY <3>2 DEF FindMessageId, EndCall
      <4>2. ASSUME NEW w \in Threads \ {th}, WaitsForAck(w)
            PROVE  MidOf(serial[w]) # MidOf(serial[th])
        BY <4>1, <4>2, MidInjective
      <4>3. \A w \in Threads : WaitsForAck(w)' =>
              w # th /\ WaitsForAck(w) /\ serial'[w] = serial[w]
        BY <4>1
      <4>4. \A w \in Threads : WaitsForAck(w)' =>
              /\ serial'[w] \in 1..sent'
              /\ serial'[w] \in acked' <=> MidOf(serial'[w]) \in message_ids'
        BY <4>1, <4>2, <4>3
      <4>5. \A a, b \in Threads :
              a # b /\ WaitsForAck(a)' /\ WaitsForAck(b)' => serial'[a] # serial'[b]
        BY <4>3
      <4> HIDE <2>0 DEF WaitsForAck
      <4>6. \A w \in Threads : WaitsForAck(w)' =>
              serial'[w] \in acked' <=> MidOf(serial[w])' \in message_ids'
        BY <4>4 DEF MidOf
      <4> QED BY <4>4, <4>5, <4>6
    <3>3. CASE LibraryRefuses(th)
      BY <3>3, <2>1 DEF LibraryRefuses, EndCall
    <3>4. CASE WaitForMessageId(th)
      BY <3>4, <2>1 DEF WaitForMessageId, Goto
    <3>5. CASE MessageIdTimeout(th)
      BY <3>5, <2>1 DEF MessageIdTimeout, EndCall
    <3>6. CASE GetWoken(th)
      BY <3>6, <2>1 DEF GetWoken, Goto, EndGet
    <3>7. CASE GetErased(th)
      BY <3>7, <2>1 DEF GetErased, Goto, callVars
    <3>8. CASE GetTimeout(th)
      BY <3>8, <2>1 DEF GetTimeout, EndGet
    <3> QED BY <2>2, <3>1, <3>2, <3>3, <3>4, <3>5, <3>6, <3>7, <3>8
            DEF ThreadStep
  <2>3. ASSUME NEW th \in Threads, Expire(th) \/ SpuriousWakeup(th)
        PROVE  CallInv'
    BY <2>3, <2>1 DEF Expire, SpuriousWakeup, Goto
  <2>4. ASSUME NEW th \in Threads, NEW t \in Topics, BeginCall(th, t)
        PROVE  CallInv'
    <3>1. CASE Subscribe(th, t) \/ Unsubscribe(th, t) \/ Publish(th)
      BY <3>1, <2>1 DEF Subscribe, Unsubscribe, Publish, StartCall
    <3>2. CASE GetAtOnce(th, t) \/ GetBlocks(th, t)
      BY <3>2, <2>1 DEF GetAtOnce, GetBlocks, callVars
    <3> QED BY <2>4, <3>1, <3>2 DEF BeginCall
  <2>5. ASSUME LoopStep PROVE CallInv'
    <3>1. ASSUME NEW s \in inflight, NotifyMessageId(s) PROVE CallInv'
      <4>1. CASE MidOf(s) \notin message_ids
        <5>1. /\ message_ids' = message_ids \cup {MidOf(s)}
              /\ acked' = acked \cup {s}
              /\ UNCHANGED <<op, serial, sent>>
              /\ \A th \in Threads : WaitsForAck(th)' => WaitsForAck(th)
          BY <3>1, <4>1 DEF NotifyMessageId, Awake
        <5>2. ASSUME NEW th \in Threads, WaitsForAck(th)
              PROVE  serial[th] = s <=> MidOf(serial[th]) = MidOf(s)
          BY <5>2, MidInjective DEF PacketInv
        <5> QED BY <5>1, <5>2 DEF MidOf
      <4>2. CASE MidOf(s) \in message_ids
        BY <3>1, <4>2 DEF NotifyMessageId, MidOf
      <4> QED BY <4>1, <4>2
    <3>2. ASSUME NEW t \in Topics, OnMessage(t) PROVE CallInv'
      BY <3>2, <2>1 DEF OnMessage, Store, Awake, callVars
    <3>3. CASE OnAnnouncement
      BY <3>3, ClientAssumption DEF OnAnnouncement, callVars, MidOf
    <3>4. CASE OnAnnouncementThrows
      BY <3>4, <2>1 DEF OnAnnouncementThrows, callVars
    <3>5. CASE StoreAnnouncement
      BY <3>5, <2>1 DEF StoreAnnouncement, Store, Awake, callVars
    <3> QED BY <2>5, <3>1, <3>2, <3>3, <3>4, <3>5 DEF LoopStep
  <2>6. CASE UNCHANGED vars
    BY <2>6, <2>1 DEF vars, callVars
  <2> QED BY <2>2, <2>3, <2>4, <2>5, <2>6 DEF Next
<1> QED BY <1>1, <1>2, Typing, Packets, PTL DEF Spec

(* Subscribe, Unsubscribe, Unretain and PublishMessage return only when     *)
(* their own packet was acknowledged and throw "not received in time" only  *)
(* when it was not, as AckedCalls promises, until identifiers are reused.   *)
THEOREM Refinement == ASSUME NoReuse PROVE Spec => ImplementsAckedCalls
<1>1. Init => Abstract!Init
  BY DEF Init, Abstract!Init, CallView, WaitsForAck
<1>2. TypeOK /\ PacketInv /\ CallInv /\ [Next]_vars
        => [Abstract!Next]_(Abstract!vars)
  <2> SUFFICES ASSUME TypeOK, PacketInv, CallInv, [Next]_vars
               PROVE  [Abstract!Next]_(Abstract!vars)
    OBVIOUS
  <2> USE DEF TypeOK, WaitsForAck, CallView
  <2>1. CASE /\ UNCHANGED <<acked, ended>>
             /\ \A th \in Threads :
                  /\ WaitsForAck(th)' = WaitsForAck(th)
                  /\ WaitsForAck(th) => serial'[th] = serial[th]
    BY <2>1 DEF Abstract!vars
  <2>2. ASSUME NEW th \in Threads, ThreadStep(th)
        PROVE  [Abstract!Next]_(Abstract!vars)
    <3>1. CASE LibraryAccepts(th)
      <4>1. sent + 1 \notin acked
        BY DEF PacketInv
      <4>2. /\ pc[th] = "call" /\ pc' = [pc EXCEPT ![th] = "await"]
            /\ serial' = [serial EXCEPT ![th] = sent + 1]
            /\ UNCHANGED <<acked, ended, op>>
        BY <3>1 DEF LibraryAccepts
      <4>3. CASE op[th] = "ack"
        <5>1. CallView[th] = "idle"
              /\ CallView' = [CallView EXCEPT ![th] = "issued"]
          BY <4>1, <4>2, <4>3
        <5> QED BY <4>2, <5>1 DEF Abstract!Next, Abstract!Issue
      <4>4. CASE op[th] # "ack"
        BY <2>1, <4>2, <4>4
      <4> QED BY <4>3, <4>4
    <3>2. CASE LibraryRefuses(th)
      <4>1. CallView[th] = "idle" /\ UNCHANGED CallView
        BY <3>2 DEF LibraryRefuses, EndCall, packetVars
      <4> QED BY <3>2, <4>1
              DEF LibraryRefuses, EndCall, Abstract!Next, Abstract!Refuse
    <3>3. CASE FindMessageId(th)
      <4>1. /\ CallView[th] = "acknowledged"
            /\ CallView' = [CallView EXCEPT ![th] = "idle"]
        BY <3>3 DEF FindMessageId, EndCall, CallInv
      <4> QED BY <3>3, <4>1
              DEF FindMessageId, EndCall, Abstract!Next, Abstract!Succeed
    <3>4. CASE WaitForMessageId(th)
      BY <3>4, <2>1 DEF WaitForMessageId, Goto, packetVars
    <3>5. CASE MessageIdTimeout(th)
      <4>1. /\ CallView[th] = "issued"
            /\ CallView' = [CallView EXCEPT ![th] = "idle"]
        BY <3>5 DEF MessageIdTimeout, EndCall, CallInv, packetVars
      <4> QED BY <3>5, <4>1
              DEF MessageIdTimeout, EndCall, Abstract!Next, Abstract!GiveUp
    <3>6. CASE GetWoken(th)
      BY <3>6, <2>1 DEF GetWoken, Goto, EndGet, packetVars
    <3>7. CASE GetErased(th)
      BY <3>7, <2>1 DEF GetErased, Goto, callVars, packetVars
    <3>8. CASE GetTimeout(th)
      BY <3>8, <2>1 DEF GetTimeout, EndGet, packetVars
    <3> QED BY <2>2, <3>1, <3>2, <3>3, <3>4, <3>5, <3>6, <3>7, <3>8
            DEF ThreadStep
  <2>3. ASSUME NEW th \in Threads, Expire(th) \/ SpuriousWakeup(th)
        PROVE  [Abstract!Next]_(Abstract!vars)
    BY <2>3, <2>1 DEF Expire, SpuriousWakeup, Goto, packetVars
  <2>4. ASSUME NEW th \in Threads, NEW t \in Topics, BeginCall(th, t)
        PROVE  [Abstract!Next]_(Abstract!vars)
    <3>1. CASE Subscribe(th, t) \/ Unsubscribe(th, t) \/ Publish(th)
      BY <3>1, <2>1 DEF Subscribe, Unsubscribe, Publish, StartCall, packetVars
    <3>2. CASE GetAtOnce(th, t) \/ GetBlocks(th, t)
      BY <3>2, <2>1 DEF GetAtOnce, GetBlocks, callVars, packetVars
    <3> QED BY <2>4, <3>1, <3>2 DEF BeginCall
  <2>5. ASSUME LoopStep PROVE [Abstract!Next]_(Abstract!vars)
    <3>1. ASSUME NEW s \in inflight, NotifyMessageId(s)
          PROVE  [Abstract!Next]_(Abstract!vars)
      <4>1. CASE MidOf(s) \notin message_ids
        <5>1. /\ acked' = acked \cup {s} /\ s \notin acked
              /\ UNCHANGED <<ended, op, serial>>
              /\ \A w \in Threads : WaitsForAck(w)' = WaitsForAck(w)
          BY <3>1, <4>1 DEF NotifyMessageId, Awake, PacketInv
        <5>2. CASE \E th \in Threads : WaitsForAck(th) /\ serial[th] = s
          <6>1. PICK th \in Threads : WaitsForAck(th) /\ serial[th] = s
            BY <5>2
          <6>2. /\ CallView[th] = "issued"
                /\ CallView' = [CallView EXCEPT ![th] = "acknowledged"]
            BY <5>1, <6>1 DEF CallInv
          <6> QED BY <5>1, <6>2 DEF Abstract!Next, Abstract!Acknowledge
        <5>3. CASE ~ \E th \in Threads : WaitsForAck(th) /\ serial[th] = s
          <6>1. UNCHANGED CallView
            BY <5>1, <5>3
          <6> QED BY <5>1, <6>1 DEF Abstract!vars
        <5> QED BY <5>2, <5>3
      <4>2. CASE MidOf(s) \in message_ids
        BY <3>1, <4>2, <2>1 DEF NotifyMessageId
      <4> QED BY <4>1, <4>2
    <3>2. ASSUME NEW t \in Topics, OnMessage(t)
          PROVE  [Abstract!Next]_(Abstract!vars)
      BY <3>2, <2>1 DEF OnMessage, Store, Awake, callVars, packetVars
    <3>3. CASE OnAnnouncement
      BY <3>3, <2>1 DEF OnAnnouncement, callVars
    <3>4. CASE OnAnnouncementThrows
      BY <3>4, <2>1 DEF OnAnnouncementThrows, callVars, packetVars
    <3>5. CASE StoreAnnouncement
      BY <3>5, <2>1 DEF StoreAnnouncement, Store, Awake, callVars, packetVars
    <3> QED BY <2>5, <3>1, <3>2, <3>3, <3>4, <3>5 DEF LoopStep
  <2>6. CASE UNCHANGED vars
    BY <2>6, <2>1 DEF vars, callVars, packetVars
  <2> QED BY <2>2, <2>3, <2>4, <2>5, <2>6 DEF Next
<1> QED BY <1>1, <1>2, Typing, Packets, CallsAccounted, PTL
        DEF Spec, ImplementsAckedCalls, Abstract!Spec
-----------------------------------------------------------------------------
(* Queue arithmetic: appending to the end and moving the front across. *)
LEMMA MoveFront ==
  ASSUME NEW S, NEW p \in Seq(S), NEW q \in Seq(S), q # <<>>
  PROVE  Append(p, Head(q)) \o Tail(q) = p \o q
  OBVIOUS

(* What has been taken and what is queued, taken together. *)
LEMMA QueueSteps ==
  ASSUME NEW p \in Seq(Nat), NEW q \in Seq(Nat)
  PROVE  /\ p \o <<>> = p
         /\ \A m \in Nat : Append(p \o q, m) = p \o Append(q, m)
         /\ q # <<>> => Append(p, Head(q)) \o Tail(q) = p \o q
<1>1. p \o <<>> = p
  BY ConcatEmptySeq
<1>2. ASSUME NEW m \in Nat PROVE Append(p \o q, m) = p \o Append(q, m)
  <2>1. /\ Append(p \o q, m) = (p \o q) \o <<m>>
        /\ Append(q, m) = q \o <<m>>
        /\ <<m>> \in Seq(Nat)
    BY AppendIsConcat, ConcatProperties
  <2> QED BY <2>1, ConcatAssociative
<1>3. q # <<>> => Append(p, Head(q)) \o Tail(q) = p \o q
  BY MoveFront
<1> QED BY <1>1, <1>2, <1>3

(* Per topic, receivers are given exactly what on_message stored, in order. *)
THEOREM QueueSafety == Spec => []NothingLost
<1>1. Init => NothingLost
  <2>1. <<>> \o <<>> = <<>>
    BY ConcatEmptySeq, EmptySeq
  <2> QED BY <2>1 DEF Init, NothingLost
<1>2. TypeOK /\ NothingLost /\ [Next]_vars => NothingLost'
  <2> SUFFICES ASSUME TypeOK, NothingLost, [Next]_vars PROVE NothingLost'
    OBVIOUS
  <2> USE DEF TypeOK, NothingLost
  <2>1. CASE UNCHANGED <<kept, taken, messages>>
    BY <2>1
  <2>2. ASSUME NEW t \in Topics, Front(t) PROVE NothingLost'
    <3>1. /\ messages[t] \in Seq(Nat) /\ messages[t] # <<>>
          /\ taken[t] \in Seq(Nat)
      BY <2>2 DEF Front
    <3>2. Append(taken[t], Head(messages[t])) \o Tail(messages[t]) = kept[t]
      BY <3>1, QueueSteps
    <3>3. /\ messages' = [messages EXCEPT ![t] = Tail(messages[t])]
          /\ taken' = [taken EXCEPT ![t] = Append(taken[t], Head(messages[t]))]
          /\ UNCHANGED kept
      BY <2>2 DEF Front
    <3> QED BY <3>2, <3>3
  <2>3. ASSUME NEW t \in Topics, NEW m \in Nat, Store(t, m) PROVE NothingLost'
    <3>1. /\ taken[t] \in Seq(Nat) /\ messages[t] \in Seq(Nat)
          /\ kept[t] = taken[t] \o messages[t]
      OBVIOUS
    <3>2. CASE t \in queues
      <4>1. Append(kept[t], m) = taken[t] \o Append(messages[t], m)
        <5>1. \A p, q \in Seq(Nat) :
                Append(p \o q, m) = p \o Append(q, m)
          BY ONLY QueueSteps, m \in Nat
        <5> QED BY <3>1, <5>1
      <4>2. /\ messages' = [messages EXCEPT ![t] = Append(messages[t], m)]
            /\ kept' = [kept EXCEPT ![t] = Append(kept[t], m)]
            /\ UNCHANGED taken
        BY <2>3, <3>2 DEF Store
      <4> QED BY <4>1, <4>2
    <3>3. CASE t \notin queues
      BY <2>1, <2>3, <3>3 DEF Store, queueVars
    <3> QED BY <3>2, <3>3
  <2>4. ASSUME NEW th \in Threads, ThreadStep(th) PROVE NothingLost'
    <3>1. CASE GetWoken(th)
      BY <3>1, <2>1, <2>2 DEF GetWoken, queueVars
    <3>2. CASE ~GetWoken(th)
      BY <3>2, <2>4, <2>1 DEF ThreadStep, LibraryAccepts, LibraryRefuses,
           FindMessageId, WaitForMessageId, MessageIdTimeout, GetErased,
           GetTimeout, queueVars
    <3> QED BY <3>1, <3>2
  <2>5. ASSUME NEW th \in Threads, Expire(th) \/ SpuriousWakeup(th)
        PROVE  NothingLost'
    BY <2>5, <2>1 DEF Expire, SpuriousWakeup, queueVars
  <2>6. ASSUME NEW th \in Threads, NEW t \in Topics, BeginCall(th, t)
        PROVE  NothingLost'
    <3>1. CASE Unsubscribe(th, t)
      BY <3>1, QueueSteps DEF Unsubscribe
    <3>2. CASE GetAtOnce(th, t)
      BY <3>2, <2>2 DEF GetAtOnce
    <3>3. CASE Subscribe(th, t) \/ Publish(th) \/ GetBlocks(th, t)
      BY <3>3, <2>1 DEF Subscribe, Publish, GetBlocks, queueVars
    <3> QED BY <2>6, <3>1, <3>2, <3>3 DEF BeginCall
  <2>7. ASSUME LoopStep PROVE NothingLost'
    <3>1. ASSUME NEW t \in Topics, OnMessage(t) PROVE NothingLost'
      <4>1. delivered[t] + 1 \in Nat /\ Store(t, delivered[t] + 1)
        BY <3>1 DEF OnMessage
      <4> QED BY <4>1, <2>3
    <3>2. CASE StoreAnnouncement
      BY <3>2, <2>3, ClientAssumption DEF StoreAnnouncement
    <3>3. CASE \/ \E s \in inflight : NotifyMessageId(s)
               \/ OnAnnouncement \/ OnAnnouncementThrows
      BY <3>3, <2>1 DEF NotifyMessageId, OnAnnouncement,
           OnAnnouncementThrows, queueVars
    <3> QED BY <2>7, <3>1, <3>2, <3>3 DEF LoopStep
  <2>8. CASE UNCHANGED vars
    BY <2>8, <2>1 DEF vars, queueVars
  <2> QED BY <2>4, <2>5, <2>6, <2>7, <2>8 DEF Next
<1> QED BY <1>1, <1>2, Typing, PTL DEF Spec
-----------------------------------------------------------------------------
(* Until something ends the process, every announcement the broker         *)
(* delivered is merged and published; the one on_message is handling is    *)
(* published before it is queued.                                          *)
StatusInv ==
  /\ Running => /\ delivered[Announcement] = subscription_status
                /\ retained_status = subscription_status
  /\ loop <= retained_status
  /\ StatusBeforeAnnouncement

(* A step that adds no announcement keeps the status invariant. *)
LEMMA StatusFrame ==
  ASSUME StatusInv,
         UNCHANGED <<loop, retained_status>>,
         \A i \in 1..Len(messages[Announcement])' :
           \E j \in 1..Len(messages[Announcement]) :
             messages'[Announcement][i] = messages[Announcement][j],
         \/ UNCHANGED <<delivered[Announcement], subscription_status, process>>
         \/ ~Running'
  PROVE  StatusInv'
  BY DEF StatusInv, StatusBeforeAnnouncement, Running

(* No announcement can be read whose status is not yet retained, whoever   *)
(* receives, erases or times out meanwhile.                                *)
THEOREM StatusSafety == Spec => []StatusBeforeAnnouncement
<1>1. Init => StatusInv
  BY ClientAssumption DEF Init, StatusInv, StatusBeforeAnnouncement
<1>2. TypeOK /\ TypeOK' /\ StatusInv /\ [Next]_vars => StatusInv'
  <2> SUFFICES ASSUME TypeOK, TypeOK', StatusInv, [Next]_vars PROVE StatusInv'
    OBVIOUS
  <2> DEFINE q == messages[Announcement]
  <2>0. /\ q \in Seq(Nat) /\ q' \in Seq(Nat) /\ Announcement \in Topics
        /\ loop \in Nat /\ retained_status \in Nat /\ subscription_status \in Nat
        /\ delivered \in [Topics -> Nat] /\ messages \in [Topics -> Seq(Nat)]
    BY ClientAssumption DEF TypeOK
  <2> HIDE DEF q
  <2>1. CASE /\ UNCHANGED <<loop, retained_status>>
             /\ q' \in {q, <<>>} \/ (q # <<>> /\ q' = Tail(q))
             /\ \/ UNCHANGED <<delivered[Announcement], subscription_status, process>>
                \/ ~Running'
    <3>1. \A i \in 1..Len(q') : \E j \in 1..Len(q) : q'[i] = q[j]
      <4>1. CASE q' \in {q, <<>>}
        BY <2>0, <4>1
      <4>2. CASE q # <<>> /\ q' = Tail(q)
        BY <2>0, <4>2, HeadTailProperties
      <4> QED BY <2>1, <4>1, <4>2
    <3> QED BY <2>1, <3>1, StatusFrame DEF q
  <2>2. ASSUME NEW th \in Threads, ThreadStep(th) PROVE StatusInv'
    <3>1. CASE Front(topic[th]) /\ UNCHANGED <<loopVars, process>>
      <4>1. q' = q \/ (q # <<>> /\ q' = Tail(q))
        BY <2>0, <3>1 DEF Front, q
      <4> QED BY <2>1, <3>1, <4>1 DEF loopVars
    <3>2. CASE UNCHANGED <<messages, loopVars>> /\ (process' = process \/ ~Running')
      BY <2>1, <3>2 DEF loopVars, q
    <3> QED BY <2>2, <3>1, <3>2
            DEF ThreadStep, LibraryAccepts, LibraryRefuses, FindMessageId,
                WaitForMessageId, MessageIdTimeout, GetWoken, GetErased, GetTimeout,
                queueVars, Running
  <2>3. ASSUME NEW th \in Threads, Expire(th) \/ SpuriousWakeup(th)
        PROVE  StatusInv'
    BY <2>1, <2>3 DEF Expire, SpuriousWakeup, queueVars, loopVars, q
  <2>4. ASSUME NEW th \in Threads, NEW t \in Topics, BeginCall(th, t)
        PROVE  StatusInv'
    <3>1. UNCHANGED <<loopVars, process>>
      BY <2>4 DEF BeginCall, Subscribe, Unsubscribe, Publish, GetAtOnce, GetBlocks
    <3>2. CASE Front(t)
      <4>1. q' = q \/ (q # <<>> /\ q' = Tail(q))
        BY <2>0, <3>2 DEF Front, q
      <4> QED BY <2>1, <3>1, <4>1 DEF loopVars
    <3>3. CASE Unsubscribe(th, t)
      <4>1. q' = q \/ q' = <<>>
        BY <2>0, <3>3 DEF Unsubscribe, q
      <4> QED BY <2>1, <3>1, <4>1 DEF loopVars
    <3>4. CASE UNCHANGED messages
      BY <2>1, <3>1, <3>4 DEF loopVars, q
    <3> QED BY <2>4, <3>2, <3>3, <3>4
            DEF BeginCall, Subscribe, Publish, GetAtOnce, GetBlocks, queueVars
  <2>5. ASSUME LoopStep PROVE StatusInv'
    <3>1. ASSUME NEW s \in inflight, NotifyMessageId(s) PROVE StatusInv'
      BY <2>1, <3>1 DEF NotifyMessageId, Running, queueVars, loopVars, q
    <3>2. ASSUME NEW t \in Topics, OnMessage(t) PROVE StatusInv'
      <4>1. t # Announcement /\ UNCHANGED delivered[Announcement]
        BY <2>0, <3>2 DEF OnMessage
      <4>2. q' = q
        BY <2>0, <3>2, <4>1 DEF OnMessage, Store, queueVars, q
      <4> QED BY <2>1, <3>2, <4>1, <4>2 DEF OnMessage
    <3>3. CASE OnAnnouncement
      <4>1. /\ Running /\ UNCHANGED process /\ q' = q
            /\ delivered'[Announcement] = delivered[Announcement] + 1
            /\ subscription_status' = subscription_status + 1
            /\ retained_status' = subscription_status + 1
            /\ loop' = delivered[Announcement] + 1
        BY <2>0, <3>3 DEF OnAnnouncement, queueVars, q
      <4>2. \A i \in 1..Len(q) : q[i] \in Nat /\ q[i] <= retained_status
        BY <2>0 DEF StatusInv, StatusBeforeAnnouncement, q
      <4>3. StatusBeforeAnnouncement'
        <5>1. retained_status' = retained_status + 1
          BY <4>1 DEF StatusInv
        <5>2. \A i \in 1..Len(q') : q'[i] <= retained_status'
          BY <2>0, <4>1, <4>2, <5>1
        <5> QED BY <5>2 DEF StatusBeforeAnnouncement, q
      <4> QED BY <2>0, <4>1, <4>3 DEF StatusInv, Running
    <3>4. CASE OnAnnouncementThrows
      BY <2>1, <3>4 DEF OnAnnouncementThrows, queueVars, Running, q
    <3>5. CASE StoreAnnouncement
      <4>1. /\ UNCHANGED <<subscription_status, delivered, retained_status, process>>
            /\ loop' = 0
        BY <3>5 DEF StoreAnnouncement
      <4>2. q' = q \/ q' = Append(q, loop)
        BY <2>0, <3>5 DEF StoreAnnouncement, Store, queueVars, q
      <4>3. \A i \in 1..Len(q) : q[i] <= retained_status
        BY DEF StatusInv, StatusBeforeAnnouncement, q
      <4>4. \A i \in 1..Len(q') : q'[i] <= retained_status
        <5>1. CASE q' = q
          BY <4>3, <5>1
        <5>2. CASE q' = Append(q, loop)
          <6> SUFFICES ASSUME NEW i \in 1..Len(q') PROVE q'[i] <= retained_status
            OBVIOUS
          <6>1. Len(q') = Len(q) + 1 /\ Len(q) \in Nat
            BY <2>0, <5>2
          <6>2. CASE i = Len(q) + 1
            <7>1. q'[i] = loop
              BY <2>0, <5>2, <6>2
            <7> QED BY <7>1 DEF StatusInv
          <6>3. CASE i \in 1..Len(q)
            <7>1. q'[i] = q[i]
              BY <2>0, <5>2, <6>3
            <7> QED BY <4>3, <6>3, <7>1
          <6> QED BY <6>1, <6>2, <6>3
        <5> QED BY <4>2, <5>1, <5>2
      <4>5. StatusBeforeAnnouncement'
        BY <4>1, <4>4 DEF StatusBeforeAnnouncement, q
      <4> QED BY <2>0, <4>1, <4>5 DEF StatusInv, Running
    <3> QED BY <2>5, <3>1, <3>2, <3>3, <3>4, <3>5 DEF LoopStep
  <2>6. CASE UNCHANGED vars
    BY <2>1, <2>6 DEF vars, queueVars, loopVars, q
  <2> QED BY <2>2, <2>3, <2>4, <2>5, <2>6 DEF Next
<1>3. StatusInv => StatusBeforeAnnouncement
  BY DEF StatusInv
<1> QED BY <1>1, <1>2, <1>3, Typing, PTL DEF Spec
-----------------------------------------------------------------------------
(* A waiting call has a packet of its own, and while its acknowledgement   *)
(* is not in message_ids_, it did not come or the identifier was shared.   *)
ShareInv ==
  /\ \A th \in Threads : WaitsForAck(th) =>
       /\ serial[th] \in 1..sent
       /\ serial[th] \in acked /\ MidOf(serial[th]) \notin message_ids
            => Namesakes(th) # {}
  /\ \A a, b \in Threads :
       a # b /\ WaitsForAck(a) /\ WaitsForAck(b) => serial[a] # serial[b]

(* Steps that take no packet and no identifier away keep ShareInv. *)
LEMMA ShareFrame ==
  ASSUME ShareInv, UNCHANGED sent,
         \A th \in Threads :
           WaitsForAck(th)' =>
             /\ WaitsForAck(th) /\ serial'[th] = serial[th]
             /\ serial[th] \in acked' /\ MidOf(serial[th]) \notin message_ids'
                  => \/ serial[th] \in acked /\ MidOf(serial[th]) \notin message_ids
                     \/ Namesakes(th) # {}
  PROVE  ShareInv'
<1> USE DEF ShareInv
<1>1. ASSUME NEW th \in Threads, WaitsForAck(th)'
      PROVE  /\ serial'[th] \in 1..sent'
             /\ serial'[th] \in acked' /\ MidOf(serial[th])' \notin message_ids'
                  => Namesakes(th)' # {}
  <2>1. serial'[th] = serial[th] /\ WaitsForAck(th)
    BY <1>1
  <2>2. Namesakes(th)' = Namesakes(th) /\ MidOf(serial[th])' = MidOf(serial[th])
    BY <2>1 DEF Namesakes, MidOf
  <2> QED BY <1>1, <2>1, <2>2
<1>2. \A a, b \in Threads :
        a # b /\ WaitsForAck(a)' /\ WaitsForAck(b)' => serial'[a] # serial'[b]
  OBVIOUS
<1> QED BY <1>1, <1>2

(* ShareInv holds in every reachable state, reuse or not. *)
LEMMA Shares == Spec => []ShareInv
<1>1. Init => ShareInv
  BY DEF Init, ShareInv, WaitsForAck
<1>2. TypeOK /\ PacketInv /\ ShareInv /\ [Next]_vars => ShareInv'
  <2> SUFFICES ASSUME TypeOK, PacketInv, ShareInv, [Next]_vars PROVE ShareInv'
    OBVIOUS
  <2>0. /\ pc \in [Threads -> {"idle", "call", "await", "blocked", "expired"}]
        /\ op \in [Threads -> {"ack", "message"}]
        /\ serial \in [Threads -> 0..MaxPackets]
        /\ sent \in Nat
    BY ClientAssumption DEF TypeOK
  <2>1. CASE /\ UNCHANGED packetVars
             /\ \A th \in Threads :
                  WaitsForAck(th)' => WaitsForAck(th) /\ serial'[th] = serial[th]
    BY <2>1, ShareFrame DEF packetVars
  <2> USE DEF WaitsForAck
  <2>2. ASSUME NEW th \in Threads, ThreadStep(th) PROVE ShareInv'
    <3>1. CASE LibraryAccepts(th)
      <4>1. /\ sent' = sent + 1 /\ UNCHANGED <<acked, message_ids, op>>
            /\ pc' = [pc EXCEPT ![th] = "await"]
            /\ serial' = [serial EXCEPT ![th] = sent + 1]
        BY <3>1 DEF LibraryAccepts
      <4>2. sent + 1 \in 1..(sent + 1) /\ sent + 1 \notin acked
        BY <2>0 DEF PacketInv
      <4>3. /\ serial'[th] = sent + 1
            /\ \A w \in Threads \ {th} :
                 /\ serial'[w] = serial[w]
                 /\ WaitsForAck(w)' => WaitsForAck(w)
        BY <2>0, <4>1
      <4>4. \A w \in Threads \ {th} :
              WaitsForAck(w)' => serial[w] \in 1..sent
        BY <4>3 DEF ShareInv
      <4>5. ASSUME NEW w \in Threads, WaitsForAck(w)'
            PROVE  /\ serial'[w] \in 1..sent'
                   /\ serial'[w] \in acked' /\ MidOf(serial[w])' \notin message_ids'
                        => Namesakes(w)' # {}
        <5>1. CASE w = th
          BY <4>1, <4>2, <4>3, <5>1
        <5>2. CASE w # th
          <6>1. WaitsForAck(w) /\ serial'[w] = serial[w] /\ serial[w] \in 1..sent
            BY <4>3, <4>4, <4>5, <5>2
          <6>2. Namesakes(w) \subseteq Namesakes(w)' /\ MidOf(serial[w])' = MidOf(serial[w])
            BY <2>0, <4>1, <6>1 DEF Namesakes, MidOf
          <6> QED BY <2>0, <4>1, <6>1, <6>2 DEF ShareInv
        <5> QED BY <5>1, <5>2
      <4>6. ASSUME NEW a \in Threads, NEW b \in Threads, a # b,
                   WaitsForAck(a)', WaitsForAck(b)'
            PROVE  serial'[a] # serial'[b]
        <5>1. CASE a = th \/ b = th
          BY <2>0, <4>3, <4>4, <4>6, <5>1
        <5>2. CASE a # th /\ b # th
          BY <4>3, <4>6, <5>2 DEF ShareInv
        <5> QED BY <5>1, <5>2
      <4> QED BY <4>5, <4>6 DEF ShareInv
    <3>2. CASE FindMessageId(th)
      <4>1. /\ WaitsForAck(th) /\ ~WaitsForAck(th)'
            /\ UNCHANGED <<sent, acked, op>>
            /\ message_ids' = message_ids \ {MidOf(serial[th])}
            /\ \A w \in Threads \ {th} : pc'[w] = pc[w] /\ serial'[w] = serial[w]
        BY <2>0, <3>2 DEF FindMessageId, EndCall
      <4>2. ASSUME NEW w \in Threads \ {th}, WaitsForAck(w),
                   MidOf(serial[w]) = MidOf(serial[th])
            PROVE  Namesakes(w) # {}
        <5>1. serial[th] \in 1..sent /\ serial[th] # serial[w]
          BY <4>1, <4>2 DEF ShareInv
        <5> QED BY <4>2, <5>1 DEF Namesakes
      <4>3. ASSUME NEW w \in Threads, WaitsForAck(w)'
            PROVE  w # th /\ WaitsForAck(w) /\ serial'[w] = serial[w]
        BY <4>1, <4>3
      <4> QED BY <4>1, <4>2, <4>3, ShareFrame
    <3>3. CASE LibraryRefuses(th)
      BY <2>0, <3>3, <2>1 DEF LibraryRefuses, EndCall
    <3>4. CASE WaitForMessageId(th)
      BY <2>0, <3>4, <2>1 DEF WaitForMessageId, Goto
    <3>5. CASE MessageIdTimeout(th)
      BY <2>0, <3>5, <2>1 DEF MessageIdTimeout, EndCall
    <3>6. CASE GetWoken(th)
      BY <2>0, <3>6, <2>1 DEF GetWoken, Goto, EndGet
    <3>7. CASE GetErased(th)
      BY <2>0, <3>7, <2>1 DEF GetErased, Goto, callVars
    <3>8. CASE GetTimeout(th)
      BY <2>0, <3>8, <2>1 DEF GetTimeout, EndGet
    <3> QED BY <2>2, <3>1, <3>2, <3>3, <3>4, <3>5, <3>6, <3>7, <3>8
            DEF ThreadStep
  <2>3. ASSUME NEW th \in Threads, Expire(th) \/ SpuriousWakeup(th)
        PROVE  ShareInv'
    BY <2>0, <2>3, <2>1 DEF Expire, SpuriousWakeup, Goto
  <2>4. ASSUME NEW th \in Threads, NEW t \in Topics, BeginCall(th, t)
        PROVE  ShareInv'
    <3>1. CASE Subscribe(th, t) \/ Unsubscribe(th, t) \/ Publish(th)
      BY <2>0, <3>1, <2>1 DEF Subscribe, Unsubscribe, Publish, StartCall
    <3>2. CASE GetAtOnce(th, t)
      BY <2>0, <3>2, <2>1 DEF GetAtOnce, callVars
    <3>3. CASE GetBlocks(th, t)
      BY <2>0, <3>3, <2>1 DEF GetBlocks
    <3> QED BY <2>4, <3>1, <3>2, <3>3 DEF BeginCall
  <2>5. ASSUME LoopStep PROVE ShareInv'
    <3>1. ASSUME NEW s \in inflight, NotifyMessageId(s) PROVE ShareInv'
      <4>1. \A w \in Threads :
              WaitsForAck(w)' => WaitsForAck(w) /\ serial'[w] = serial[w]
        BY <2>0, <3>1 DEF NotifyMessageId, Awake
      <4>2. CASE MidOf(s) \notin message_ids
        <5>1. /\ message_ids' = message_ids \cup {MidOf(s)}
              /\ acked' = acked \cup {s} /\ UNCHANGED sent
          BY <3>1, <4>2 DEF NotifyMessageId
        <5>2. \A w \in Threads : MidOf(serial[w]) \notin message_ids'
                => serial[w] # s /\ MidOf(serial[w]) \notin message_ids
          BY <5>1
        <5> HIDE DEF WaitsForAck
        <5> QED BY <4>1, <5>1, <5>2, ShareFrame
      <4>3. CASE MidOf(s) \in message_ids
        <5>1. UNCHANGED <<message_ids, acked, sent>>
          BY <3>1, <4>3 DEF NotifyMessageId
        <5> HIDE DEF WaitsForAck
        <5> QED BY <4>1, <5>1, ShareFrame
      <4> QED BY <4>2, <4>3
    <3>2. ASSUME NEW t \in Topics, OnMessage(t) PROVE ShareInv'
      BY <2>0, <3>2, <2>1 DEF OnMessage, Store, Awake, callVars
    <3>3. CASE OnAnnouncement
      <4>1. /\ sent' = sent + 1 /\ UNCHANGED <<acked, message_ids, op, pc, serial>>
        BY <3>3 DEF OnAnnouncement, callVars
      <4>2. ASSUME NEW w \in Threads, WaitsForAck(w)'
            PROVE  /\ serial'[w] \in 1..sent'
                   /\ serial'[w] \in acked' /\ MidOf(serial[w])' \notin message_ids'
                        => Namesakes(w)' # {}
        <5>1. WaitsForAck(w) /\ serial[w] \in 1..sent
          BY <4>1, <4>2 DEF ShareInv
        <5>2. Namesakes(w) \subseteq Namesakes(w)' /\ MidOf(serial[w])' = MidOf(serial[w])
          BY <2>0, <4>1, <5>1 DEF Namesakes, MidOf
        <5> QED BY <2>0, <4>1, <5>1, <5>2 DEF ShareInv
      <4> QED BY <4>1, <4>2 DEF ShareInv
    <3>4. CASE OnAnnouncementThrows
      BY <2>0, <3>4, <2>1 DEF OnAnnouncementThrows, callVars
    <3>5. CASE StoreAnnouncement
      BY <2>0, <3>5, <2>1 DEF StoreAnnouncement, Store, Awake, callVars
    <3> QED BY <2>5, <3>1, <3>2, <3>3, <3>4, <3>5 DEF LoopStep
  <2>6. CASE UNCHANGED vars
    BY <2>6, <2>1 DEF vars, callVars
  <2> QED BY <2>2, <2>3, <2>4, <2>5, <2>6 DEF Next
<1> QED BY <1>1, <1>2, Typing, Packets, PTL DEF Spec

(* However often the identifiers are reused: a call answers only to the    *)
(* acknowledgement of a packet with its identifier, and misses its own     *)
(* only when another packet had the same identifier.                       *)
THEOREM AnswerSafety == Spec => OwnOrReused
<1> DEFINE Answer(th) ==
      WaitsForAck(th) /\ pc'[th] = "idle" =>
        /\ ended'[th] = "ok" =>
             serial[th] \in acked \/ Namesakes(th) \cap acked # {}
        /\ ended'[th] = "timeout" =>
             serial[th] \notin acked \/ Namesakes(th) # {}
<1>1. TypeOK /\ PacketInv /\ ShareInv /\ [Next]_vars
        => [\A th \in Threads : Answer(th)]_vars
  <2> SUFFICES ASSUME TypeOK, PacketInv, ShareInv, Next,
                      NEW th \in Threads, WaitsForAck(th), pc'[th] = "idle"
               PROVE  Answer(th)
    OBVIOUS
  <2>0. /\ pc \in [Threads -> {"idle", "call", "await", "blocked", "expired"}]
        /\ op \in [Threads -> {"ack", "message"}]
        /\ ended \in [Threads -> Endings]
        /\ pc[th] # "idle" /\ op[th] = "ack"
    BY DEF TypeOK, WaitsForAck
  <2>1. FindMessageId(th) \/ MessageIdTimeout(th)
    <3>1. \A w \in Threads : ThreadStep(w) => FindMessageId(th) \/ MessageIdTimeout(th)
      <4> SUFFICES ASSUME NEW w \in Threads, ThreadStep(w)
                   PROVE  FindMessageId(th) \/ MessageIdTimeout(th)
        OBVIOUS
      <4>1. CASE w # th
        BY <2>0, <4>1 DEF ThreadStep, LibraryAccepts, LibraryRefuses, FindMessageId,
             WaitForMessageId, MessageIdTimeout, GetWoken, GetErased, GetTimeout,
             EndCall, EndGet, Goto, callVars
      <4>2. CASE w = th
        BY <2>0, <4>2 DEF ThreadStep, LibraryAccepts, LibraryRefuses,
             WaitForMessageId, GetWoken, GetErased, GetTimeout, Goto, WaitsForAck
      <4> QED BY <4>1, <4>2
    <3>2. \A w \in Threads : ~(Expire(w) \/ SpuriousWakeup(w))
      BY <2>0 DEF Expire, SpuriousWakeup, Goto
    <3>3. \A w \in Threads, t \in Topics : ~BeginCall(w, t)
      BY <2>0 DEF BeginCall, Subscribe, Unsubscribe, Publish, GetAtOnce, GetBlocks,
           StartCall, callVars
    <3>4. ~LoopStep
      BY <2>0 DEF LoopStep, NotifyMessageId, OnMessage, OnAnnouncement,
           OnAnnouncementThrows, StoreAnnouncement, Store, Awake, callVars
    <3> QED BY <3>1, <3>2, <3>3, <3>4 DEF Next
  <2>2. CASE FindMessageId(th)
    <3>1. ended'[th] = "ok" /\ MidOf(serial[th]) \in message_ids
      BY <2>0, <2>2 DEF FindMessageId, EndCall
    <3>2. PICK s \in acked : MidOf(s) = MidOf(serial[th])
      BY <3>1 DEF PacketInv
    <3> QED BY <3>1, <3>2 DEF PacketInv, Namesakes
  <2>3. CASE MessageIdTimeout(th)
    <3>1. ended'[th] = "timeout" /\ MidOf(serial[th]) \notin message_ids
      BY <2>0, <2>3 DEF MessageIdTimeout, EndCall
    <3> QED BY <3>1 DEF ShareInv
  <2> QED BY <2>1, <2>2, <2>3
<1> QED BY <1>1, Typing, Packets, Shares, PTL DEF Spec, OwnOrReused
=============================================================================
