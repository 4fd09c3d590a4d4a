----------------------------- MODULE MqttClient -----------------------------
(***************************************************************************)
(* mqtt_util::Client (mqtt_util/src/Client.cpp): application threads call  *)
(* Subscribe, Unsubscribe, Unretain, PublishMessage and GetLapiMessage;    *)
(* the loop thread of the mosquitto library calls on_subscribe,            *)
(* on_unsubscribe, on_publish and on_message.  The two sides share         *)
(* messages_ and message_ids_ under mutex_ and one condition variable.     *)
(*                                                                         *)
(* A critical section of mutex_ is one action: everything it reads and     *)
(* writes is guarded by that mutex.  Library calls are actions of their    *)
(* own.  Topics are the names the library sees (GetLapiTopic applied); a   *)
(* message is its number in the broker's order on its topic; a packet is   *)
(* its number in the order the library sent them, so that packets whose    *)
(* message identifier is the same stay distinguishable to the properties.  *)
(***************************************************************************)
EXTENDS Naturals, Sequences

CONSTANTS
  Threads,       \* the application's threads
  Topics,        \* the topics of this client
  Announcement,  \* ecu::lapi::com::ANNOUNCEMENT_TOPIC
  Uses,          \* the topics each thread subscribes, unsubscribes, receives
  MaxMid,        \* message identifiers are 1..MaxMid (65535 in the library)
  MaxPackets,    \* bound: packets the library sends in a behaviour
  MaxMessages    \* bound: messages the broker delivers on each topic

ASSUME ClientAssumption ==
  /\ Announcement \in Topics
  /\ Uses \in [Threads -> SUBSET Topics]
  /\ MaxMid \in Nat \ {0}
  /\ MaxPackets \in Nat \ {0}
  /\ MaxMessages \in Nat

VARIABLES
  pc,                  \* where each thread is inside its call
  op,                  \* what the call waits for: "ack" or "message"
  topic,               \* the topic a thread receives from
  serial,              \* the packet of the call, once the library took it
  ended,               \* how the thread's last acknowledged call ended
  queues,              \* the keys of messages_
  messages,            \* the deques of messages_ (empty for an absent key)
  message_ids,         \* message_ids_
  subscription_status, \* announcements merged into subscription_status_
  loop,                \* the announcement on_message is handling, or 0
  process,             \* "running", or why std::terminate or a fault ended it
  sent,                \* packets the library sent
  inflight,            \* packets whose callback has not run
  delivered,           \* messages the broker delivered, per topic
  retained_status,     \* the last status published to IPC_SUBSCRIPTIONS_TOPIC
  acked,               \* history: packets whose callback ran
  kept,                \* history: messages put in the current queue of a topic
  taken,               \* history: those of them receivers were given
  dangling             \* history: receivers whose queue has been erased

callVars == <<pc, op, topic, serial, ended>>
queueVars == <<queues, messages, kept, taken, dangling>>
packetVars == <<message_ids, sent, inflight, acked>>
loopVars == <<subscription_status, loop, delivered, retained_status>>
vars == <<callVars, queueVars, packetVars, loopVars, process>>

Endings == {"none", "ok", "timeout", "refused"}

TypeOK ==
  /\ pc \in [Threads -> {"idle", "call", "await", "blocked", "expired"}]
  /\ op \in [Threads -> {"ack", "message"}]
  /\ topic \in [Threads -> Topics]
  /\ serial \in [Threads -> 0..MaxPackets]
  /\ ended \in [Threads -> Endings]
  /\ queues \subseteq Topics
  /\ messages \in [Topics -> Seq(Nat)]
  /\ message_ids \subseteq 1..MaxMid
  /\ subscription_status \in Nat
  /\ loop \in Nat
  /\ process \in {"running", "duplicate_id", "bad_announcement",
                  "publish_refused", "use_after_free"}
  /\ sent \in 1..MaxPackets
  /\ inflight \subseteq 1..MaxPackets
  /\ delivered \in [Topics -> Nat]
  /\ retained_status \in Nat
  /\ acked \subseteq 1..MaxPackets
  /\ kept \in [Topics -> Seq(Nat)]
  /\ taken \in [Topics -> Seq(Nat)]
  /\ dangling \subseteq Threads

(* The state the constructor leaves: subscribed to ANNOUNCEMENT_TOPIC with *)
(* the first packet, whose identifier Subscribe has already consumed.      *)
Init ==
  /\ pc = [th \in Threads |-> "idle"]
  /\ op = [th \in Threads |-> "ack"]
  /\ topic = [th \in Threads |-> Announcement]
  /\ serial = [th \in Threads |-> 0]
  /\ ended = [th \in Threads |-> "none"]
  /\ queues = {Announcement}
  /\ messages = [t \in Topics |-> <<>>]
  /\ message_ids = {}
  /\ subscription_status = 0
  /\ loop = 0
  /\ process = "running"
  /\ sent = 1
  /\ inflight = {}
  /\ delivered = [t \in Topics |-> 0]
  /\ retained_status = 0
  /\ acked = {1}
  /\ kept = [t \in Topics |-> <<>>]
  /\ taken = [t \in Topics |-> <<>>]
  /\ dangling = {}
-----------------------------------------------------------------------------
(* mutant: the identifiers do not start over *)
MidWithoutWrap(s) == s

(* The library numbers packets 1..MaxMid and starts over. *)
MidOf(s) == ((s - 1) % MaxMid) + 1

(* cond_var_.notify_all(): every blocked thread tests its condition again. *)
Awake == [th \in Threads |-> IF pc[th] = "blocked" THEN "await" ELSE pc[th]]

(* Threads inside GetLapiMessage(t): they hold a reference to its queue. *)
Receivers(t) ==
  {th \in Threads : op[th] = "message" /\ topic[th] = t /\ pc[th] # "idle"}

WaitsForAck(th) ==
  op[th] = "ack" /\ pc[th] \in {"await", "blocked", "expired"}

Running == process = "running"

StartCall(th) ==
  /\ pc[th] = "idle"
  /\ pc' = [pc EXCEPT ![th] = "call"]
  /\ UNCHANGED <<op, topic, serial, ended>>

EndCall(th, how) ==
  /\ pc' = [pc EXCEPT ![th] = "idle"]
  /\ serial' = [serial EXCEPT ![th] = 0]
  /\ ended' = [ended EXCEPT ![th] = how]
  /\ UNCHANGED <<op, topic>>

EndGet(th) ==
  /\ pc' = [pc EXCEPT ![th] = "idle"]
  /\ op' = [op EXCEPT ![th] = "ack"]
  /\ topic' = [topic EXCEPT ![th] = Announcement]
  /\ UNCHANGED <<serial, ended>>

Goto(th, where) ==
  /\ pc' = [pc EXCEPT ![th] = where]
  /\ UNCHANGED <<op, topic, serial, ended>>
-----------------------------------------------------------------------------
(* mutant: the new queue replaces an existing one *)
SubscribeOverwrites(th, t) ==
  /\ Running
  /\ t \in Uses[th]
  /\ StartCall(th)
  /\ queues' = queues \cup {t}
  /\ messages' = [messages EXCEPT ![t] = <<>>]
  /\ UNCHANGED <<kept, taken, dangling, packetVars, loopVars, process>>

(* Subscribe up to the library call: an existing queue is left alone. *)
Subscribe(th, t) ==
  /\ Running
  /\ t \in Uses[th]
  /\ StartCall(th)
  /\ queues' = queues \cup {t}
  /\ UNCHANGED <<messages, kept, taken, dangling, packetVars, loopVars, process>>

(* Unsubscribe up to the library call: the queue goes with all it holds,   *)
(* also under a receiver that is blocked on it.                            *)
Unsubscribe(th, t) ==
  /\ Running
  /\ t \in Uses[th]
  /\ StartCall(th)
  /\ queues' = queues \ {t}
  /\ messages' = [messages EXCEPT ![t] = <<>>]
  /\ kept' = [kept EXCEPT ![t] = taken[t]]
  /\ dangling' = dangling \cup Receivers(t)
  /\ UNCHANGED <<taken, packetVars, loopVars, process>>

(* Unretain and PublishMessage touch no shared state before the library. *)
Publish(th) ==
  /\ Running
  /\ StartCall(th)
  /\ UNCHANGED <<queueVars, packetVars, loopVars, process>>

(* subscribe(), unsubscribe() or publish() of the library succeeds. *)
LibraryAccepts(th) ==
  /\ Running
  /\ pc[th] = "call"
  /\ sent < MaxPackets
  /\ sent' = sent + 1
  /\ inflight' = inflight \cup {sent + 1}
  /\ pc' = [pc EXCEPT ![th] = "await"]
  /\ serial' = [serial EXCEPT ![th] = sent + 1]
  /\ UNCHANGED <<op, topic, ended, message_ids, acked>>
  /\ UNCHANGED <<queueVars, loopVars, process>>

(* It fails: the call throws, and what it did to messages_ stays. *)
LibraryRefuses(th) ==
  /\ Running
  /\ pc[th] = "call"
  /\ EndCall(th, "refused")
  /\ UNCHANGED <<queueVars, packetVars, loopVars, process>>

(* WaitForMessageId finds the identifier, in time or in the last test      *)
(* after the deadline, and erases it.                                      *)
FindMessageId(th) ==
  /\ Running
  /\ op[th] = "ack"
  /\ pc[th] \in {"await", "expired"}
  /\ MidOf(serial[th]) \in message_ids
  /\ message_ids' = message_ids \ {MidOf(serial[th])}
  /\ EndCall(th, "ok")
  /\ UNCHANGED <<sent, inflight, acked, queueVars, loopVars, process>>

WaitForMessageId(th) ==
  /\ Running
  /\ op[th] = "ack"
  /\ pc[th] = "await"
  /\ MidOf(serial[th]) \notin message_ids
  /\ Goto(th, "blocked")
  /\ UNCHANGED <<queueVars, packetVars, loopVars, process>>

(* mutant: the deadline decides, without the last look *)
TimeoutWithoutLook(th) ==
  /\ Running
  /\ op[th] = "ack"
  /\ pc[th] = "expired"
  /\ EndCall(th, "timeout")
  /\ UNCHANGED <<queueVars, packetVars, loopVars, process>>

(* "Message ID not received in time": nothing remembers the packet. *)
MessageIdTimeout(th) ==
  /\ Running
  /\ op[th] = "ack"
  /\ pc[th] = "expired"
  /\ MidOf(serial[th]) \notin message_ids
  /\ EndCall(th, "timeout")
  /\ UNCHANGED <<queueVars, packetVars, loopVars, process>>
-----------------------------------------------------------------------------
Front(t) ==
  /\ messages[t] # <<>>
  /\ messages' = [messages EXCEPT ![t] = Tail(@)]
  /\ taken' = [taken EXCEPT ![t] = Append(@, Head(messages[t]))]
  /\ UNCHANGED <<queues, kept, dangling>>

(* GetLapiMessage with a message at hand.  Without a queue it returns      *)
(* empty-handed at once and changes nothing.                               *)
GetAtOnce(th, t) ==
  /\ Running
  /\ pc[th] = "idle" /\ t \in Uses[th] \cap queues
  /\ Front(t)
  /\ UNCHANGED <<callVars, packetVars, loopVars, process>>

GetBlocks(th, t) ==
  /\ Running
  /\ pc[th] = "idle" /\ t \in Uses[th] \cap queues
  /\ messages[t] = <<>>
  /\ pc' = [pc EXCEPT ![th] = "blocked"]
  /\ op' = [op EXCEPT ![th] = "message"]
  /\ topic' = [topic EXCEPT ![th] = t]
  /\ UNCHANGED <<serial, ended, queueVars, packetVars, loopVars, process>>

(* The wait reported no_timeout: the loop looks at its queue again. *)
GetWoken(th) ==
  /\ Running
  /\ op[th] = "message" /\ pc[th] = "await" /\ th \notin dangling
  /\ \/ Front(topic[th]) /\ EndGet(th)
     \/ /\ messages[topic[th]] = <<>>
        /\ Goto(th, "blocked")
        /\ UNCHANGED queueVars
  /\ UNCHANGED <<packetVars, loopVars, process>>

(* The same through a reference to an erased queue: undefined, so the      *)
(* freed deque may look empty, or the program does not survive.            *)
GetErased(th) ==
  /\ Running
  /\ op[th] = "message" /\ pc[th] = "await" /\ th \in dangling
  /\ \/ Goto(th, "blocked") /\ UNCHANGED process
     \/ process' = "use_after_free" /\ UNCHANGED callVars
  /\ UNCHANGED <<queueVars, packetVars, loopVars>>

(* The wait reported timeout: nothing is returned, and the queue is not    *)
(* looked at, even if a message came with the deadline.                    *)
GetTimeout(th) ==
  /\ Running
  /\ op[th] = "message" /\ pc[th] = "expired"
  /\ EndGet(th)
  /\ dangling' = dangling \ {th}
  /\ UNCHANGED <<queues, messages, kept, taken>>
  /\ UNCHANGED <<packetVars, loopVars, process>>
-----------------------------------------------------------------------------
(* mutant: waiting for an identifier has no deadline *)
ExpireMessagesOnly(th) ==
  /\ Running
  /\ pc[th] \in {"await", "blocked"} /\ op[th] = "message"
  /\ Goto(th, "expired")
  /\ UNCHANGED <<queueVars, packetVars, loopVars, process>>

(* The deadline of a wait passes, also for a thread that has been notified *)
(* and has not run yet.                                                    *)
Expire(th) ==
  /\ Running
  /\ pc[th] \in {"await", "blocked"}
  /\ Goto(th, "expired")
  /\ UNCHANGED <<queueVars, packetVars, loopVars, process>>

SpuriousWakeup(th) ==
  /\ Running
  /\ pc[th] = "blocked"
  /\ Goto(th, "await")
  /\ UNCHANGED <<queueVars, packetVars, loopVars, process>>
-----------------------------------------------------------------------------
(* mutant: the callback may come again for the same packet *)
NotifyAgain(s) ==
  /\ Running
  /\ loop = 0
  /\ s \in inflight
  /\ \/ /\ MidOf(s) \notin message_ids
        /\ message_ids' = message_ids \cup {MidOf(s)}
        /\ acked' = acked \cup {s}
        /\ pc' = Awake
        /\ UNCHANGED process
     \/ /\ MidOf(s) \in message_ids
        /\ process' = "duplicate_id"
        /\ UNCHANGED <<message_ids, acked, pc>>
  /\ UNCHANGED <<inflight, op, topic, serial, ended, sent, queueVars, loopVars>>

(* on_subscribe, on_unsubscribe or on_publish runs NotifyMessageId for a   *)
(* packet.  Callbacks may come in any order or never.                      *)
NotifyMessageId(s) ==
  /\ Running
  /\ loop = 0
  /\ s \in inflight
  /\ inflight' = inflight \ {s}
  /\ \/ /\ MidOf(s) \notin message_ids
        /\ message_ids' = message_ids \cup {MidOf(s)}
        /\ acked' = acked \cup {s}
        /\ pc' = Awake
        /\ UNCHANGED process
     \/ /\ MidOf(s) \in message_ids
        /\ process' = "duplicate_id"
        /\ UNCHANGED <<message_ids, acked, pc>>
  /\ UNCHANGED <<op, topic, serial, ended, sent, queueVars, loopVars>>

(* mutant: a message is queued without notify_all *)
StoreSilently(t, m) ==
  \/ /\ t \in queues
     /\ messages' = [messages EXCEPT ![t] = Append(@, m)]
     /\ kept' = [kept EXCEPT ![t] = Append(@, m)]
     /\ UNCHANGED <<queues, taken, dangling, callVars>>
  \/ t \notin queues /\ UNCHANGED <<queueVars, callVars>>

(* The end of on_message, under the lock: a message without a queue is dropped. *)
Store(t, m) ==
  \/ /\ t \in queues
     /\ messages' = [messages EXCEPT ![t] = Append(@, m)]
     /\ kept' = [kept EXCEPT ![t] = Append(@, m)]
     /\ pc' = Awake
     /\ UNCHANGED <<queues, taken, dangling, op, topic, serial, ended>>
  \/ t \notin queues /\ UNCHANGED <<queueVars, callVars>>

OnMessage(t) ==
  /\ Running
  /\ loop = 0
  /\ t # Announcement
  /\ delivered[t] < MaxMessages
  /\ delivered' = [delivered EXCEPT ![t] = @ + 1]
  /\ Store(t, delivered[t] + 1)
  /\ UNCHANGED <<subscription_status, loop, retained_status, packetVars, process>>

(* mutant: the status is published before the announcement is merged *)
PublishBeforeMerge ==
  /\ Running
  /\ loop = 0
  /\ delivered[Announcement] < MaxMessages
  /\ sent < MaxPackets
  /\ delivered' = [delivered EXCEPT ![Announcement] = @ + 1]
  /\ subscription_status' = subscription_status + 1
  /\ retained_status' = subscription_status
  /\ sent' = sent + 1
  /\ inflight' = inflight \cup {sent + 1}
  /\ loop' = delivered[Announcement] + 1
  /\ UNCHANGED <<message_ids, acked, callVars, queueVars, process>>

(* An announcement is merged into the status and the status is published   *)
(* with QoS 0, without the lock; its packet has an identifier like any     *)
(* other, and nobody waits for it.                                         *)
OnAnnouncement ==
  /\ Running
  /\ loop = 0
  /\ delivered[Announcement] < MaxMessages
  /\ sent < MaxPackets
  /\ delivered' = [delivered EXCEPT ![Announcement] = @ + 1]
  /\ subscription_status' = subscription_status + 1
  /\ retained_status' = subscription_status + 1
  /\ sent' = sent + 1
  /\ inflight' = inflight \cup {sent + 1}
  /\ loop' = delivered[Announcement] + 1
  /\ UNCHANGED <<message_ids, acked, callVars, queueVars, process>>

(* The announcement cannot be decoded, or its status not published: the    *)
(* exception leaves a callback of the C library.                           *)
OnAnnouncementThrows ==
  /\ Running
  /\ loop = 0
  /\ delivered[Announcement] < MaxMessages
  /\ delivered' = [delivered EXCEPT ![Announcement] = @ + 1]
  /\ \/ process' = "bad_announcement" /\ UNCHANGED subscription_status
     \/ /\ process' = "publish_refused"
        /\ subscription_status' = subscription_status + 1
  /\ UNCHANGED <<loop, retained_status, callVars, queueVars, packetVars>>

StoreAnnouncement ==
  /\ Running
  /\ loop # 0
  /\ Store(Announcement, loop)
  /\ loop' = 0
  /\ UNCHANGED <<subscription_status, delivered, retained_status>>
  /\ UNCHANGED <<packetVars, process>>
-----------------------------------------------------------------------------
(* What a thread inside a call does when it has the processor and the lock. *)
ThreadStep(th) ==
  \/ LibraryAccepts(th) \/ LibraryRefuses(th)
  \/ FindMessageId(th) \/ WaitForMessageId(th) \/ MessageIdTimeout(th)
  \/ GetWoken(th) \/ GetErased(th) \/ GetTimeout(th)

BeginCall(th, t) ==
  \/ Subscribe(th, t) \/ Unsubscribe(th, t) \/ Publish(th)
  \/ GetAtOnce(th, t) \/ GetBlocks(th, t)

LoopStep ==
  \/ \E s \in inflight : NotifyMessageId(s)
  \/ \E t \in Topics : OnMessage(t)
  \/ OnAnnouncement \/ OnAnnouncementThrows \/ StoreAnnouncement

Next ==
  \/ \E th \in Threads : ThreadStep(th) \/ Expire(th) \/ SpuriousWakeup(th)
  \/ \E th \in Threads, t \in Topics : BeginCall(th, t)
  \/ LoopStep

(* Every runnable thread is scheduled, the mutex is not held forever, and  *)
(* the clock reaches every deadline.  Nothing is assumed of the broker.    *)
Fairness ==
  \A th \in Threads :
    /\ WF_vars(ThreadStep(th))
    /\ WF_vars(Expire(th))

Spec == Init /\ [][Next]_vars
FairSpec == Spec /\ Fairness
-----------------------------------------------------------------------------
(* Nobody sleeps through what it waits for: a blocked call's identifier is *)
(* not in message_ids_, and a blocked receiver's queue is empty.  It takes *)
(* every notify_all of NotifyMessageId and on_message, after the update    *)
(* and under the lock.                                                     *)
NoLostWakeup ==
  \A th \in Threads : pc[th] = "blocked" =>
    /\ op[th] = "ack" => MidOf(serial[th]) \notin message_ids
    /\ op[th] = "message" /\ th \notin dangling => messages[topic[th]] = <<>>

(* What on_message stored for a topic is what GetLapiMessage returned,     *)
(* followed by what is still queued: receivers racing each other, their    *)
(* deadlines and on_message neither lose, repeat nor reorder a message.    *)
NothingLost == \A t \in Topics : kept[t] = taken[t] \o messages[t]

(* on_message publishes the merged status before it queues an announcement: *)
(* whoever can read an announcement finds it in the retained status.       *)
StatusBeforeAnnouncement ==
  \A i \in 1..Len(messages[Announcement]) :
    messages[Announcement][i] <= retained_status

(* Every identifier in message_ids_ is that of a packet whose callback ran, *)
(* and no callback runs twice for a packet.                                *)
PacketInv ==
  /\ inflight \subseteq 1..sent /\ acked \subseteq 1..sent
  /\ inflight \cap acked = {}
  /\ \A m \in message_ids : \E s \in acked : MidOf(s) = m

(* While identifiers are not reused, waiting calls have packets of their   *)
(* own, and message_ids_ tells exactly which of them were acknowledged.    *)
CallInv ==
  /\ \A th \in Threads : WaitsForAck(th) =>
       /\ serial[th] \in 1..sent
       /\ serial[th] \in acked <=> MidOf(serial[th]) \in message_ids
  /\ \A a, b \in Threads :
       a # b /\ WaitsForAck(a) /\ WaitsForAck(b) => serial[a] # serial[b]

(* NotifyMessageId throws "Message ID already exists" into the loop thread *)
(* only after the library has started to reuse identifiers.                *)
DuplicateNeedsReuse == process = "duplicate_id" => sent > MaxMid

(* The message of NotifyMessageId's throw, taken as the assertion it is:   *)
(* the identifier of a callback is never one that is still in message_ids_. *)
NoDuplicateId == process # "duplicate_id"

(* Packets other than the one a thread waits for, with its identifier.     *)
Namesakes(th) ==
  {s \in 1..sent : s # serial[th] /\ MidOf(s) = MidOf(serial[th])}

(* Also when identifiers are reused, a call only answers to its own: one   *)
(* that returns was acknowledged itself, or the acknowledgement of another *)
(* packet with its identifier was left in message_ids_; one that throws    *)
(* although it was acknowledged shared its identifier with another packet. *)
OwnOrReused ==
  [][\A th \in Threads :
       WaitsForAck(th) /\ pc'[th] = "idle" =>
         /\ ended'[th] = "ok" =>
              serial[th] \in acked \/ Namesakes(th) \cap acked # {}
         /\ ended'[th] = "timeout" =>
              serial[th] \notin acked \/ Namesakes(th) # {}]_vars

(* Every call comes back, by its acknowledgement, its message or its       *)
(* deadline, unless the process ends.                                      *)
CallsEnd ==
  \A th \in Threads :
    pc[th] # "idle" ~> (pc[th] = "idle" \/ process # "running")

(* The acknowledged calls of the client are those of AckedCalls: a call    *)
(* that returns was acknowledged itself, one that throws was not.          *)
CallView ==
  [th \in Threads |-> IF ~WaitsForAck(th) THEN "idle"
                      ELSE IF serial[th] \in acked THEN "acknowledged"
                      ELSE "issued"]

Abstract == INSTANCE AckedCalls WITH call <- CallView
ImplementsAckedCalls == Abstract!Spec
=============================================================================
