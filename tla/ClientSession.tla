--------------------------- MODULE ClientSession ---------------------------
(***************************************************************************)
(* The life of a mqtt_util::Client (mqtt_util/src/Client.cpp) and of its   *)
(* session with the broker: the constructor connects, starts the loop      *)
(* thread and subscribes to the announcements; the destructor unretains    *)
(* the subscription status, disconnects and joins the loop thread.  In     *)
(* between, threads subscribe and unsubscribe.  What MqttClient keeps      *)
(* exactly (identifiers, wakeups, the order within a queue) is left out    *)
(* here; what it leaves out is here: the broker's side, the connection     *)
(* with what is in transit, and the lifetime of the object.                *)
(*                                                                         *)
(* The connection is a pair of queues.  The library keeps no session       *)
(* (clean_session is the default of mosquittopp): when the connection is   *)
(* lost the broker forgets the subscriptions, and the library's thread     *)
(* connects again without telling the Client, which has no on_connect.     *)
(***************************************************************************)
EXTENDS Naturals, Sequences

CONSTANTS
  Threads,       \* the threads that use the client
  Owner,         \* the one that constructs and destroys it
  Topics,        \* the topics of the client
  Announcement,  \* ecu::lapi::com::ANNOUNCEMENT_TOPIC
  Status,        \* ecu::lapi::com::IPC_SUBSCRIPTIONS_TOPIC
  MaxCalls,      \* bound: packets of calls in a behaviour
  MaxMessages,   \* bound: messages the broker sends
  MaxLosses      \* bound: losses of the connection

ASSUME SessionAssumption ==
  /\ Owner \in Threads
  /\ Announcement \in Topics /\ Status \notin Topics
  /\ MaxCalls \in Nat /\ MaxMessages \in Nat /\ MaxLosses \in Nat

VARIABLES
  life,          \* of the object, see Lives
  loop_thread,   \* the library's thread runs
  disconnecting, \* disconnect() was called
  connected,     \* the library has a connection
  outgoing,      \* packets on their way to the broker
  incoming,      \* acknowledgements and messages on their way back
  broker,        \* the broker's subscriptions for this client
  retained,      \* the broker retains a subscription status
  queues,        \* the keys of messages_
  pc,            \* where each thread is in its call
  op,            \* that call
  topic,         \* and its topic
  serial,        \* and its packet, once the library took it
  sent,          \* packets of calls the library took
  acked,         \* acknowledgements nobody has taken (message_ids_)
  process,       \* "running", or what ended it
  messages_sent, \* messages the broker sent
  losses,        \* losses of the connection
  disturbed,     \* history: topics whose last call was not clean
  unsubscribed,  \* history: topics that Unsubscribe was called for
  missed,        \* history: topics of messages that found no queue
  announced,     \* history: a status went out after Unretain's packet
  threw          \* history: the constructor threw

callVars == <<pc, op, topic, serial, sent>>
linkVars == <<connected, outgoing, incoming, losses>>
brokerVars == <<broker, retained, messages_sent>>
lifeVars == <<life, loop_thread, disconnecting, threw>>
historyVars == <<disturbed, unsubscribed, missed, announced>>
vars == <<callVars, linkVars, brokerVars, lifeVars, historyVars, queues, acked, process>>

(* The constructor: unborn, connected, constructing; or unwinding when it  *)
(* throws under a running loop thread.  The destructor: destroying (in     *)
(* Unretain), unretained, joining.                                         *)
Lives == {"unborn", "connected", "constructing", "unwinding", "alive",
          "destroying", "unretained", "joining", "dead"}

Ops == {"subscribe", "unsubscribe", "unretain"}
Packet == [kind : Ops \cup {"status"}, topic : Topics \cup {Status}, serial : 0..MaxCalls]
Arrival == [kind : {"ack", "message"}, topic : Topics \cup {Status}, serial : 0..MaxCalls]

TypeOK ==
  /\ life \in Lives
  /\ loop_thread \in BOOLEAN /\ disconnecting \in BOOLEAN /\ connected \in BOOLEAN
  /\ outgoing \in Seq(Packet) /\ incoming \in Seq(Arrival)
  /\ broker \subseteq Topics /\ queues \subseteq Topics
  /\ retained \in BOOLEAN /\ announced \in BOOLEAN /\ threw \in BOOLEAN
  /\ pc \in [Threads -> {"idle", "call", "await"}]
  /\ op \in [Threads -> Ops]
  /\ topic \in [Threads -> Topics \cup {Status}]
  /\ serial \in [Threads -> 0..MaxCalls]
  /\ sent \in 0..MaxCalls /\ acked \subseteq 1..MaxCalls
  /\ process \in {"running", "unacknowledged", "refused", "undecodable",
                  "publish_refused", "use_after_free"}
  /\ messages_sent \in 0..MaxMessages /\ losses \in 0..MaxLosses
  /\ disturbed \subseteq Topics \cup {Status}
  /\ unsubscribed \subseteq Topics /\ missed \subseteq Topics
  /\ \A th \in Threads : pc[th] = "await" => serial[th] \in 1..sent

Init ==
  /\ life = "unborn"
  /\ loop_thread = FALSE /\ disconnecting = FALSE /\ connected = FALSE
  /\ outgoing = <<>> /\ incoming = <<>>
  /\ broker = {} /\ queues = {}
  /\ retained = FALSE /\ announced = FALSE /\ threw = FALSE
  /\ pc = [th \in Threads |-> "idle"]
  /\ op = [th \in Threads |-> "subscribe"]
  /\ topic = [th \in Threads |-> Announcement]
  /\ serial = [th \in Threads |-> 0]
  /\ sent = 0 /\ acked = {}
  /\ process = "running"
  /\ messages_sent = 0 /\ losses = 0
  /\ disturbed = {} /\ unsubscribed = {} /\ missed = {}

Running == process = "running"
Alive == Running /\ life = "alive"
-----------------------------------------------------------------------------
(* connect() and loop_start(); when they fail the constructor throws       *)
(* before there is a loop thread.                                          *)
ConstructorThrows ==
  /\ Running
  /\ life \in {"unborn", "connected"}
  /\ life' = "dead"
  /\ threw' = TRUE
  /\ connected' = FALSE
  /\ UNCHANGED <<loop_thread, disconnecting, outgoing, incoming, losses, callVars,
                 brokerVars, historyVars, queues, acked, process>>

Connect ==
  /\ Running
  /\ life = "unborn"
  /\ life' = "connected"
  /\ connected' = TRUE
  /\ UNCHANGED <<loop_thread, disconnecting, threw, outgoing, incoming, losses, callVars,
                 brokerVars, historyVars, queues, acked, process>>

LoopStart ==
  /\ Running
  /\ life = "connected"
  /\ life' = "constructing"
  /\ loop_thread' = TRUE
  /\ UNCHANGED <<disconnecting, threw, linkVars, callVars, brokerVars,
                 historyVars, queues, acked, process>>

Busy(t) == \E th \in Threads : pc[th] # "idle" /\ topic[th] = t

(* A call is entered; alone on its topic it starts with a clean sheet. *)
Begin(th, o, t) ==
  /\ pc[th] = "idle"
  /\ pc' = [pc EXCEPT ![th] = "call"]
  /\ op' = [op EXCEPT ![th] = o]
  /\ topic' = [topic EXCEPT ![th] = t]
  /\ disturbed' = IF Busy(t) THEN disturbed \cup {t} ELSE disturbed \ {t}
  /\ UNCHANGED <<serial, sent, linkVars, brokerVars, missed, announced, acked, process>>

MayCall(th, t) ==
  Alive \/ (Running /\ life = "constructing" /\ th = Owner /\ t = Announcement)

(* mutant: the queue is made once the subscription is acknowledged *)
NoQueueYet(t) == queues' = queues

NewQueue(t) == queues' = queues \cup {t}

Subscribe(th, t) ==
  /\ MayCall(th, t)
  /\ Begin(th, "subscribe", t)
  /\ NewQueue(t)
  /\ UNCHANGED <<lifeVars, unsubscribed>>

Unsubscribe(th, t) ==
  /\ Alive
  /\ Begin(th, "unsubscribe", t)
  /\ queues' = queues \ {t}
  /\ unsubscribed' = unsubscribed \cup {t}
  /\ UNCHANGED lifeVars

(* mutant: the status stays *)
NoUnretain ==
  /\ life' = "unretained"
  /\ UNCHANGED <<callVars, linkVars, brokerVars, disturbed, missed, announced, acked, process>>

Unretain == Begin(Owner, "unretain", Status) /\ life' = "destroying"

(* The destructor begins; nobody else uses the object any more. *)
Destroy ==
  /\ Alive
  /\ \A th \in Threads : pc[th] = "idle"
  /\ Unretain
  /\ UNCHANGED <<loop_thread, disconnecting, threw, queues, unsubscribed>>

(* mutant: the identifier of the packet is not stored *)
NoSerial(th) == serial' = serial

StoresSerial(th) == serial' = [serial EXCEPT ![th] = sent + 1]

LibraryAccepts(th) ==
  /\ Running
  /\ pc[th] = "call"
  /\ connected /\ sent < MaxCalls
  /\ sent' = sent + 1
  /\ StoresSerial(th)
  /\ pc' = [pc EXCEPT ![th] = "await"]
  /\ outgoing' = Append(outgoing, [kind |-> op[th], topic |-> topic[th], serial |-> sent + 1])
  /\ UNCHANGED <<op, topic, connected, incoming, losses, brokerVars, lifeVars,
                 historyVars, queues, acked, process>>

EndCall(th) ==
  /\ pc' = [pc EXCEPT ![th] = "idle"]
  /\ op' = [op EXCEPT ![th] = "subscribe"]
  /\ topic' = [topic EXCEPT ![th] = Announcement]
  /\ serial' = [serial EXCEPT ![th] = 0]

(* A call throws.  Out of the constructor, the object is taken apart under *)
(* the loop thread; out of the destructor, the process ends.               *)
Throw(th, cause) ==
  /\ EndCall(th)
  /\ disturbed' = disturbed \cup {topic[th]}
  /\ life' = IF life = "constructing" THEN "unwinding" ELSE life
  /\ threw' = (threw \/ life = "constructing")
  /\ process' = IF life = "destroying" THEN cause ELSE process
  /\ UNCHANGED <<sent, linkVars, brokerVars, loop_thread, disconnecting,
                 unsubscribed, missed, announced, queues, acked>>

LibraryRefuses(th) == Running /\ pc[th] = "call" /\ Throw(th, "refused")

Timeout(th) ==
  Running /\ pc[th] = "await" /\ serial[th] \notin acked /\ Throw(th, "unacknowledged")

(* mutant: nobody waits for the acknowledgement *)
NoWait(th) == acked' = acked

(* WaitForMessageId finds the acknowledgement and takes it. *)
WaitForMessageId(th) == serial[th] \in acked /\ acked' = acked \ {serial[th]}

Return(th) ==
  /\ Running
  /\ pc[th] = "await"
  /\ WaitForMessageId(th)
  /\ EndCall(th)
  /\ life' = CASE life = "constructing" -> "alive"
               [] life = "destroying" -> "unretained"
               [] OTHER -> life
  /\ UNCHANGED <<sent, linkVars, brokerVars, loop_thread, disconnecting,
                 threw, historyVars, queues, process>>
-----------------------------------------------------------------------------
(* mutant: the thread is joined, and was not told to end *)
NotDisconnected == UNCHANGED <<disconnecting, connected>>

Disconnected == disconnecting' = TRUE /\ connected' = FALSE

(* disconnect() *)
Disconnect ==
  /\ Running
  /\ life = "unretained"
  /\ life' = "joining"
  /\ Disconnected
  /\ UNCHANGED <<loop_thread, threw, outgoing, incoming, losses, callVars, brokerVars,
                 historyVars, queues, acked, process>>

(* The library's thread notices and ends. *)
LoopEnds ==
  /\ Running
  /\ loop_thread /\ disconnecting
  /\ loop_thread' = FALSE
  /\ UNCHANGED <<life, disconnecting, threw, linkVars, callVars, brokerVars,
                 historyVars, queues, acked, process>>

(* mutant: the destructor does not wait for the thread *)
NotJoined == TRUE

Joined == ~loop_thread

(* loop_stop() joins it; then the members are destroyed. *)
LoopStop ==
  /\ Running
  /\ life = "joining" /\ Joined
  /\ life' = "dead"
  /\ UNCHANGED <<loop_thread, disconnecting, threw, linkVars, callVars, brokerVars,
                 historyVars, queues, acked, process>>

(* After an exception of the constructor the members are destroyed and     *)
(* only then does the base class stop the thread.                          *)
Unwind ==
  /\ Running
  /\ life = "unwinding"
  /\ life' = "dead"
  /\ loop_thread' = FALSE
  /\ connected' = FALSE
  /\ UNCHANGED <<disconnecting, threw, outgoing, incoming, losses, callVars, brokerVars,
                 historyVars, queues, acked, process>>
-----------------------------------------------------------------------------
(* The broker takes the next packet.  It may deny a subscription: that is  *)
(* acknowledged too, and on_subscribe ignores the granted QoS.             *)
BrokerReceives ==
  /\ Running
  /\ outgoing # <<>>
  /\ outgoing' = Tail(outgoing)
  /\ LET p == Head(outgoing) IN
       /\ \/ /\ p.kind = "subscribe"
             /\ broker' = broker \cup {p.topic}
             /\ UNCHANGED <<retained, disturbed>>
          \/ /\ p.kind = "subscribe"
             /\ disturbed' = disturbed \cup {p.topic}
             /\ UNCHANGED <<broker, retained>>
          \/ /\ p.kind = "unsubscribe"
             /\ broker' = broker \ {p.topic}
             /\ UNCHANGED <<retained, disturbed>>
          \/ /\ p.kind \in {"unretain", "status"}
             /\ retained' = (p.kind = "status")
             /\ UNCHANGED <<broker, disturbed>>
       /\ incoming' = IF p.kind = "status" THEN incoming
                      ELSE Append(incoming, [kind |-> "ack", topic |-> p.topic,
                                             serial |-> p.serial])
  /\ UNCHANGED <<callVars, connected, losses, messages_sent, lifeVars,
                 unsubscribed, missed, announced, queues, acked, process>>

(* Somebody publishes, or the subscription brings a retained message. *)
BrokerSends(t) ==
  /\ Running
  /\ t \in broker
  /\ messages_sent < MaxMessages
  /\ messages_sent' = messages_sent + 1
  /\ incoming' = Append(incoming, [kind |-> "message", topic |-> t, serial |-> 0])
  /\ UNCHANGED <<callVars, connected, outgoing, losses, broker, retained, lifeVars,
                 historyVars, queues, acked, process>>

(* The connection is lost with everything in transit.  A publish of QoS 1, *)
(* which Unretain waits for, is sent again by the library.                 *)
Lose ==
  /\ Running
  /\ connected /\ loop_thread /\ losses < MaxLosses
  /\ losses' = losses + 1
  /\ connected' = FALSE
  /\ outgoing' = <<>> /\ incoming' = <<>>
  /\ broker' = {}
  /\ disturbed' = disturbed \cup Topics
  /\ UNCHANGED <<callVars, retained, messages_sent, lifeVars,
                 unsubscribed, missed, announced, queues, acked, process>>

Reconnect ==
  /\ Running
  /\ ~connected /\ loop_thread /\ ~disconnecting
  /\ connected' = TRUE
  /\ outgoing' = IF life = "destroying" /\ pc[Owner] = "await"
                 THEN <<[kind |-> "unretain", topic |-> Status, serial |-> serial[Owner]]>>
                 ELSE <<>>
  /\ UNCHANGED <<callVars, incoming, losses, brokerVars, lifeVars,
                 historyVars, queues, acked, process>>
-----------------------------------------------------------------------------
Callback == Running /\ loop_thread /\ incoming # <<>>

MembersAlive == life \notin {"unwinding", "dead"}

(* on_subscribe, on_unsubscribe, on_publish *)
OnAck ==
  /\ Callback /\ MembersAlive
  /\ Head(incoming).kind = "ack"
  /\ incoming' = Tail(incoming)
  /\ acked' = acked \cup {Head(incoming).serial}
  /\ UNCHANGED <<callVars, connected, outgoing, losses, brokerVars, lifeVars,
                 historyVars, queues, process>>

(* The library has the packet of Unretain, or had it. *)
UnretainSent ==
  /\ life \notin {"constructing", "alive"}
  /\ life = "destroying" => pc[Owner] # "call"

(* on_message: an announcement is merged and the status published, retained; *)
(* then the message is queued if its topic has a queue.  The exception of an *)
(* announcement that does not decode, or of a status that the library does   *)
(* not take, connected or not, leaves a callback of the library.             *)
OnMessage ==
  /\ Callback /\ MembersAlive
  /\ Head(incoming).kind = "message"
  /\ incoming' = Tail(incoming)
  /\ LET t == Head(incoming).topic IN
       /\ \/ /\ t # Announcement
             /\ UNCHANGED <<outgoing, announced, process>>
          \/ /\ t = Announcement /\ connected
             /\ outgoing' = Append(outgoing, [kind |-> "status", topic |-> Status, serial |-> 0])
             /\ announced' = (announced \/ UnretainSent)
             /\ UNCHANGED process
          \/ /\ t = Announcement
             /\ process' \in {"undecodable", "publish_refused"}
             /\ UNCHANGED <<outgoing, announced>>
       /\ missed' = IF t \in queues \cup unsubscribed \/ ~Running'
                    THEN missed ELSE missed \cup {t}
  /\ UNCHANGED <<callVars, connected, losses, brokerVars, lifeVars,
                 disturbed, unsubscribed, queues, acked>>

(* A callback of an object whose members are gone. *)
CallbackTooLate ==
  /\ Callback /\ ~MembersAlive
  /\ process' = "use_after_free"
  /\ UNCHANGED <<callVars, linkVars, brokerVars, lifeVars, historyVars, queues, acked>>
-----------------------------------------------------------------------------
ThreadStep(th) == LibraryAccepts(th) \/ LibraryRefuses(th) \/ Return(th) \/ Timeout(th)

ObjectStep ==
  \/ ConstructorThrows \/ Connect \/ LoopStart
  \/ Destroy \/ Disconnect \/ LoopStop \/ Unwind

LoopStep == OnAck \/ OnMessage \/ CallbackTooLate \/ LoopEnds

Next ==
  \/ ObjectStep \/ LoopStep \/ BrokerReceives \/ Lose \/ Reconnect
  \/ \E th \in Threads : ThreadStep(th)
  \/ \E th \in Threads, t \in Topics : Subscribe(th, t) \/ Unsubscribe(th, t)
  \/ \E t \in Topics : BrokerSends(t)

Spec == Init /\ [][Next]_vars

(* A destructor under way goes on, a call in it ends with its deadline at  *)
(* the latest, and the library's thread runs.  The broker owes nothing.    *)
FairSpec ==
  /\ Spec
  /\ WF_vars(ThreadStep(Owner))
  /\ WF_vars(Disconnect) /\ WF_vars(LoopStop)
  /\ WF_vars(LoopStep)
-----------------------------------------------------------------------------
(* What ends the process is never the Client alone.  Callbacks meet        *)
(* destroyed members only when the constructor threw with the loop thread  *)
(* running; an announcement that does not decode or whose status is not    *)
(* taken comes only to a client that subscribed to the announcements; and  *)
(* when the destructor gives up on Unretain the packet or its              *)
(* acknowledgement is still on the way: the Client has not dropped it.     *)
EndsHaveCauses ==
  /\ process = "use_after_free" => threw
  /\ process \in {"undecodable", "publish_refused"} =>
       Announcement \in queues \cup unsubscribed
  /\ process = "unacknowledged" =>
       \/ losses > 0
       \/ \E i \in DOMAIN outgoing : outgoing[i].kind = "unretain"
       \/ \E i \in DOMAIN incoming : incoming[i].kind = "ack" /\ incoming[i].topic = Status

(* While nobody subscribes or unsubscribes a topic, the client has a queue *)
(* for it exactly when the broker has the subscription, provided the last  *)
(* call for the topic returned, was granted, overlapped no other, and the  *)
(* connection has not been lost since: the last clean call decides,        *)
(* whatever earlier ones left behind.                                      *)
Agreement ==
  life = "alive" =>
    \A t \in Topics \ disturbed : Busy(t) \/ (t \in queues <=> t \in broker)

(* No message is dropped on a topic that was never unsubscribed: the queue *)
(* is there before the broker can know of the subscription.                *)
NothingMissed == missed = {}

(* The destructor leaves no subscription status behind, unless one was     *)
(* published after the packet of Unretain: an announcement before it, also *)
(* one that comes in the destructor, does no harm.                         *)
StatusWithdrawn ==
  life = "dead" /\ Running /\ ~threw /\ ~announced =>
    /\ ~retained
    /\ \A i \in DOMAIN outgoing : outgoing[i].kind # "status"

(* A destructor that was begun comes to an end. *)
DestructorEnds == life = "destroying" ~> (life = "dead" \/ ~Running)
=============================================================================
