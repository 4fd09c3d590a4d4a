---------------------------- MODULE UdsInterface ----------------------------
(***************************************************************************)
(* mqtt_util::UdsInterface (mqtt_util/src/UdsInterface.cpp): stands in for *)
(* a diagnosis interface in a test.  GetAllocation, GetRelease and         *)
(* GetRequest each take the next message of their topic from the Client    *)
(* and tell whether it was for this interface; the first two answer with   *)
(* the state of the interface.  An object keeps no messages of its own:    *)
(* one it takes and that is not for it is gone.                            *)
(*                                                                         *)
(* The objects of a process share a Client, and so its three queues.  An   *)
(* object is used by one thread at a time.  Of a message's fields only the *)
(* outcome of the comparisons with each object's UdsContext is kept: "to"  *)
(* holds the objects it passes for.                                        *)
(***************************************************************************)
EXTENDS Naturals, Sequences, SequencesExt

CONSTANTS
  Interfaces,   \* the objects; an object is constructed at most once
  MaxMessages   \* bound: messages the broker delivers on the three topics

ASSUME UdsAssumption == Interfaces # {} /\ MaxMessages \in Nat

VARIABLES
  status,      \* each object: where it is in its life
  step,        \* topics its constructor or destructor has dealt with
  call,        \* where the object's thread is in a Get...
  wanted,      \* the topic of that call, while it is with the client
  subscribed,  \* topics with a queue in Client::messages_
  queue,       \* those queues (empty for an absent key)
  arrived,     \* messages the broker delivered
  process,     \* "running", or what ended it
  shared,      \* history: two objects have used the Client at once
  lost         \* history: messages gone while an object they are for waits

lifeVars == <<status, step>>
callVars == <<call, wanted>>
clientVars == <<subscribed, queue>>
vars == <<lifeVars, callVars, clientVars, arrived, process, shared, lost>>

(* TOPIC_UDS_ALLOC, TOPIC_UDS_RELEASE, TOPIC_UDS_REQ, in the constructor's order. *)
TopicOrder == <<"alloc", "release", "request">>
Topics == Range(TopicOrder)

Message == [id : 1..MaxMessages, to : SUBSET Interfaces]

(* Decoded, complete and equal to the context of i in every field compared. *)
Fits(i, m) == i \in m.to

Present == {i \in Interfaces : status[i] \in {"constructing", "alive", "destroying"}}
Alive == {i \in Interfaces : status[i] = "alive"}
Receiving == {i \in Interfaces : status[i] \in {"constructing", "alive"}}

TypeOK ==
  /\ status \in [Interfaces -> {"unborn", "constructing", "alive", "destroying", "dead"}]
  /\ step \in [Interfaces -> 0..Len(TopicOrder)]
  /\ call \in [Interfaces -> {"idle", "get", "blocked", "dangling", "respond"}]
  /\ wanted \in [Interfaces -> Topics \cup {"none"}]
  /\ subscribed \subseteq Topics
  /\ queue \in [Topics -> Seq(Message)]
  /\ arrived \in 0..MaxMessages
  /\ process \in {"running", "terminated", "use_after_free"}
  /\ shared \in BOOLEAN
  /\ lost \subseteq 1..MaxMessages
  /\ \A t \in Topics \ subscribed : queue[t] = <<>>
  /\ \A i \in Interfaces :
       wanted[i] # "none" <=> call[i] \in {"get", "blocked", "dangling"}

Init ==
  /\ status = [i \in Interfaces |-> "unborn"]
  /\ step = [i \in Interfaces |-> 0]
  /\ call = [i \in Interfaces |-> "idle"]
  /\ wanted = [i \in Interfaces |-> "none"]
  /\ subscribed = {}
  /\ queue = [t \in Topics |-> <<>>]
  /\ arrived = 0
  /\ process = "running"
  /\ shared = FALSE
  /\ lost = {}

Running == process = "running"
-----------------------------------------------------------------------------
(* mutant: the constructor stops before the last topic *)
SubscribeTwo(i) ==
  /\ Running
  /\ status[i] \in {"unborn", "constructing"}
  /\ LET k == step[i] + 1 IN
       /\ subscribed' = subscribed \cup {TopicOrder[k]}
       /\ step' = [step EXCEPT ![i] = k]
       /\ status' = [status EXCEPT ![i] =
                       IF k = 2 THEN "alive" ELSE "constructing"]
  /\ shared' = (shared \/ Present \ {i} # {})
  /\ UNCHANGED <<callVars, queue, arrived, process, lost>>

(* The constructor subscribes to the three topics, one after the other. *)
SubscribeNext(i) ==
  /\ Running
  /\ status[i] \in {"unborn", "constructing"}
  /\ LET k == step[i] + 1 IN
       /\ subscribed' = subscribed \cup {TopicOrder[k]}
       /\ step' = [step EXCEPT ![i] = k]
       /\ status' = [status EXCEPT ![i] =
                       IF k = Len(TopicOrder) THEN "alive" ELSE "constructing"]
  /\ shared' = (shared \/ Present \ {i} # {})
  /\ UNCHANGED <<callVars, queue, arrived, process, lost>>

(* Client::Subscribe throws: there is no object, and no destructor takes   *)
(* back the subscriptions made so far; the last queue exists as well.      *)
SubscribeThrows(i) ==
  /\ Running
  /\ status[i] \in {"unborn", "constructing"}
  /\ subscribed' = subscribed \cup {TopicOrder[step[i] + 1]}
  /\ status' = [status EXCEPT ![i] = "dead"]
  /\ UNCHANGED <<step, callVars, queue, arrived, process, shared, lost>>

(* mutant: the queue outlives the subscription *)
UnsubscribeKeepsQueue(i) ==
  /\ Running
  /\ status[i] \in {"alive", "destroying"} /\ call[i] = "idle"
  /\ LET k == IF status[i] = "alive" THEN 1 ELSE step[i] + 1 IN
       /\ subscribed' = subscribed \ {TopicOrder[k]}
       /\ step' = [step EXCEPT ![i] = k]
       /\ status' = [status EXCEPT ![i] =
                       IF k = Len(TopicOrder) THEN "dead" ELSE "destroying"]
  /\ UNCHANGED <<callVars, queue, arrived, process, shared, lost>>

(* The destructor unsubscribes from them, for every object of the Client:  *)
(* the queue is erased, also under an object blocked on it.  If the Client *)
(* throws then, the process ends, a destructor being noexcept.             *)
UnsubscribeNext(i) ==
  /\ Running
  /\ status[i] \in {"alive", "destroying"} /\ call[i] = "idle"
  /\ LET k == IF status[i] = "alive" THEN 1 ELSE step[i] + 1
         t == TopicOrder[k]
         gone == Range(queue[t])
     IN
       /\ subscribed' = subscribed \ {t}
       /\ queue' = [queue EXCEPT ![t] = <<>>]
       /\ call' = [j \in Interfaces |->
                     IF call[j] = "blocked" /\ wanted[j] = t THEN "dangling" ELSE call[j]]
       /\ lost' = lost \cup {m.id : m \in {m \in gone : m.to \cap (Receiving \ {i}) # {}}}
       /\ step' = [step EXCEPT ![i] = k]
       /\ status' = [status EXCEPT ![i] =
                       IF k = Len(TopicOrder) THEN "dead" ELSE "destroying"]
  /\ process' \in {"running", "terminated"}
  /\ UNCHANGED <<wanted, arrived, shared>>
-----------------------------------------------------------------------------
(* GetAllocation, GetRelease or GetRequest is called. *)
Get(i, t) ==
  /\ Running
  /\ i \in Alive /\ call[i] = "idle"
  /\ call' = [call EXCEPT ![i] = "get"]
  /\ wanted' = [wanted EXCEPT ![i] = t]
  /\ UNCHANGED <<lifeVars, clientVars, arrived, process, shared, lost>>

(* mutant: the newest message is taken *)
ClientHasNewest(i) ==
  /\ Running
  /\ call[i] \in {"get", "blocked"}
  /\ queue[wanted[i]] # <<>>
  /\ queue' = [queue EXCEPT ![wanted[i]] = Front(@)]
  /\ call' = [call EXCEPT ![i] = "idle"]
  /\ wanted' = [wanted EXCEPT ![i] = "none"]
  /\ UNCHANGED <<lifeVars, subscribed, arrived, process, shared, lost>>

(* The Client has a message, at once or after blocking.  If it is for i,   *)
(* the call publishes the state if asked to (respond), or returns the data *)
(* of a request; if it is not, the message is gone and the call ends.      *)
ClientHasMessage(i) ==
  /\ Running
  /\ call[i] \in {"get", "blocked"}
  /\ queue[wanted[i]] # <<>>
  /\ queue' = [queue EXCEPT ![wanted[i]] = Tail(@)]
  /\ LET m == Head(queue[wanted[i]]) IN
       \/ /\ Fits(i, m)
          /\ call' \in {[call EXCEPT ![i] = where] : where \in
               IF wanted[i] = "request" THEN {"idle"} ELSE {"idle", "respond"}}
          /\ UNCHANGED lost
       \/ /\ ~Fits(i, m)
          /\ call' = [call EXCEPT ![i] = "idle"]
          /\ lost' = IF m.to \cap Receiving = {} THEN lost ELSE lost \cup {m.id}
  /\ wanted' = [wanted EXCEPT ![i] = "none"]
  /\ UNCHANGED <<lifeVars, subscribed, arrived, process, shared>>

ClientBlocks(i) ==
  /\ Running
  /\ call[i] = "get"
  /\ wanted[i] \in subscribed /\ queue[wanted[i]] = <<>>
  /\ call' = [call EXCEPT ![i] = "blocked"]
  /\ UNCHANGED <<wanted, lifeVars, clientVars, arrived, process, shared, lost>>

(* The deadline passes, or the Client has no queue. *)
ClientReturnsNothing(i) ==
  /\ Running
  /\ \/ call[i] \in {"blocked", "dangling"}
     \/ call[i] = "get" /\ wanted[i] \notin subscribed
  /\ call' = [call EXCEPT ![i] = "idle"]
  /\ wanted' = [wanted EXCEPT ![i] = "none"]
  /\ UNCHANGED <<lifeVars, clientVars, arrived, process, shared, lost>>

(* A blocked call looks at the queue a destructor erased. *)
ClientUsesErasedQueue(i) ==
  /\ Running
  /\ call[i] = "dangling"
  /\ process' = "use_after_free"
  /\ UNCHANGED <<lifeVars, callVars, clientVars, arrived, shared, lost>>

(* PublishState returns or throws: either way the call ends, and the       *)
(* message it took is gone.                                                *)
PublishState(i) ==
  /\ Running
  /\ call[i] = "respond"
  /\ call' = [call EXCEPT ![i] = "idle"]
  /\ UNCHANGED <<wanted, lifeVars, clientVars, arrived, process, shared, lost>>

(* on_message of the Client: without a queue the message is dropped. *)
Arrive(t, to) ==
  /\ Running
  /\ arrived < MaxMessages
  /\ arrived' = arrived + 1
  /\ \/ /\ t \in subscribed
        /\ queue' = [queue EXCEPT ![t] = Append(@, [id |-> arrived + 1, to |-> to])]
        /\ UNCHANGED lost
     \/ /\ t \notin subscribed
        /\ lost' = IF to \cap Alive = {} THEN lost ELSE lost \cup {arrived + 1}
        /\ UNCHANGED queue
  /\ UNCHANGED <<lifeVars, callVars, subscribed, process, shared>>
-----------------------------------------------------------------------------
CallStep(i) ==
  \/ ClientHasMessage(i) \/ ClientBlocks(i) \/ ClientReturnsNothing(i)
  \/ ClientUsesErasedQueue(i) \/ PublishState(i)

Next ==
  \/ \E i \in Interfaces :
       SubscribeNext(i) \/ SubscribeThrows(i) \/ UnsubscribeNext(i) \/ CallStep(i)
  \/ \E i \in Interfaces, t \in Topics : Get(i, t)
  \/ \E t \in Topics, to \in SUBSET Interfaces : Arrive(t, to)

Spec == Init /\ [][Next]_vars
-----------------------------------------------------------------------------
(* A message for an object that is there to take it gets lost only if two  *)
(* objects have shared the Client: one takes the messages of the other and *)
(* drops them, and its destructor takes the three queues away.             *)
LossNeedsSharing == lost # {} => shared

(* An object that has the Client to itself is three mailboxes, one for     *)
(* each topic: calls in any order lose nothing that is for it, and a       *)
(* message for somebody else costs one call its answer.  They are closed   *)
(* while there is no object, and for good once objects share the Client.   *)
Exclusive == ~shared /\ Receiving # {}
Owner == CHOOSE i \in Receiving : TRUE
View(t, m) == [id |-> m.id, content |-> IF Owner \in m.to THEN t ELSE "other"]
Pending(t) ==
  IF Exclusive THEN [n \in DOMAIN queue[t] |-> View(t, queue[t][n])] ELSE <<>>
Request(t) ==
  IF ~Exclusive THEN "closed" ELSE IF wanted[Owner] = t THEN t ELSE "none"
Allocations == INSTANCE Mailbox WITH
  Contents <- {"alloc"}, Undecodable <- "other", AnyContent <- "any",
  pending <- Pending("alloc"), request <- Request("alloc")
Releases == INSTANCE Mailbox WITH
  Contents <- {"release"}, Undecodable <- "other", AnyContent <- "any",
  pending <- Pending("release"), request <- Request("release")
RequestMessages == INSTANCE Mailbox WITH
  Contents <- {"request"}, Undecodable <- "other", AnyContent <- "any",
  pending <- Pending("request"), request <- Request("request")
ImplementsMailboxes == Allocations!Spec /\ Releases!Spec /\ RequestMessages!Spec
=============================================================================
