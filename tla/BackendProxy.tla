---------------------------- MODULE BackendProxy ----------------------------
(***************************************************************************)
(* mqtt_util::BackendProxy (mqtt_util/src/BackendProxy.cpp): stands in for *)
(* the backend in a test.  GetTransmitMessage returns the next message, or *)
(* the next of one content id; messages of other contents it meets on the  *)
(* way wait in message_queue_.  Behind it is the queue that Client keeps   *)
(* for TOPIC_PUB, filled by the loop thread.                               *)
(*                                                                         *)
(* The objects of one process share a Client and so its queue.  Each is    *)
(* used by one thread at a time: message_queue_ has no lock.  A message is *)
(* its number in the broker's order and its content id.                    *)
(***************************************************************************)
EXTENDS Naturals, Sequences, SequencesExt

CONSTANTS
  Proxies,      \* the objects; an object is constructed at most once
  Contents,     \* content ids
  Undecodable,  \* the content of a message DecodeMessage cannot decode
  AnyContent,   \* the request of GetTransmitMessage(timeout)
  MaxMessages   \* bound: messages the broker delivers on TOPIC_PUB

ASSUME ProxyAssumption ==
  /\ Proxies # {}
  /\ Undecodable \notin Contents /\ AnyContent \notin Contents /\ AnyContent # Undecodable
  /\ "none" \notin Contents \cup {AnyContent}
  /\ "closed" \notin Contents \cup {AnyContent}
  /\ MaxMessages \in Nat

VARIABLES
  status,         \* each object: "unborn", "alive" or "dead"
  message_queue,  \* message_queue_ of each object
  call,           \* where each object's thread is in GetTransmitMessage
  wanted,         \* what that call asks for
  subscribed,     \* Client::messages_ has a queue for TOPIC_PUB
  queue,          \* that queue
  arrived,        \* messages the broker delivered
  process,        \* "running", or what ended it
  shared,         \* history: two objects have used the Client at once
  lost,           \* history: messages dropped while some object was alive
  last            \* history: the last message returned, per object, content

proxyVars == <<status, message_queue>>
callVars == <<call, wanted>>
clientVars == <<subscribed, queue>>
vars == <<proxyVars, callVars, clientVars, arrived, process, shared, lost, last>>

Message == [id : 1..MaxMessages, content : Contents \cup {Undecodable}]
Requests == Contents \cup {AnyContent}

Alive == {p \in Proxies : status[p] = "alive"}
Ids(s) == {s[i].id : i \in DOMAIN s}
Matches(m, r) == m.content = r \/ (r = AnyContent /\ m.content # Undecodable)

TypeOK ==
  /\ status \in [Proxies -> {"unborn", "alive", "dead"}]
  /\ message_queue \in [Proxies -> Seq(Message)]
  /\ call \in [Proxies -> {"idle", "search", "get", "blocked", "dangling"}]
  /\ wanted \in [Proxies -> Requests \cup {"none"}]
  /\ subscribed \in BOOLEAN
  /\ queue \in Seq(Message)
  /\ arrived \in 0..MaxMessages
  /\ process \in {"running", "terminated", "use_after_free"}
  /\ shared \in BOOLEAN
  /\ lost \subseteq 1..MaxMessages
  /\ last \in [Proxies -> [Contents -> 0..MaxMessages]]
  /\ ~subscribed => queue = <<>>
  /\ \A p \in Proxies : call[p] = "idle" <=> wanted[p] = "none"
  /\ \A p \in Proxies : call[p] # "idle" => p \in Alive

Init ==
  /\ status = [p \in Proxies |-> "unborn"]
  /\ message_queue = [p \in Proxies |-> <<>>]
  /\ call = [p \in Proxies |-> "idle"]
  /\ wanted = [p \in Proxies |-> "none"]
  /\ subscribed = FALSE
  /\ queue = <<>>
  /\ arrived = 0
  /\ process = "running"
  /\ shared = FALSE
  /\ lost = {}
  /\ last = [p \in Proxies |-> [c \in Contents |-> 0]]

Running == process = "running"
-----------------------------------------------------------------------------
(* mutant: the constructor leaves the topic to the caller *)
NotSubscribed == subscribed' = subscribed

Subscribed == subscribed' = TRUE

(* The constructor subscribes; nobody sees the object before it returns,   *)
(* and what arrives meanwhile is in the queue either way.                  *)
Construct(p) ==
  /\ Running
  /\ status[p] = "unborn"
  /\ status' = [status EXCEPT ![p] = "alive"]
  /\ Subscribed
  /\ shared' = (shared \/ Alive # {})
  /\ UNCHANGED <<message_queue, callVars, queue, arrived, process, lost, last>>

(* Subscribe throws: the queue it created stays, without an object. *)
ConstructThrows(p) ==
  /\ Running
  /\ status[p] = "unborn"
  /\ status' = [status EXCEPT ![p] = "dead"]
  /\ subscribed' = TRUE
  /\ UNCHANGED <<message_queue, callVars, queue, arrived, process, shared, lost, last>>

(* The defaulted move constructor: q takes what p kept, and both go on     *)
(* pointing at the Client.                                                 *)
Move(p, q) ==
  /\ Running
  /\ p \in Alive /\ call[p] = "idle" /\ status[q] = "unborn"
  /\ status' = [status EXCEPT ![q] = "alive"]
  /\ message_queue' = [message_queue EXCEPT ![q] = message_queue[p], ![p] = <<>>]
  /\ last' = [last EXCEPT ![q] = last[p]]
  /\ shared' = TRUE
  /\ UNCHANGED <<callVars, clientVars, arrived, process, lost>>

(* mutant: the queue outlives the subscription *)
Unsubscribed == subscribed' = FALSE /\ queue' = queue

Unsubscribe == subscribed' = FALSE /\ queue' = <<>>

(* The destructor, also of an object that was moved from: Unsubscribe      *)
(* erases the queue, also under an object blocked on it; if it throws, the *)
(* process ends, a destructor being noexcept.                              *)
Destroy(p) ==
  /\ Running
  /\ p \in Alive /\ call[p] = "idle"
  /\ status' = [status EXCEPT ![p] = "dead"]
  /\ message_queue' = [message_queue EXCEPT ![p] = <<>>]
  /\ Unsubscribe
  /\ call' = [q \in Proxies |-> IF call[q] = "blocked" THEN "dangling" ELSE call[q]]
  /\ lost' = IF Alive = {p} THEN lost ELSE lost \cup Ids(queue)
  /\ process' \in {"running", "terminated"}
  /\ UNCHANGED <<wanted, arrived, shared, last>>
-----------------------------------------------------------------------------
Ask(p, r) ==
  /\ Running
  /\ p \in Alive /\ call[p] = "idle"
  /\ call' = [call EXCEPT ![p] = "search"]
  /\ wanted' = [wanted EXCEPT ![p] = r]
  /\ UNCHANGED <<proxyVars, clientVars, arrived, process, shared, lost, last>>

EndCall(p) ==
  /\ call' = [call EXCEPT ![p] = "idle"]
  /\ wanted' = [wanted EXCEPT ![p] = "none"]

Return(p, m) ==
  /\ EndCall(p)
  /\ last' = [last EXCEPT ![p][m.content] = m.id]

ReturnNothing(p) == EndCall(p) /\ UNCHANGED last

(* The first message of message_queue_ that matches. *)
FirstMatch(p, i) ==
  /\ i \in DOMAIN message_queue[p]
  /\ Matches(message_queue[p][i], wanted[p])
  /\ \A j \in 1..(i - 1) : ~Matches(message_queue[p][j], wanted[p])

(* mutant: the client is asked first *)
SkipMessageQueue(p) ==
  /\ Running
  /\ call[p] = "search"
  /\ call' = [call EXCEPT ![p] = "get"]
  /\ UNCHANGED <<wanted, proxyVars, last, clientVars, arrived, process, shared, lost>>

(* Both GetTransmitMessage look into message_queue_ first. *)
SearchMessageQueue(p) ==
  /\ Running
  /\ call[p] = "search"
  /\ \/ \E i \in DOMAIN message_queue[p] :
          /\ FirstMatch(p, i)
          /\ message_queue' = [message_queue EXCEPT ![p] = RemoveAt(@, i)]
          /\ Return(p, message_queue[p][i])
     \/ /\ \A i \in DOMAIN message_queue[p] : ~Matches(message_queue[p][i], wanted[p])
        /\ call' = [call EXCEPT ![p] = "get"]
        /\ UNCHANGED <<wanted, message_queue, last>>
  /\ UNCHANGED <<status, clientVars, arrived, process, shared, lost>>

(* The timeout is negative: the client is not asked for one content id. *)
NegativeTimeout(p) ==
  /\ Running
  /\ call[p] = "get" /\ wanted[p] # AnyContent
  /\ ReturnNothing(p)
  /\ UNCHANGED <<proxyVars, clientVars, arrived, process, shared, lost>>

(* mutant: what is kept for later goes to the front *)
KeepAtFront(p, m) ==
  /\ message_queue' = [message_queue EXCEPT ![p] = <<m>> \o @]
  /\ \/ call' = [call EXCEPT ![p] = "get"] /\ UNCHANGED <<wanted, last>>
     \/ ReturnNothing(p)

(* A message of another content is kept; then the time left is computed    *)
(* anew, and the loop goes on or ends.                                     *)
Keep(p, m) ==
  /\ message_queue' = [message_queue EXCEPT ![p] = Append(@, m)]
  /\ \/ call' = [call EXCEPT ![p] = "get"] /\ UNCHANGED <<wanted, last>>
     \/ ReturnNothing(p)

(* Client::GetMessage has a message, at once or after blocking.  One that  *)
(* cannot be decoded looks like a timeout: nothing is returned.            *)
ClientHasMessage(p) ==
  /\ Running
  /\ call[p] \in {"get", "blocked"}
  /\ queue # <<>>
  /\ queue' = Tail(queue)
  /\ LET m == Head(queue) IN
       \/ /\ m.content = Undecodable
          /\ ReturnNothing(p)
          /\ UNCHANGED message_queue
       \/ /\ Matches(m, wanted[p])
          /\ Return(p, m)
          /\ UNCHANGED message_queue
       \/ /\ m.content # Undecodable /\ ~Matches(m, wanted[p])
          /\ Keep(p, m)
  /\ UNCHANGED <<status, subscribed, arrived, process, shared, lost>>

ClientBlocks(p) ==
  /\ Running
  /\ call[p] = "get"
  /\ subscribed /\ queue = <<>>
  /\ call' = [call EXCEPT ![p] = "blocked"]
  /\ UNCHANGED <<wanted, proxyVars, clientVars, arrived, process, shared, lost, last>>

(* The client's deadline passes, whatever came with it, or it has no queue. *)
ClientReturnsNothing(p) ==
  /\ Running
  /\ call[p] \in (IF subscribed THEN {} ELSE {"get"}) \cup {"blocked", "dangling"}
  /\ ReturnNothing(p)
  /\ UNCHANGED <<proxyVars, clientVars, arrived, process, shared, lost>>

(* A blocked call looks at the queue that Destroy erased. *)
ClientUsesErasedQueue(p) ==
  /\ Running
  /\ call[p] = "dangling"
  /\ process' = "use_after_free"
  /\ UNCHANGED <<proxyVars, callVars, clientVars, arrived, shared, lost, last>>

(* on_message of the Client: without a queue the message is dropped. *)
Arrive(c) ==
  /\ Running
  /\ arrived < MaxMessages
  /\ arrived' = arrived + 1
  /\ \/ /\ subscribed
        /\ queue' = Append(queue, [id |-> arrived + 1, content |-> c])
        /\ UNCHANGED lost
     \/ /\ ~subscribed
        /\ lost' = IF Alive = {} THEN lost ELSE lost \cup {arrived + 1}
        /\ UNCHANGED queue
  /\ UNCHANGED <<proxyVars, callVars, subscribed, process, shared, last>>
-----------------------------------------------------------------------------
CallStep(p) ==
  \/ SearchMessageQueue(p) \/ NegativeTimeout(p)
  \/ ClientHasMessage(p) \/ ClientBlocks(p)
  \/ ClientReturnsNothing(p) \/ ClientUsesErasedQueue(p)

Next ==
  \/ \E p \in Proxies : Construct(p) \/ ConstructThrows(p) \/ Destroy(p) \/ CallStep(p)
  \/ \E p, q \in Proxies : Move(p, q)
  \/ \E p \in Proxies, r \in Requests : Ask(p, r)
  \/ \E c \in Contents \cup {Undecodable} : Arrive(c)

Spec == Init /\ [][Next]_vars
-----------------------------------------------------------------------------
(* Nobody waits for what it already has: while a call is with the client,  *)
(* nothing in message_queue_ matches what the call asks for, whatever      *)
(* earlier calls and the call itself have kept there.                      *)
NeverWaitsForKept ==
  \A p \in Proxies : call[p] \in {"get", "blocked", "dangling"} =>
    \A i \in DOMAIN message_queue[p] : ~Matches(message_queue[p][i], wanted[p])

(* Each object returns the messages of one content in their order of       *)
(* arrival, across calls for other contents, calls for any content, moves  *)
(* and other objects that take messages from the same queue.               *)
OrderPerContent ==
  [][\A p \in Proxies, c \in Contents : last'[p][c] >= last[p][c]]_vars

(* A message is dropped while an object is there to ask for it only if two *)
(* objects have shared the Client: the destructor of one, a moved-from     *)
(* shell included, takes the subscription away from the other.             *)
LossNeedsSharing == lost # {} => shared

(* An object that has the Client to itself is a mailbox: what it keeps,    *)
(* followed by the client's queue, is what is pending.  The mailbox is     *)
(* closed while there is no object, and for good once objects share.       *)
Exclusive == ~shared /\ Alive # {}
Owner == CHOOSE p \in Alive : TRUE
Box == INSTANCE Mailbox WITH
         pending <- IF Exclusive THEN message_queue[Owner] \o queue ELSE <<>>,
         request <- IF Exclusive THEN wanted[Owner] ELSE "closed"
ImplementsMailbox == Box!Spec
=============================================================================
