---------------------------- MODULE PahoPublisher ----------------------------
(***************************************************************************)
(* mqtt::MqttPublisher (paho_publisher/MQTTPublisher.cpp): MqttMessage     *)
(* hands a message to the Paho library and spins until the callback that   *)
(* the library's receive thread runs has stored the message's token in     *)
(* deliveredtoken_.  The two threads share that variable without a lock,   *)
(* and all objects of the process do; here there is one at a time, as in   *)
(* every program of the repository.  An object never connects again once   *)
(* its connection is lost.                                                 *)
(***************************************************************************)
EXTENDS Naturals

CONSTANTS MaxToken,   \* tokens are 1..MaxToken (65535 in the library)
          MaxCalls    \* bound: calls of MqttMessage

ASSUME PublisherAssumption == MaxToken \in Nat \ {0} /\ MaxCalls \in Nat

VARIABLES
  process,        \* "running", "exited" or "terminated"
  connected,      \* the library's connection
  pc,             \* "none" (no object), "idle", or in MqttMessage: "publish", "sent", "spin"
  token_,         \* set by the library; 0 here while it is not initialised
  deliveredtoken_,
  message,        \* the current message: calls are numbered
  issued,         \* the library's last token
  inflight,       \* messages the broker has not confirmed, and their tokens
  blind,          \* history: messages without a token, token_ never set before
  confirmed,      \* history: messages whose delivery the callback reported
  returned        \* history: messages MqttMessage returned from

objectVars == <<process, connected>>
libraryVars == <<issued, inflight, confirmed>>
callVars == <<message, blind, returned>>
publisherVars == <<objectVars, pc, token_, deliveredtoken_, libraryVars, callVars>>

(* What the loop may find in token_ before the library has set it. *)
Garbage == {0, 1, MaxToken + 1}

PublisherTypeOK ==
  /\ process \in {"running", "exited", "terminated"}
  /\ connected \in BOOLEAN
  /\ pc \in {"none", "idle", "publish", "sent", "spin"}
  /\ token_ \in Garbage \cup 1..MaxToken
  /\ deliveredtoken_ \in 0..MaxToken
  /\ message \in 0..MaxCalls
  /\ issued \in 0..MaxToken
  /\ inflight \subseteq [message : 1..MaxCalls, token : 1..MaxToken]
  /\ blind \subseteq 1..MaxCalls
  /\ confirmed \subseteq 1..MaxCalls
  /\ returned \subseteq 1..message

PublisherInit ==
  /\ process = "running" /\ connected = FALSE
  /\ pc = "none" /\ message = 0
  /\ token_ = 0 /\ deliveredtoken_ = 0
  /\ issued = 0 /\ inflight = {}
  /\ blind = {} /\ confirmed = {} /\ returned = {}

(* The constructor connects, or leaves the process.  It resets neither     *)
(* token_ nor deliveredtoken_.                                             *)
Construct ==
  /\ process = "running" /\ pc = "none"
  /\ \/ pc' = "idle" /\ connected' = TRUE /\ UNCHANGED process
     \/ process' = "exited" /\ UNCHANGED <<pc, connected>>
  /\ UNCHANGED <<token_, deliveredtoken_, libraryVars, callVars>>

Destroy ==
  /\ process = "running" /\ pc = "idle"
  /\ pc' = "none" /\ connected' = FALSE
  /\ token_' = 0 /\ issued' = 0   \* of no object
  /\ UNCHANGED <<process, deliveredtoken_, inflight, confirmed, callVars>>

CallBegins ==
  /\ process = "running" /\ pc = "idle" /\ message < MaxCalls
  /\ message' = message + 1
  /\ pc' = "publish"
  /\ UNCHANGED <<objectVars, token_, libraryVars, blind, returned>>

(* mutant: what an earlier message left in deliveredtoken_ stays there *)
CallWithoutReset == CallBegins /\ UNCHANGED deliveredtoken_

(* MqttMessage up to the library call. *)
MqttMessage == CallBegins /\ deliveredtoken_' = 0

(* mutant: tokens do not wrap *)
NextTokenUnbounded == issued + 1

NextToken == (issued % MaxToken) + 1

(* MQTTClient_publishMessage sends a message of QoS 1 under the next token.*)
(* From here on the broker can confirm it, before the call has stored the  *)
(* token.                                                                  *)
LibrarySends ==
  /\ process = "running"
  /\ pc = "publish" /\ connected
  /\ issued' = NextToken
  /\ inflight' = inflight \cup {[message |-> message, token |-> NextToken]}
  /\ pc' = "sent"
  /\ UNCHANGED <<objectVars, token_, deliveredtoken_, confirmed, callVars>>

StoresToken ==
  /\ process = "running" /\ pc = "sent"
  /\ token_' = issued
  /\ pc' = "spin"
  /\ UNCHANGED <<objectVars, libraryVars, callVars>>

(* mutant: deliveredtoken_ is reset after the library call *)
ResetAfterPublish == StoresToken /\ deliveredtoken_' = 0

LibraryReturns == StoresToken /\ UNCHANGED deliveredtoken_

(* It refuses the message, or sends it with QoS 0: no token is handed out, *)
(* no callback will run, and the result is not looked at.                  *)
LibraryGivesNoToken ==
  /\ process = "running" /\ pc = "publish"
  /\ \/ issued # 0 /\ UNCHANGED <<token_, blind>>
     \/ issued = 0 /\ token_' \in Garbage /\ blind' = blind \cup {message}
  /\ pc' = "spin"
  /\ UNCHANGED <<objectVars, deliveredtoken_, libraryVars, message, returned>>

(* The loop sees the token it waits for. *)
SpinEnds ==
  /\ process = "running"
  /\ pc = "spin" /\ deliveredtoken_ = token_
  /\ returned' = returned \cup {message}
  /\ pc' = "idle"
  /\ UNCHANGED <<objectVars, token_, deliveredtoken_, libraryVars, message, blind>>

(* The receive thread runs delivered(). *)
Delivered(m) ==
  /\ process = "running" /\ connected /\ m \in inflight
  /\ deliveredtoken_' = m.token
  /\ inflight' = inflight \ {m}
  /\ confirmed' = confirmed \cup {m.message}
  /\ UNCHANGED <<objectVars, pc, token_, issued, callVars>>

(* The connection is lost: connLost builds a string from the cause, which  *)
(* ends the process when the library passes none.                          *)
ConnLost ==
  /\ process = "running" /\ connected
  /\ connected' = FALSE
  /\ process' \in {"running", "terminated"}
  /\ UNCHANGED <<pc, token_, deliveredtoken_, libraryVars, callVars>>

PublisherNext ==
  \/ Construct \/ Destroy
  \/ MqttMessage \/ LibrarySends \/ LibraryReturns \/ LibraryGivesNoToken \/ SpinEnds
  \/ \E m \in inflight : Delivered(m)
  \/ ConnLost
=============================================================================
