------------------------------ MODULE PahoTest ------------------------------
(***************************************************************************)
(* The end-to-end test of mqtt_paho as a whole: MockPublisher              *)
(* (test/unittest_pub) publishes the payload of the input file through an  *)
(* MqttPublisher, the broker passes it on, MqttSubscriber writes it to the *)
(* log, and ApplicationTest compares.  Every program may stop, be killed   *)
(* or lose its connection between any two steps of the others.             *)
(***************************************************************************)
EXTENDS PahoPublisher, MessageLog

CONSTANT MaxOthers \* bound: messages of other publishers

ASSUME TestAssumption == MaxOthers \in Nat

VARIABLES
  PAYLOAD_, \* what MockPublisher has read
  taken,    \* own messages that reached the broker
  others,   \* messages of other publishers
  watched   \* history: the own message the subscriber has listened for since
            \* the call began, with no other message passed on after it, or 0

testVars == <<PAYLOAD_, taken, others, watched>>
vars == <<publisherVars, logVars, testVars>>

TypeOK ==
  /\ PublisherTypeOK /\ LogTypeOK
  /\ PAYLOAD_ \in Seq(Characters)
  /\ taken \subseteq 1..message
  /\ others \in 0..MaxOthers
  /\ watched \in 0..message

Init ==
  /\ PublisherInit /\ LogInit
  /\ PAYLOAD_ = <<>> /\ taken = {} /\ others = 0 /\ watched = 0
-----------------------------------------------------------------------------
(* MockPublisher::readFile: the payloads of all lines, and a newline. *)
InputPayload == FlattenSeq([n \in DOMAIN input |-> Drop(input[n], Len(Header))]) \o <<EndLine>>

(* A MockPublisher that has sent before appends to what it has read then;  *)
(* another one begins with nothing.  The MqttPublisher may be used in any  *)
(* way its interface allows: the code gives it one message of QoS 1.       *)
SendPayload ==
  /\ MqttMessage
  /\ \E before \in {<<>>, PAYLOAD_} : PAYLOAD_' = before \o InputPayload
  /\ watched' = IF listening /\ PAYLOAD_' = InputPayload THEN message' ELSE 0
  /\ UNCHANGED <<logVars, taken, others>>

(* The message of the call under way reaches the broker. *)
BrokerTakes ==
  /\ \E m \in inflight : m.message \notin taken
  /\ Publish(PAYLOAD_)
  /\ taken' = taken \cup {message}
  /\ UNCHANGED <<publisherVars, PAYLOAD_, others, watched>>

(* A message of QoS 0 may reach the broker, no other that has no token. *)
SendWithoutToken ==
  /\ LibraryGivesNoToken
  /\ \/ UNCHANGED <<logVars, testVars>>
     \/ /\ connected
        /\ Publish(PAYLOAD_)
        /\ taken' = taken \cup {message}
        /\ UNCHANGED <<PAYLOAD_, others, watched>>

(* The broker confirms what it has taken. *)
BrokerConfirms ==
  \E m \in inflight : m.message \in taken /\ Delivered(m)

(* Another publisher on the topic: main.cpp with a text of its own. *)
PublishOther ==
  /\ others < MaxOthers
  /\ others' = others + 1
  /\ \E p \in Payloads : Publish(p)
  /\ watched' = IF listening THEN 0 ELSE watched
  /\ UNCHANGED <<publisherVars, PAYLOAD_, taken>>

PublisherSteps ==
  /\ Construct \/ Destroy \/ LibrarySends \/ LibraryReturns \/ SpinEnds
     \/ BrokerConfirms \/ ConnLost
  /\ UNCHANGED <<logVars, testVars>>

(* The watched message is in the log. *)
Written == watched \in taken /\ transit = <<>> /\ rest = <<>>

SubscriberSteps ==
  /\ \/ (MqttConnect \/ MsgArrvd \/ CloseFile) /\ UNCHANGED watched
     \/ SubscriberStops /\ watched' = IF Written THEN watched ELSE 0
  /\ UNCHANGED <<publisherVars, PAYLOAD_, taken, others>>

Next ==
  \/ SendPayload \/ BrokerTakes \/ SendWithoutToken \/ PublishOther
  \/ PublisherSteps \/ SubscriberSteps

Spec == Init /\ [][Next]_vars

(* The caller's thread runs, and a broker that stays connected takes what  *)
(* is sent and confirms it.                                                *)
FairSpec ==
  /\ Spec
  /\ WF_vars(PublisherSteps /\ (LibraryReturns \/ SpinEnds))
  /\ WF_vars(connected /\ BrokerTakes)
  /\ WF_vars(PublisherSteps /\ BrokerConfirms)
-----------------------------------------------------------------------------
(* MqttMessage returns only after the broker has taken its own message and *)
(* the delivery was reported, however tokens are reused and calls refused. *)
(* The exception: a message that got no token while token_ was still       *)
(* uninitialised.                                                          *)
ReturnMeansDelivered == returned \subseteq (confirmed \cap taken) \cup blind

(* MqttMessage comes back for every message the library sent under a token,*)
(* unless the connection is lost: no delivery report is overwritten, also  *)
(* when the callback runs before the library call has stored the token.    *)
WaitEnds ==
  (\E m \in inflight : m.message = message) ~> (pc \in {"idle", "none"} \/ ~connected)

(* Once MqttMessage has returned for an input file of one line, and the    *)
(* subscriber that listened since before the call has written what it was  *)
(* sent, the test passes: provided no other message was passed on since,   *)
(* the record was not cut or appended to one that was, and no payload had  *)
(* several lines (a MockPublisher that sends twice makes such a one).      *)
PassAfterReturn ==
  /\ watched \in returned \ blind
  /\ transit = <<>> /\ subscriber # "writing"
  /\ Len(input) = 1 /\ OneLine
  => Verdict = "pass" \/ Last(expected) = Damaged
=============================================================================
