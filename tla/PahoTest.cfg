\* Two calls of MqttMessage with the same token, one message of another publisher,
\* one kill of the subscriber.
SPECIFICATION FairSpec
CONSTANTS
  MaxToken = 1
  MaxCalls = 2
  Payloads <- OtherTexts
  Inputs <- Files
  MaxKills = 1
  MaxOthers = 1
INVARIANTS TypeOK ReturnMeansDelivered ReadBack PassIsEarned PassAfterReturn
PROPERTIES WaitEnds
CHECK_DEADLOCK FALSE
