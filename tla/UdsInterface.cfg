\* Two objects on one Client.
SPECIFICATION Spec
CONSTANTS
  Interfaces = {i1, i2}
  MaxMessages = 3
INVARIANTS TypeOK LossNeedsSharing
PROPERTIES ImplementsMailboxes
CHECK_DEADLOCK FALSE
