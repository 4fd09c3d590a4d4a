\* Two objects on one Client, one of them possibly moved from.
SPECIFICATION Spec
CONSTANTS
  Proxies = {p1, p2}
  Contents = {c1, c2}
  Undecodable = undecodable
  AnyContent = any
  MaxMessages = 4
INVARIANTS TypeOK NeverWaitsForKept LossNeedsSharing
PROPERTIES ImplementsMailbox OrderPerContent
CHECK_DEADLOCK FALSE
