\* Identifiers are reused: NotifyMessageId throws.
CONSTANTS
  thread1 = thread1
  thread2 = thread2
  announcement = announcement
  data = data
  Threads <- Both
  Topics <- BothTopics
  Announcement = announcement
  Uses <- SharedUses
  MaxMid = 2
  MaxPackets = 4
  MaxMessages = 1
SPECIFICATION Spec
INVARIANTS NoDuplicateId
CHECK_DEADLOCK FALSE
