\* Two threads, two topics, one loss of the connection.
SPECIFICATION FairSpec
CONSTANTS
  Threads = {owner, other}
  Owner = owner
  Topics = {announcement, data}
  Announcement = announcement
  Status = status
  MaxCalls = 3
  MaxMessages = 1
  MaxLosses = 1
INVARIANTS TypeOK EndsHaveCauses Agreement NothingMissed StatusWithdrawn
PROPERTIES DestructorEnds
CHECK_DEADLOCK FALSE
