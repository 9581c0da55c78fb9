SPECIFICATION FairSpec
CONSTANTS
  Sessions = {s1, s2}
  NoSession = none
  Conns = {c1, c2}
  Greets = {c1, c2}
  LockStrategy = "global_lock"
  TicketInterval = 1
  DiskMayFail = TRUE
  MaxLines = 3
INVARIANTS
  CriticalSectionsExclusive
PROPERTIES
  EveryLineAnswered
