SPECIFICATION Spec
CONSTANTS
  Sessions = {s1}
  NoSession = none
  Conns = {c1}
  Greets = {}
  LockStrategy = "per_session_lock"
  TicketInterval = 2
  DiskMayFail = FALSE
  MaxLines = 2
INVARIANTS
  DriversAreServed
