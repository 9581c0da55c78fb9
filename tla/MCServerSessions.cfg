SPECIFICATION Spec
CONSTANTS
  Sessions = {s1, s2}
  NoSession = none
  Conns = {c1, c2, c3}
  Greets = {c1, c2, c3}
  LockStrategy = "per_session_lock"
  TicketInterval = 2
  DiskMayFail = TRUE
  MaxLines = 4
INVARIANTS
  TypeOK
  OneContextPerSession
  AckedInHistory
  StatsMatchHistory
  ValidatedStaysUnused
PROPERTIES
  ChangesOnlyBoundSession
  ImplementsAtomicSessions
SYMMETRY Symmetry
