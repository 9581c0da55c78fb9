SPECIFICATION Spec
CONSTANTS
  Payloads = {a, b}
  NoPayload = none
  Conns = {c1, c2, c3}
  Intervals = {2, 3}
  DefaultInterval = 3
  TicketInterval = 2
  SavesReplacement = TRUE
  MaxSeq = 4
  MaxTickets = 4
INVARIANTS
  TypeOK
  CheckpointsOnHistory
  TicketsOnHistory
  CheckpointComparisonNeverFails
  ClientOnHistory
  AtMostOneInDoubt
  RecoveryWindowBounded
  NoFalseDiscontinuity
  ResponsesAgreeWithClient
  RaceHasOneWinner
PROPERTIES
  SpentTicketsStaySpent
  ImplementsSharedHistory
SYMMETRY Symmetry
