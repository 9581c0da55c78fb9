\* gmcp_r stands for both chained protocols, which the experiment treats alike.
\* Four messages have an early, a middle and a late disconnect point, as the
\* formal matrix does.
SPECIFICATION FairSpec
CONSTANTS
  MessageCount = 4
  Protocols = {"gmcp_r", "seq_mac"}
  MayTimeOut = TRUE
INVARIANTS
  TypeOK
  AccountsBalance
  RunValidSound
  NoFalseAlarm
  GateAgrees
PROPERTIES
  ImplementsSharedHistory
  RunEnds
\* A run ends.
CHECK_DEADLOCK FALSE
