\* gmcp_r stands for both chained protocols, which the experiment treats alike.
SPECIFICATION Spec
CONSTANTS
  MessageCount = 3
  Protocols = {"gmcp_r", "seq_mac"}
  MayTimeOut = TRUE
INVARIANTS
  ValidRunHadNoTimeout
\* A run ends.
CHECK_DEADLOCK FALSE
