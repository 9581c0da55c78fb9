SPECIFICATION Spec
CONSTANTS
  Spoken = {"hash_chain"}
  Sessions = {s1}
  Epochs = {1}
  Conns = {c1}
  MaxLines = 4
INVARIANTS
  ChainAnswersRecover
