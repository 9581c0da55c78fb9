SPECIFICATION Spec
CONSTANTS
  Spoken = {"hash_chain", "seq_mac"}
  Sessions = {s1, s2}
  Epochs = {1}
  Conns = {c1, c2}
  MaxLines = 3
INVARIANTS
  AnswersCoverSnapshot
PROPERTIES
  ImplementsAtomicSessions
SYMMETRY Symmetry
