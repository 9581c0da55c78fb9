SPECIFICATION Spec
CONSTANTS
  Payloads = {a}
  NoPayload = none
  Conns = {c1, c2}
  Intervals = {2}
  DefaultInterval = 2
  TicketInterval = 2
  SavesReplacement = FALSE
  MaxSeq = 3
  MaxTickets = 3
PROPERTIES
  ReplacementTicketSaved
