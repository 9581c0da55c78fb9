SPECIFICATION Spec
CONSTANTS
  c1 = c1
  c2 = c2
  Clients = {c1, c2}
  ProtocolOf <- TwoTickets
  MessageCount = 1
  MayFail = FALSE
INVARIANTS
  TicketsAreTheirs
