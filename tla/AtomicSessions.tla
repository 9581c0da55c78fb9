--------------------------- MODULE AtomicSessions ---------------------------
(***************************************************************************)
(* The sessions of a ticket server with its threads and locks left out:    *)
(* accepting a message and accepting a recovery are one step each.  This   *)
(* is the server TicketRecovery takes for granted.                         *)
(***************************************************************************)
EXTENDS Naturals, Sequences

CONSTANTS Sessions, Payloads

VARIABLES log,     \* the accepted payloads of each session
          issued,  \* the tickets issued, in order
          spent    \* the tickets used for a recovery

Init ==
  /\ log = [s \in Sessions |-> <<>>]
  /\ issued = <<>>
  /\ spent = {}

Ticket(s, seq) == [session |-> s, last_seq |-> seq]

\* A message extends its session's history; some get a ticket for the new one.
Accept(s) ==
  /\ \E payload \in Payloads : log' = [log EXCEPT ![s] = Append(@, payload)]
  /\ issued' \in {issued, Append(issued, Ticket(s, Len(log'[s])))}
  /\ UNCHANGED spent

\* A ticket is exchanged, once, for one that binds the present history.
Recover(s) ==
  /\ \E n \in DOMAIN issued \ spent :
       /\ issued[n].session = s
       /\ spent' = spent \union {n}
  /\ issued' = Append(issued, Ticket(s, Len(log[s])))
  /\ UNCHANGED log

Next == \E s \in Sessions : Accept(s) \/ Recover(s)

Spec == Init /\ [][Next]_<<log, issued, spent>>

=============================================================================
