-------------------------- MODULE MCTicketRecovery --------------------------
(***************************************************************************)
(* TicketRecovery on small instances.  Connections and payloads are        *)
(* interchangeable: no action or property tells one from another.          *)
(***************************************************************************)
EXTENDS TicketRecovery

Symmetry == Permutations(Conns) \union Permutations(Payloads)

=============================================================================
