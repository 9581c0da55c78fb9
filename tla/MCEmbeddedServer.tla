-------------------------- MODULE MCEmbeddedServer --------------------------
(***************************************************************************)
(* EmbeddedServer with two clients at a time.                              *)
(***************************************************************************)
EXTENDS EmbeddedServer

CONSTANTS c1, c2

TwoTickets == c1 :> "ticket_only" @@ c2 :> "ticket_only"

=============================================================================
