------------------------------ MODULE Tickets ------------------------------
(***************************************************************************)
(* gmcp/ticket.py as operators: what a MemoryTicket holds, the order of    *)
(* its checks, and the reason each check gives.  A tag is told by the      *)
(* answer to one question: was it made over these fields with the server's *)
(* key?  The clock is told by expired.                                     *)
(***************************************************************************)
EXTENDS Integers

\* build_memory_ticket: a fresh nonce, signed, not yet expired.
BuildTicket(session, last_seq, checkpoint_seq, nonce) ==
  [session_id |-> session, last_seq |-> last_seq,
   checkpoint_seq |-> checkpoint_seq, ticket_nonce |-> nonce,
   signed |-> TRUE, expired |-> FALSE]

\* Mutant: the bindings are checked before the tag.
TicketReasonBindingFirst(ticket, session, min_last_seq, used) ==
  CASE ticket.session_id # session -> "session_id mismatch"
    [] ticket.session_id = session /\ ~ticket.signed
         -> "invalid ticket auth tag"
    [] OTHER -> "ok"

\* Mutant: the nonce is not looked up.
TicketReasonAnyNonce(ticket, session, min_last_seq, used) ==
  CASE ~ticket.signed -> "invalid ticket auth tag"
    [] ticket.signed /\ ticket.expired -> "ticket expired"
    [] OTHER -> IF ticket.session_id # session THEN "session_id mismatch"
                ELSE "ok"

\* _verify_memory_ticket_signature_and_fields, then the bindings to the
\* request, the floor and the nonce: the first check that fails gives the
\* reason.
TicketReason(ticket, session, min_last_seq, used) ==
  IF ~ticket.signed THEN "invalid ticket auth tag"
  ELSE IF ticket.expired THEN "ticket expired"
  ELSE IF ticket.checkpoint_seq > ticket.last_seq
       THEN "checkpoint_seq exceeds last_seq"
  ELSE IF ticket.session_id # session THEN "session_id mismatch"
  ELSE IF ticket.last_seq < min_last_seq THEN "rollback detected"
  ELSE IF ticket.ticket_nonce \in used THEN "ticket replay detected"
  ELSE "ok"
=============================================================================
