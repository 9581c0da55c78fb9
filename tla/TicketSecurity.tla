--------------------------- MODULE TicketSecurity ---------------------------
(***************************************************************************)
(* run_ticket_security_experiment.py: each of six tickets is presented, a  *)
(* number of times over, to the verification that a recovery makes; the    *)
(* nonces used so far are forgotten before each presentation.              *)
(***************************************************************************)
EXTENDS Tickets, Sequences, FiniteSets

CONSTANT Repeats   \* how often each ticket is presented

\* Of the constant; MC modules state it (ASSUME) for their instances.
RepeatsAssumption == Repeats \in Nat \ {0}

ATTACK_TYPES == <<"valid_ticket", "expired_ticket", "replayed_ticket",
                  "tampered_ticket", "wrong_session_ticket", "rollback_ticket">>
EXPECTED_SESSION_ID == "ticket-security-session"
CURRENT_LAST_SEQ == 100

VARIABLES
  pc,      \* "clear", "first", "verify", "save" or "done"
  ticket,
  used,    \* USED_TICKET_NONCES
  nonces,  \* how many tickets were built: each has a nonce of its own
  rows, csv

vars == <<pc, ticket, used, nonces, rows, csv>>

NoTicket == BuildTicket("none", 0, 0, 0)
attack_type == ATTACK_TYPES[Len(rows) \div Repeats + 1]

Init ==
  /\ pc = "clear" /\ ticket = NoTicket
  /\ used = {} /\ nonces = 0 /\ rows = <<>> /\ csv = <<>>

-----------------------------------------------------------------------------

Base(session, last_seq) ==
  BuildTicket(session, last_seq, last_seq - 10, nonces + 1)

PresentedTicket ==
  CASE attack_type = "expired_ticket"
         -> [Base(EXPECTED_SESSION_ID, CURRENT_LAST_SEQ) EXCEPT !.expired = TRUE]
    [] attack_type = "tampered_ticket"
         -> [Base(EXPECTED_SESSION_ID, CURRENT_LAST_SEQ) EXCEPT !.signed = FALSE]
    [] attack_type = "wrong_session_ticket"
         -> Base("wrong-session", CURRENT_LAST_SEQ)
    [] attack_type = "rollback_ticket"
         -> Base(EXPECTED_SESSION_ID, CURRENT_LAST_SEQ - 40)
    [] OTHER -> Base(EXPECTED_SESSION_ID, CURRENT_LAST_SEQ)

\* One experiment begins: the store is cleared, its ticket is built.
Begin ==
  /\ pc = "clear" /\ Len(rows) < Len(ATTACK_TYPES) * Repeats
  /\ used' = {}
  /\ ticket' = PresentedTicket /\ nonces' = nonces + 1
  /\ pc' = IF attack_type = "replayed_ticket" THEN "first" ELSE "verify"
  /\ UNCHANGED <<rows, csv>>

Reason == TicketReason(ticket, EXPECTED_SESSION_ID, CURRENT_LAST_SEQ, used)

\* Mutant: a ticket is not consumed by its use.
ConsumedNot == used

\* verify_memory_ticket_for_recovery keeps the nonce of a ticket it passes.
Consumed == IF Reason = "ok" THEN used \union {ticket.ticket_nonce} ELSE used

\* The replayed ticket's first use, whose outcome is not looked at.
FirstUse ==
  /\ pc = "first"
  /\ used' = Consumed
  /\ pc' = "verify"
  /\ UNCHANGED <<ticket, nonces, rows, csv>>

Present ==
  /\ pc = "verify"
  /\ LET valid == attack_type = "valid_ticket" IN
       rows' = Append(rows,
         [attack_type |-> attack_type, ticket_verified |-> Reason = "ok",
          attack_detected |-> ~valid /\ Reason # "ok", reason |-> Reason,
          recovery_allowed |-> valid /\ Reason = "ok",
          ticket_nonce |-> ticket.ticket_nonce])
  /\ used' = Consumed
  /\ pc' = "clear"
  /\ UNCHANGED <<ticket, nonces, csv>>

Save ==
  /\ pc = "clear" /\ Len(rows) = Len(ATTACK_TYPES) * Repeats
  /\ csv' = rows
  /\ pc' = "done"
  /\ UNCHANGED <<ticket, used, nonces, rows>>

Work == Begin \/ FirstUse \/ Present \/ Save
Done == pc = "done" /\ UNCHANGED vars
Next == Work \/ Done
Spec == Init /\ [][Next]_vars /\ WF_vars(Work)

-----------------------------------------------------------------------------
(* Properties *)

\* TypeOK: the rows are those of the grid, in its order.
TypeOK ==
  /\ pc \in {"clear", "first", "verify", "done"}
  /\ Len(rows) <= Len(ATTACK_TYPES) * Repeats
  /\ \A i \in DOMAIN rows :
       rows[i].attack_type = ATTACK_TYPES[(i - 1) \div Repeats + 1]
  /\ used \subseteq 1..nonces

\* EachForItsOwnReason: in every repeat the valid ticket alone is verified, and
\* every other one is refused for what was done to it.
EachForItsOwnReason ==
  \A i \in DOMAIN rows :
    /\ rows[i].attack_detected <=> ~rows[i].recovery_allowed
    /\ rows[i].reason =
         CASE rows[i].attack_type = "valid_ticket" -> "ok"
           [] rows[i].attack_type = "expired_ticket" -> "ticket expired"
           [] rows[i].attack_type = "replayed_ticket" -> "ticket replay detected"
           [] rows[i].attack_type = "tampered_ticket" -> "invalid ticket auth tag"
           [] rows[i].attack_type = "wrong_session_ticket"
                -> "session_id mismatch"
           [] OTHER -> "rollback detected"

=============================================================================
