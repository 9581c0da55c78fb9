---------------------------- MODULE TicketAttacks ----------------------------
(***************************************************************************)
(* One experiment of run_real_ticket_recovery_experiment.py: DATA packets  *)
(* up to attack_seq, whatever their answers; a new connection; a recovery  *)
(* request with a ticket that must be refused.  The tickets come from      *)
(* generate_ticket_fixtures.py, apart from the replayed one, which is the  *)
(* session's own, used once before.                                        *)
(*                                                                         *)
(* The ticket server refuses everything on a connection without a HELLO,   *)
(* and this client sends none (hello_required).  The tickets are judged    *)
(* only by a server without that rule, which the experiment was written    *)
(* for; everything else about that server is the ticket server's code.     *)
(***************************************************************************)
EXTENDS Tickets

CONSTANTS
  MessageCounts,     \* MESSAGE_COUNTS
  TicketInterval,    \* TICKET_INTERVAL, also the checkpoint interval
  HelloRules         \* which values hello_required may have

\* Of the constants; MC modules state them (ASSUME) for their instances.
AttacksAssumption ==
  /\ MessageCounts \subseteq Nat \ {0} /\ TicketInterval \in Nat \ {0}
  /\ HelloRules \subseteq BOOLEAN

ATTACK_TYPES == {"expired_ticket", "replayed_ticket", "tampered_ticket",
                 "rollback_ticket", "wrong_session_ticket"}

VARIABLES
  message_count, attack_type, hello_required,
  pc,                \* "open", "send", "answer", "first", "reopen", "present",
                     \* "verdict" or "done"
  seq, saved_ticket,
  sent_count, accepted_count, rejected_count, timeout_count,
  attack_detected, recovery_success, server_reject_reason,
  final_server_last_seq,
  last_seq, used,    \* the server: its state, its nonce store
  answer             \* the answer the client has yet to read, or NoAnswer

config == <<message_count, attack_type, hello_required>>
counts == <<sent_count, accepted_count, rejected_count, timeout_count>>
outcome == <<attack_detected, recovery_success, server_reject_reason>>
server == <<last_seq, used>>
vars == <<config, pc, seq, saved_ticket, counts, outcome,
          final_server_last_seq, server, answer>>

NoAnswer == [ok |-> FALSE, reason |-> "none"]
NoTicket == BuildTicket("none", 0, 0, "none")

attack_seq == LET half == IF message_count \div 2 > 2 THEN message_count \div 2
                          ELSE 2
                  late == TicketInterval + TicketInterval \div 2
              IN IF half < late THEN half ELSE late

-----------------------------------------------------------------------------
(* generate_ticket_fixtures.py: all of one session that is nobody's, and    *)
(* all with one nonce.                                                     *)

valid_ticket == BuildTicket("fixture-session", TicketInterval, TicketInterval,
                            "fixture")
Fixture(attack) ==
  CASE attack = "expired_ticket" -> [valid_ticket EXCEPT !.expired = TRUE]
    [] attack = "tampered_ticket"
         -> [valid_ticket EXCEPT !.last_seq = 999999, !.signed = FALSE]
    [] attack = "rollback_ticket"
         -> [valid_ticket EXCEPT !.last_seq = 1, !.checkpoint_seq = 0]
    [] attack = "wrong_session_ticket"
         -> [valid_ticket EXCEPT !.session_id = "wrong-session-id"]
    [] OTHER -> NoTicket

\* The replayed ticket is the saved one; without a saved one it is a fixture
\* that does not exist.
AttackTicket == IF attack_type = "replayed_ticket" /\ saved_ticket # NoTicket
                THEN saved_ticket ELSE Fixture(attack_type)

Init ==
  /\ message_count \in MessageCounts /\ attack_type \in ATTACK_TYPES
  /\ hello_required \in HelloRules
  /\ pc = "open" /\ seq = 1 /\ saved_ticket = NoTicket
  /\ sent_count = 0 /\ accepted_count = 0 /\ rejected_count = 0
  /\ timeout_count = 0
  /\ attack_detected = FALSE /\ recovery_success = FALSE
  /\ server_reject_reason = "" /\ final_server_last_seq = 0
  /\ last_seq = 0 /\ used = {} /\ answer = NoAnswer

-----------------------------------------------------------------------------
(* The server's answers. *)

NotBound == [ok |-> FALSE, reason |-> "connection not bound"]

\* A DATA packet in order; the run sends no other to this server.
ServeData ==
  IF hello_required
  THEN answer' = NotBound /\ UNCHANGED server
  ELSE /\ last_seq' = seq
       /\ answer' = [ok |-> TRUE, last_seq |-> seq,
                     memory_ticket |->
                       IF seq % TicketInterval = 0
                       THEN BuildTicket("own", seq, seq, seq) ELSE NoTicket]
       /\ UNCHANGED used

RecoveryFloor == (last_seq \div TicketInterval) * TicketInterval

RecoveryReason(ticket) ==
  IF ticket = NoTicket THEN "missing memory_ticket"
  ELSE TicketReason(ticket, "own", RecoveryFloor, used)

ServeRecovery(ticket) ==
  /\ answer' = IF hello_required THEN NotBound
               ELSE [ok |-> RecoveryReason(ticket) = "ok",
                     reason |-> RecoveryReason(ticket),
                     server_last_seq |-> last_seq]
  /\ used' = IF ~hello_required /\ RecoveryReason(ticket) = "ok"
             THEN used \union {ticket.ticket_nonce} ELSE used
  /\ UNCHANGED last_seq

-----------------------------------------------------------------------------
(* The client. *)

Open ==
  /\ pc = "open"
  /\ pc' = "send"
  /\ UNCHANGED <<config, seq, saved_ticket, counts, outcome,
                 final_server_last_seq, server, answer>>

Send ==
  /\ pc = "send" /\ seq <= message_count
  /\ sent_count' = sent_count + 1
  /\ ServeData
  /\ pc' = "answer"
  /\ UNCHANGED <<config, seq, saved_ticket, accepted_count, rejected_count,
                 timeout_count, outcome, final_server_last_seq>>

HasTicket == "memory_ticket" \in DOMAIN answer
               /\ answer.memory_ticket # NoTicket

\* The answer is counted; at attack_seq the connection is closed.
Receive ==
  /\ pc = "answer"
  /\ saved_ticket' = IF HasTicket THEN answer.memory_ticket ELSE saved_ticket
  /\ final_server_last_seq' = IF "last_seq" \in DOMAIN answer
                              THEN answer.last_seq ELSE final_server_last_seq
  /\ IF answer.ok
     THEN accepted_count' = accepted_count + 1 /\ UNCHANGED rejected_count
     ELSE rejected_count' = rejected_count + 1 /\ UNCHANGED accepted_count
  /\ answer' = NoAnswer
  /\ IF seq = attack_seq /\ ~attack_detected
     THEN /\ attack_detected' = TRUE
          /\ pc' = IF attack_type = "replayed_ticket" /\ saved_ticket' # NoTicket
                   THEN "first" ELSE "reopen"
          /\ UNCHANGED seq
     ELSE /\ seq' = seq + 1 /\ pc' = "send"
          /\ UNCHANGED attack_detected
  /\ UNCHANGED <<config, sent_count, timeout_count, recovery_success,
                 server_reject_reason, server>>

\* The first use of the ticket; its outcome changes nothing for the client.
FirstUse ==
  /\ pc = "first"
  /\ ServeRecovery(saved_ticket)
  /\ pc' = "reopen"
  /\ UNCHANGED <<config, seq, saved_ticket, counts, outcome,
                 final_server_last_seq>>

Reopen ==
  /\ pc = "reopen"
  /\ answer' = NoAnswer
  /\ pc' = "present"
  /\ UNCHANGED <<config, seq, saved_ticket, counts, outcome,
                 final_server_last_seq, server>>

Present ==
  /\ pc = "present"
  /\ ServeRecovery(AttackTicket)
  /\ pc' = "verdict"
  /\ UNCHANGED <<config, seq, saved_ticket, counts, outcome,
                 final_server_last_seq>>

Verdict ==
  /\ pc = "verdict"
  /\ IF answer.ok
     THEN /\ recovery_success' = TRUE
          /\ final_server_last_seq' = answer.server_last_seq
          /\ seq' = answer.server_last_seq + 1
          /\ server_reject_reason' = ""
          /\ pc' = "send"
     ELSE /\ server_reject_reason' = answer.reason
          /\ pc' = "done"
          /\ UNCHANGED <<recovery_success, final_server_last_seq, seq>>
  /\ UNCHANGED <<config, saved_ticket, counts, attack_detected, server, answer>>

Finish ==
  /\ pc = "send" /\ seq > message_count
  /\ pc' = "done"
  /\ UNCHANGED <<config, seq, saved_ticket, counts, outcome,
                 final_server_last_seq, server, answer>>

\* Mutant: a connection that breaks after the attack is opened again, without
\* end.
FailsRetrying ==
  /\ pc \in {"open", "answer", "first", "present", "verdict"}
  /\ timeout_count' = IF pc = "answer" THEN timeout_count + 1 ELSE timeout_count
  /\ pc' = IF pc \in {"present", "verdict"} THEN "reopen" ELSE "done"
  /\ UNCHANGED <<config, seq, saved_ticket, sent_count, accepted_count,
                 rejected_count, outcome, final_server_last_seq, server, answer>>

\* A timeout or any other exception of a connection ends the run; the
\* timeout of a DATA answer is counted.
Fails ==
  /\ pc \in {"open", "answer", "first", "reopen", "present", "verdict"}
  /\ timeout_count' = IF pc = "answer" THEN timeout_count + 1 ELSE timeout_count
  /\ pc' = "done"
  /\ UNCHANGED <<config, seq, saved_ticket, sent_count, accepted_count,
                 rejected_count, outcome, final_server_last_seq, server, answer>>

Done == pc = "done" /\ UNCHANGED vars

Client == Open \/ Send \/ Receive \/ FirstUse \/ Reopen \/ Present \/ Verdict
            \/ Finish
Next == Client \/ Fails \/ Done

\* Every read has a timeout: the client goes on, or fails.
Spec == Init /\ [][Next]_vars /\ WF_vars(Client \/ Fails)

-----------------------------------------------------------------------------
(* Properties. *)

\* TypeOK: every packet sent is accounted for, but the one under way.
TypeOK ==
  /\ pc \in {"open", "send", "answer", "first", "reopen", "present", "verdict",
             "done"}
  /\ seq \in 1..(message_count + 1)
  /\ accepted_count + rejected_count + timeout_count \in {sent_count - 1, sent_count}
  /\ final_server_last_seq <= last_seq

\* NoAttackRecovers: no attack gets a recovery, whatever breaks in between: a
\* replayed ticket was consumed by its first use, the others never pass.
NoAttackRecovers == ~recovery_success

\* ReasonIsItsOwn: without the HELLO rule a refusal of an expired, a tampered,
\* a replayed or a foreign ticket names just that.
ReasonIsItsOwn ==
  pc = "done" /\ ~hello_required /\ server_reject_reason # "" =>
    attack_type = "rollback_ticket" \/ server_reject_reason =
      CASE attack_type = "expired_ticket" -> "ticket expired"
        [] attack_type = "tampered_ticket" -> "invalid ticket auth tag"
        [] attack_type = "replayed_ticket" -> "ticket replay detected"
        [] OTHER -> "session_id mismatch"

=============================================================================
