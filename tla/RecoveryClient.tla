--------------------------- MODULE RecoveryClient ---------------------------
(***************************************************************************)
(* One experiment of run_real_recovery_experiment.py: a stop-and-wait      *)
(* client that plays an attack (or a disconnection) at attack_seq, asks    *)
(* for recovery once the attack shows, and goes on from the state it is    *)
(* given.                                                                  *)
(*                                                                         *)
(* Three servers may answer it.  "tcp" is real_tcp_server.py: it answers a *)
(* recovery request with its state, unsigned, and verify_recovery_response *)
(* refuses the answer.  "ticket" is real_tcp_server_with_ticket.py: it     *)
(* signs, but refuses everything on a connection without a HELLO, which    *)
(* this client never sends.  "signing" is the server the client is written *)
(* for, the first one with a signature; the repository does not hold it.   *)
(* Tickets, sizes and measured times are left out.                         *)
(***************************************************************************)
EXTENDS PlainServer

CONSTANTS
  MessageCounts,     \* MESSAGE_COUNTS
  TicketInterval,    \* TICKET_INTERVAL: the attack comes right after it
  Servers            \* the servers the experiment may be pointed at

Attacks == {"drop", "modify", "replay", "prev_mem", "disconnect"}

\* Of the constants; MC modules state them (ASSUME) for their instances.
CountsAssumption ==
  MessageCounts \subseteq Nat \ {0} /\ TicketInterval \in Nat \ {0}
ServersAssumption == Servers \subseteq {"tcp", "ticket", "signing"}

VARIABLES
  message_count, attack_type, server,
  pc,                \* "open", "loop", "reopen", "answer", "recover" or "done"
  seq, current_mem, saved_packets, attack_done,
  accepted_count, rejected_count, timeout_count,
  attack_detected, recovery_requested, recovered, recovery_success,
  detection_reason, recovery_reason,
  final_server_mem, final_server_last_seq,
  wire,              \* the one message under way, or NoMessage
  session            \* the server's state of the run's session_id

config == <<message_count, attack_type, server>>
counts == <<accepted_count, rejected_count, timeout_count>>
history == <<seq, current_mem, saved_packets>>
final == <<final_server_mem, final_server_last_seq>>
recovery == <<attack_detected, recovery_requested, recovered, recovery_success,
              detection_reason, recovery_reason>>
vars == <<config, pc, history, attack_done, counts, recovery, final, wire,
          session>>

NoMessage == [kind |-> "none"]

attack_seq == IF message_count < TicketInterval + 1 THEN message_count
              ELSE TicketInterval + 1
replay_seq == IF attack_seq \div 2 > 1 THEN attack_seq \div 2 ELSE 1

Init ==
  /\ message_count \in MessageCounts /\ attack_type \in Attacks
  /\ server \in Servers
  /\ pc = "open"
  /\ seq = 1 /\ current_mem = <<>> /\ saved_packets = <<>>
  /\ attack_done = FALSE
  /\ accepted_count = 0 /\ rejected_count = 0 /\ timeout_count = 0
  /\ attack_detected = FALSE /\ recovery_requested = FALSE
  /\ recovered = FALSE /\ recovery_success = FALSE
  /\ detection_reason = "normal" /\ recovery_reason = "not_started"
  /\ final_server_mem = <<>> /\ final_server_last_seq = 0
  /\ wire = NoMessage /\ session = FreshSession

-----------------------------------------------------------------------------
\* Mutant: the read of the recovery response has no timeout.
SocketFailsNotInRecovery ==
  /\ pc \in {"open", "loop", "reopen", "answer"}
  /\ pc = "loop" => seq <= message_count
  /\ timeout_count' = timeout_count + 1
  /\ detection_reason' = "tcp error"
  /\ pc' = "done"
  /\ UNCHANGED <<config, history, attack_done, accepted_count, rejected_count,
                 attack_detected, recovery_requested, recovered,
                 recovery_success, recovery_reason, final, wire, session>>

\* Any exception of the sockets, or a timeout, ends the run.
SocketFails ==
  /\ pc \in {"open", "loop", "reopen", "answer", "recover"}
  /\ pc = "loop" => seq <= message_count
  /\ timeout_count' = timeout_count + 1
  /\ detection_reason' = "tcp error"
  /\ pc' = "done"
  /\ UNCHANGED <<config, history, attack_done, accepted_count, rejected_count,
                 attack_detected, recovery_requested, recovered,
                 recovery_success, recovery_reason, final, wire, session>>

Open ==
  /\ pc = "open"
  /\ pc' = "loop"
  /\ UNCHANGED <<config, history, attack_done, counts, recovery, final, wire,
                 session>>

AttackNow == pc = "loop" /\ seq <= message_count /\ seq = attack_seq
               /\ ~attack_done

\* disconnect: the client closes its connection and opens another one, on
\* which it asks for recovery.
Disconnect ==
  /\ AttackNow /\ attack_type = "disconnect"
  /\ attack_done' = TRUE
  /\ attack_detected' = TRUE
  /\ detection_reason' = "client simulated disconnect"
  /\ pc' = "reopen"
  /\ UNCHANGED <<config, history, counts, recovery_requested, recovered,
                 recovery_success, recovery_reason, final, wire, session>>

\* request_recovery: the client claims what it has acknowledged.
RequestRecovery ==
  /\ recovery_requested' = TRUE
  /\ wire' = [kind |-> "RECOVERY_REQUEST"]
  /\ pc' = "recover"

Reopen ==
  /\ pc = "reopen"
  /\ RequestRecovery
  /\ UNCHANGED <<config, history, attack_done, counts, attack_detected,
                 recovered, recovery_success, detection_reason,
                 recovery_reason, final, session>>

\* drop: the packet is built and never sent.
Drop ==
  /\ AttackNow /\ attack_type = "drop"
  /\ attack_done' = TRUE
  /\ seq' = seq + 1
  /\ UNCHANGED <<config, pc, current_mem, saved_packets, counts, recovery,
                 final, wire, session>>

Attacked(p) ==
  CASE attack_type = "modify" -> ModifyPayload(p)
    [] attack_type = "prev_mem" -> ModifyPrevMem(p, TRUE)
    [] attack_type = "replay" /\ replay_seq \in DOMAIN saved_packets
         -> saved_packets[replay_seq]
    [] OTHER -> p

Packet == LET p == DataPacket(seq, current_mem)
          IN IF AttackNow THEN Attacked(p) ELSE p

Send ==
  /\ pc = "loop" /\ seq <= message_count
  /\ ~(AttackNow /\ attack_type \in {"disconnect", "drop"})
  /\ attack_done' = (attack_done \/ AttackNow)
  /\ wire' = [kind |-> "DATA", packet |-> Packet]
  /\ pc' = "answer"
  /\ UNCHANGED <<config, history, counts, recovery, final, session>>

\* The ticket server before a HELLO: no state in the answer, none changed.
HelloRequired ==
  [ok |-> FALSE, signed |-> TRUE, reason |-> "connection not bound"]

\* The answer to a recovery request.
RecoveryAnswer ==
  IF server = "ticket" THEN HelloRequired
  ELSE [ok |-> TRUE, signed |-> server = "signing",
        last_seq |-> session.last_seq, last_mem |-> session.last_mem]

\* The server handles the line: verify_data_packet, or the recovery state.
Serve ==
  /\ \/ /\ wire.kind = "DATA" /\ server # "ticket"
        /\ session' = After(session, wire.packet)
        /\ wire' = [kind |-> "response",
                    response |-> Verdict(session, wire.packet)]
     \/ /\ wire.kind = "DATA" /\ server = "ticket"
        /\ wire' = [kind |-> "response", response |-> HelloRequired]
        /\ UNCHANGED session
     \/ /\ wire.kind = "RECOVERY_REQUEST"
        /\ wire' = [kind |-> "response", response |-> RecoveryAnswer]
        /\ UNCHANGED session
  /\ UNCHANGED <<config, pc, history, attack_done, counts, recovery, final>>

\* Mutant: the dropped number is kept as the next one after a recovery.
ResumeAtClient(response) == seq
ResumeAt(response) == response.last_seq + 1

ResumeMemory(response) == response.last_mem

\* The saved packet of seq is the one accepted under it.
Save(packets, n, p) ==
  [i \in DOMAIN packets \union {n} |-> IF i = n THEN p ELSE packets[i]]

\* The state a DATA answer carries; what it does not carry stays.
FinalFrom(response) ==
  IF "last_seq" \in DOMAIN response
  THEN /\ final_server_mem' = response.last_mem
       /\ final_server_last_seq' = response.last_seq
  ELSE UNCHANGED final

Accepted ==
  /\ pc = "answer" /\ wire.kind = "response" /\ wire.response.ok
  /\ FinalFrom(wire.response)
  /\ accepted_count' = accepted_count + 1
  /\ saved_packets' = Save(saved_packets, seq, DataPacket(seq, current_mem))
  /\ current_mem' = Append(current_mem, seq)
  /\ seq' = seq + 1
  /\ pc' = "loop"
  /\ wire' = NoMessage
  /\ UNCHANGED <<config, attack_done, rejected_count, timeout_count, recovery,
                 session>>

\* A rejection is taken for the attack, and recovery starts at once.
Rejected ==
  /\ pc = "answer" /\ wire.kind = "response" /\ ~wire.response.ok
  /\ FinalFrom(wire.response)
  /\ rejected_count' = rejected_count + 1
  /\ attack_detected' = TRUE
  /\ detection_reason' = wire.response.reason
  /\ RequestRecovery
  /\ UNCHANGED <<config, history, attack_done, accepted_count, timeout_count,
                 recovered, recovery_success, recovery_reason, session>>

RecoveryAnswered ==
  /\ pc = "recover" /\ wire.kind = "response"
  /\ wire' = NoMessage
  /\ IF wire.response.signed /\ wire.response.ok
     THEN /\ recovered' = TRUE /\ recovery_success' = TRUE
          /\ recovery_reason' = "ok"
          /\ final_server_last_seq' = wire.response.last_seq
          /\ final_server_mem' = wire.response.last_mem
          /\ current_mem' = ResumeMemory(wire.response)
          /\ seq' = ResumeAt(wire.response)
          /\ pc' = "loop"
     ELSE /\ recovery_reason' = IF wire.response.signed THEN "ok"
                               ELSE "missing recovery_auth_tag"
          /\ pc' = "done"
          /\ UNCHANGED <<recovered, recovery_success, final, current_mem, seq>>
  /\ UNCHANGED <<config, saved_packets, attack_done, counts, attack_detected,
                 recovery_requested, detection_reason, session>>

Finish ==
  /\ pc = "loop" /\ seq > message_count
  /\ pc' = "done"
  /\ UNCHANGED <<config, history, attack_done, counts, recovery, final, wire,
                 session>>

Done == pc = "done" /\ UNCHANGED vars

Client == Open \/ Disconnect \/ Reopen \/ Drop \/ Send \/ Accepted \/ Rejected
            \/ RecoveryAnswered \/ Finish
Next == Client \/ SocketFails \/ Serve \/ Done

\* The client stops at no point of its own will; a read has a timeout, so it
\* ends even if the server never answers.
Spec == Init /\ [][Next]_vars /\ WF_vars(Client \/ SocketFails)

-----------------------------------------------------------------------------
(* The columns of the row. *)

memory_match_after_recovery == current_mem = final_server_mem
full_recovery_success ==
  /\ attack_detected /\ recovery_requested /\ recovery_success
  /\ final_server_last_seq = message_count
  /\ memory_match_after_recovery /\ timeout_count = 0

-----------------------------------------------------------------------------
(* Properties. *)

\* TypeOK: one attack and at most one rejection of it are counted, and the
\* client's memory is made of the run's messages.
TypeOK ==
  /\ pc \in {"open", "loop", "reopen", "answer", "recover", "done"}
  /\ seq \in 1..(message_count + 1)
  /\ accepted_count \in 0..message_count
  /\ rejected_count \in 0..1 /\ timeout_count \in 0..1
  /\ current_mem \in Seq(1..message_count)
  /\ session.last_seq = Len(session.last_mem)

\* InStep: whenever the client is about to send, its memory is the server's,
\* before the attack and after the recovery, and it is about to send the next
\* number, or the one after a number it dropped.
InStep ==
  pc = "loop" =>
    /\ current_mem = session.last_mem
    /\ \/ seq = session.last_seq + 1
       \/ /\ attack_type = "drop" /\ attack_done /\ ~recovered
          /\ seq = attack_seq + 1 /\ session.last_seq = attack_seq - 1

\* FullRecoveryIsWhole: a row that reports full_recovery_success stands for an
\* attack that was played and a server that holds every message in order.
FullRecoveryIsWhole ==
  pc = "done" /\ full_recovery_success =>
    attack_done /\ session.last_mem = History(message_count)

\* OneDetour: with the server it is written for, in a run that nothing
\* disturbs, the attack costs the client one recovery, and the row is a
\* success; the number of messages must exceed the position of the attack, as
\* the comment at MESSAGE_COUNTS demands.
OneDetour ==
  pc = "done" /\ server = "signing" /\ timeout_count = 0 /\ message_count > TicketInterval + 1 =>
    full_recovery_success /\ accepted_count = message_count

=============================================================================
