-------------------------- MODULE CheckpointClient --------------------------
(***************************************************************************)
(* One experiment of run_checkpoint_recovery_experiment.py.  The client    *)
(* keeps checkpoints of its own memory, one per checkpoint_interval, and   *)
(* the messages that were accepted.  At attack_seq it disconnects, drops   *)
(* or modifies a message, asks the server for its state, and rebuilds that *)
(* state from its latest checkpoint and the messages after it.             *)
(*                                                                         *)
(* The servers are those of RecoveryClient: "tcp" answers unsigned,        *)
(* "ticket" demands a HELLO this client never sends, "signing" is the one  *)
(* the client is written for and the repository does not hold.             *)
(***************************************************************************)
EXTENDS PlainServer, FiniteSets

CONSTANTS
  MessageCounts,         \* MESSAGE_COUNTS
  CheckpointIntervals,   \* CHECKPOINT_INTERVALS
  TicketInterval,        \* TICKET_INTERVAL
  AfterTicket,           \* the 50 messages between it and the attack
  BeforeEnd,             \* the 10 messages left after the attack of a short run
  Servers

Attacks == {"disconnect", "drop", "modify"}

\* Of the constants; MC modules state them (ASSUME) for their instances.
ClientAssumption ==
  /\ MessageCounts \subseteq Nat \ {0} /\ CheckpointIntervals \subseteq Nat \ {0}
  /\ TicketInterval \in Nat \ {0} /\ AfterTicket \in Nat /\ BeforeEnd \in Nat
  /\ Servers \subseteq {"tcp", "ticket", "signing"}

VARIABLES
  message_count, attack_type, checkpoint_interval, server,
  pc,                    \* "open", "loop", "reopen", "answer", "recover", "done"
  seq, current_mem, saved_messages, checkpoints, attack_done,
  accepted_count, rejected_count, timeout_count,
  attack_detected, recovery_requested, recovery_success, detection_reason,
  memory_match_after_recovery,
  rebuilt,               \* what the recovery fixed and reconstructed
  wire, session

config == <<message_count, attack_type, checkpoint_interval, server>>
counts == <<accepted_count, rejected_count, timeout_count>>
history == <<seq, current_mem, saved_messages, checkpoints>>
detection == <<attack_done, attack_detected, detection_reason>>
recovery == <<recovery_requested, recovery_success,
              memory_match_after_recovery, rebuilt>>
vars == <<config, pc, history, counts, detection, recovery, wire, session>>

NoMessage == [kind |-> "none"]
NotRebuilt == [checkpoint_seq |-> 0, target_seq |-> 0, target_mem |-> <<>>,
               mem |-> <<>>, replay_count |-> 0, match |-> FALSE]

attack_seq == IF TicketInterval + AfterTicket > message_count
              THEN message_count - BeforeEnd ELSE TicketInterval + AfterTicket

Init ==
  /\ message_count \in MessageCounts /\ attack_type \in Attacks
  /\ checkpoint_interval \in CheckpointIntervals /\ server \in Servers
  /\ pc = "open" /\ seq = 1 /\ current_mem = <<>>
  /\ saved_messages = {} /\ checkpoints = <<>> /\ attack_done = FALSE
  /\ accepted_count = 0 /\ rejected_count = 0 /\ timeout_count = 0
  /\ attack_detected = FALSE /\ detection_reason = "normal"
  /\ recovery_requested = FALSE /\ recovery_success = FALSE
  /\ memory_match_after_recovery = FALSE /\ rebuilt = NotRebuilt
  /\ wire = NoMessage /\ session = FreshSession

-----------------------------------------------------------------------------
(* Sockets. *)

Open ==
  /\ pc = "open"
  /\ pc' = "loop"
  /\ UNCHANGED <<config, history, counts, detection, recovery, wire, session>>

\* The only timeout that is counted; the loop ends.
AnswerTimesOut ==
  /\ pc = "answer"
  /\ timeout_count' = timeout_count + 1
  /\ detection_reason' = "client timeout"
  /\ pc' = "done"
  /\ UNCHANGED <<config, history, accepted_count, rejected_count, attack_done,
                 attack_detected, recovery, wire, session>>

\* Whatever else the sockets raise ends the run through the outer handler.
SocketFails ==
  /\ pc \in {"open", "loop", "reopen", "answer", "recover"}
  /\ pc = "loop" => seq <= message_count
  /\ detection_reason' = "error"
  /\ pc' = "done"
  /\ UNCHANGED <<config, history, counts, attack_done, attack_detected,
                 recovery, wire, session>>

-----------------------------------------------------------------------------
(* The attack. *)

AttackNow == pc = "loop" /\ seq <= message_count /\ seq = attack_seq
               /\ ~attack_done

RequestRecovery ==
  /\ recovery_requested' = TRUE
  /\ wire' = [kind |-> "RECOVERY_REQUEST"]
  /\ pc' = "recover"
  /\ UNCHANGED <<recovery_success, memory_match_after_recovery, rebuilt>>

Disconnect ==
  /\ AttackNow /\ attack_type = "disconnect"
  /\ attack_done' = TRUE /\ attack_detected' = TRUE
  /\ detection_reason' = "client simulated disconnect"
  /\ pc' = "reopen"
  /\ UNCHANGED <<config, history, counts, recovery, wire, session>>

Reopen ==
  /\ pc = "reopen"
  /\ RequestRecovery
  /\ UNCHANGED <<config, history, counts, detection, session>>

\* The message is not sent, and its loss is not waited for.
Drop ==
  /\ AttackNow /\ attack_type = "drop"
  /\ attack_done' = TRUE /\ attack_detected' = TRUE
  /\ detection_reason' = "drop attack"
  /\ RequestRecovery
  /\ UNCHANGED <<config, history, counts, session>>

Packet == LET p == DataPacket(seq, current_mem)
          IN IF AttackNow THEN ModifyPayload(p) ELSE p

Send ==
  /\ pc = "loop" /\ seq <= message_count
  /\ ~(AttackNow /\ attack_type # "modify")
  /\ attack_done' = (attack_done \/ AttackNow)
  /\ wire' = [kind |-> "DATA", packet |-> Packet]
  /\ pc' = "answer"
  /\ UNCHANGED <<config, history, counts, attack_detected, detection_reason,
                 recovery, session>>

-----------------------------------------------------------------------------
(* The server. *)

HelloRequired == [ok |-> FALSE, signed |-> TRUE, reason |-> "connection not bound"]

RecoveryAnswer ==
  IF server = "ticket" THEN HelloRequired
  ELSE [ok |-> TRUE, signed |-> server = "signing",
        last_seq |-> session.last_seq, last_mem |-> session.last_mem]

Serve ==
  /\ \/ /\ wire.kind = "DATA" /\ server # "ticket"
        /\ session' = After(session, wire.packet)
        /\ wire' = [kind |-> "response",
                    response |-> Verdict(session, wire.packet)]
     \/ /\ wire.kind = "DATA" /\ server = "ticket"
        /\ wire' = [kind |-> "response", response |-> HelloRequired]
        /\ UNCHANGED session
     \/ /\ wire.kind = "RECOVERY_REQUEST"
        /\ wire' = [kind |-> "response", response |-> RecoveryAnswer]
        /\ UNCHANGED session
  /\ UNCHANGED <<config, pc, history, counts, detection, recovery>>

-----------------------------------------------------------------------------
(* The answers. *)

\* should_checkpoint and create_checkpoint, with the memory after the message.
Checkpointed ==
  IF seq % checkpoint_interval = 0
  THEN Append(checkpoints, [seq |-> seq, memory |-> Append(current_mem, seq)])
  ELSE checkpoints

Accepted ==
  /\ pc = "answer" /\ wire.kind = "response" /\ wire.response.ok
  /\ accepted_count' = accepted_count + 1
  /\ saved_messages' = saved_messages \union {seq}
  /\ current_mem' = Append(current_mem, seq)
  /\ checkpoints' = Checkpointed
  /\ seq' = seq + 1
  /\ pc' = "loop" /\ wire' = NoMessage
  /\ UNCHANGED <<config, rejected_count, timeout_count, detection, recovery,
                 session>>

Rejected ==
  /\ pc = "answer" /\ wire.kind = "response" /\ ~wire.response.ok
  /\ rejected_count' = rejected_count + 1
  /\ attack_detected' = TRUE
  /\ detection_reason' = wire.response.reason
  /\ RequestRecovery
  /\ UNCHANGED <<config, history, accepted_count, timeout_count, attack_done,
                 session>>

Replayed(from, to) ==
  SelectSeq([i \in 1..(to - from) |-> from + i], LAMBDA m : m \in saved_messages)

\* Mutant: the replay starts at the checkpoint's own message.
reconstruct_memory_chainFrom(checkpoint, target) ==
  checkpoint.memory \o Replayed(checkpoint.seq - 1, target)
\* reconstruct_memory_chain: messages that were not saved are passed over.
reconstruct_memory_chain(checkpoint, target) ==
  checkpoint.memory \o Replayed(checkpoint.seq, target)

\* Without a checkpoint nothing is reconstructed.
Rebuilt(response) ==
  IF checkpoints = <<>> THEN NotRebuilt
  ELSE LET latest_ckpt == Last(checkpoints)
           mem == reconstruct_memory_chain(latest_ckpt, response.last_seq)
       IN [checkpoint_seq |-> latest_ckpt.seq, target_seq |-> response.last_seq,
           target_mem |-> response.last_mem, mem |-> mem,
           replay_count |-> Len(mem) - Len(latest_ckpt.memory),
           match |-> mem = response.last_mem]

\* Mutant: the client goes on with its own next number.
ResumeAtOwn(response) == seq + 1
ResumeAt(response) == response.last_seq + 1

\* Mutant: a request whose answer does not verify is made again.
RecoveryAnsweredAgain ==
  /\ pc = "recover" /\ wire.kind = "response"
  /\ IF wire.response.signed /\ wire.response.ok
     THEN /\ recovery_success' = TRUE
          /\ memory_match_after_recovery' = TRUE
          /\ rebuilt' = Rebuilt(wire.response)
          /\ current_mem' = wire.response.last_mem
          /\ seq' = ResumeAt(wire.response)
          /\ pc' = "loop" /\ wire' = NoMessage
     ELSE /\ wire' = [kind |-> "RECOVERY_REQUEST"]
          /\ UNCHANGED <<pc, recovery_success, memory_match_after_recovery,
                         rebuilt, current_mem, seq>>
  /\ UNCHANGED <<config, saved_messages, checkpoints, counts, detection,
                 recovery_requested, session>>
RecoveryAnswered ==
  /\ pc = "recover" /\ wire.kind = "response"
  /\ wire' = NoMessage
  /\ IF wire.response.signed /\ wire.response.ok
     THEN /\ recovery_success' = TRUE
          /\ memory_match_after_recovery' = TRUE
          /\ rebuilt' = Rebuilt(wire.response)
          /\ current_mem' = wire.response.last_mem
          /\ seq' = ResumeAt(wire.response)
          /\ pc' = "loop"
     ELSE /\ pc' = "done"
          /\ UNCHANGED <<recovery_success, memory_match_after_recovery,
                         rebuilt, current_mem, seq>>
  /\ UNCHANGED <<config, saved_messages, checkpoints, counts, detection,
                 recovery_requested, session>>

\* Mutant: the last message is left out.
FinishEarly ==
  /\ pc = "loop" /\ seq >= message_count
  /\ pc' = "done"
  /\ UNCHANGED <<config, history, counts, detection, recovery, wire, session>>
Finish ==
  /\ pc = "loop" /\ seq > message_count
  /\ pc' = "done"
  /\ UNCHANGED <<config, history, counts, detection, recovery, wire, session>>

Done == pc = "done" /\ UNCHANGED vars

Client == Open \/ AnswerTimesOut \/ Disconnect \/ Reopen \/ Drop \/ Send
            \/ Accepted \/ Rejected \/ RecoveryAnswered \/ Finish
Next == Client \/ SocketFails \/ Serve \/ Done

\* Every wait of the client has a timeout, so it goes on whatever the server does.
Spec == Init /\ [][Next]_vars /\ WF_vars(Client \/ SocketFails)

-----------------------------------------------------------------------------
(* Properties. *)

\* TypeOK: what was accepted is saved, and the checkpoints are those of the
\* accepted messages whose number divides, in their order.
TypeOK ==
  /\ pc \in {"open", "loop", "reopen", "answer", "recover", "done"}
  /\ accepted_count = Cardinality(saved_messages)
  /\ rejected_count \in 0..1 /\ timeout_count \in 0..1
  /\ [i \in DOMAIN checkpoints |-> checkpoints[i].seq]
       = SelectSeq(History(seq - 1), LAMBDA m : m % checkpoint_interval = 0)

\* ReconstructionMatches: whenever a recovery finds a checkpoint, the client
\* rebuilds exactly the state the server sent, from fewer messages than an
\* interval has.
ReconstructionMatches ==
  recovery_success /\ rebuilt.checkpoint_seq > 0 =>
    rebuilt.match /\ rebuilt.replay_count < checkpoint_interval

\* ResumesInStep: a client about to send, before the attack and after the
\* recovery, sends the number the server expects on the memory the server has.
ResumesInStep ==
  pc = "loop" => current_mem = session.last_mem /\ seq = session.last_seq + 1

\* RowIsWhole: with the server it is written for and no socket error, the row
\* has every message accepted once and a successful recovery; the attack has
\* to come at a message the run sends.
RowIsWhole ==
  pc = "done" /\ server = "signing" /\ attack_seq > 0
    /\ detection_reason \notin {"error", "client timeout"} =>
    /\ accepted_count = message_count /\ recovery_success
    /\ rejected_count = (IF attack_type = "modify" THEN 1 ELSE 0)
    /\ session.last_mem = History(message_count)

=============================================================================
