----------------------------- MODULE Simulations -----------------------------
(***************************************************************************)
(* The in-process simulations: run_experiment.py, which plays one attack   *)
(* on a packet loop and then simulates a recovery, and the analytical      *)
(* table of run_baseline_comparison_experiment.py, which states what such  *)
(* a run should show.                                                      *)
(*                                                                         *)
(* A memory is the sequence of the payloads it was built from, a payload   *)
(* the number it was made for (0: the attacker's).  Tags, times and sizes  *)
(* are left out, except whether a tag fits its packet.                     *)
(***************************************************************************)
EXTENDS Integers, Sequences

CONSTANTS
  MessageCounts,         \* MESSAGE_COUNTS
  CheckpointIntervals,   \* CHECKPOINT_INTERVALS
  AttackCap,             \* the 500 of attack_seq
  LossRates              \* WEAK_NET_LOSS_RATES, in percent

\* Of the constants; MC modules state them (ASSUME) for their instances.
SimulationsAssumption ==
  /\ MessageCounts \subseteq Nat \ {0} /\ AttackCap \in Nat \ {0, 1}
  /\ CheckpointIntervals \subseteq Nat \ {0}
  /\ LossRates \subseteq 0..20

PROTOCOLS == {"seq_mac", "hash_chain", "ticket_only", "gmcp_r"}
PacketAttacks == {"none", "drop", "modify", "replay", "prev_mem"}
ATTACKS == PacketAttacks
             \union {"rollback_ticket", "forge_snack", "forge_ir_refresh",
                     "network_loss"}

VARIABLES
  protocol, attack_type, message_count, checkpoint_interval,
  pc,                    \* "loop", "recover" or "done"
  seq, client_mem, saved_packets, payload_hash_log,
  server_last_seq, server_mem,
  accepted_count, rejected_count, detection_result,
  recovery               \* what simulate_recovery returned

config == <<protocol, attack_type, message_count, checkpoint_interval>>
client == <<seq, client_mem, saved_packets, payload_hash_log>>
server == <<server_last_seq, server_mem>>
verdict == <<accepted_count, rejected_count, detection_result>>
vars == <<config, pc, client, server, verdict, recovery>>

HasMemory(p) == p \in {"hash_chain", "gmcp_r"}

Smaller(a, b) == IF a < b THEN a ELSE b
Larger(a, b) == IF a < b THEN b ELSE a

attack_seq == Smaller(AttackCap, Larger(2, message_count \div 2))
replay_seq == Larger(1, attack_seq \div 2)

NotRecovered == [success |-> FALSE, memory |-> FALSE, replay_count |-> 0,
                 seq |-> 0, mem |-> <<>>]

-----------------------------------------------------------------------------
(* Packets. *)

build_packet(n, mem) ==
  [seq |-> n, payload |-> n, prev_mem |-> mem, authentic |-> TRUE]

modify_payload_attack(p) == [p EXCEPT !.payload = 0, !.authentic = FALSE]
modify_prev_mem_attack(p) == [p EXCEPT !.prev_mem = <<0>>]

\* Mutants of verify_packet: an old number is let through as the next one;
\* prev_mem is not compared.
RefusedUnlessOld(p) ==
  \/ ~p.authentic
  \/ p.seq > server_last_seq + 1
  \/ HasMemory(protocol) /\ p.prev_mem # server_mem /\ p.seq > server_last_seq
RefusedSeqOnly(p) == ~p.authentic \/ p.seq # server_last_seq + 1

\* verify_packet: tag, sequence number, and for two protocols the memory.
Refused(p) ==
  \/ ~p.authentic
  \/ p.seq # server_last_seq + 1
  \/ HasMemory(protocol) /\ p.prev_mem # server_mem

-----------------------------------------------------------------------------
(* simulate_recovery: at 77 percent of what the server accepted. *)

\* Mutant: the recovery point counts from the next checkpoint.
ReplayFromNext(target) ==
  CASE protocol = "hash_chain" -> Smaller(target, Len(payload_hash_log))
    [] protocol = "gmcp_r"
         -> (target \div checkpoint_interval + 1) * checkpoint_interval - target
    [] OTHER -> 0
Replay(target) ==
  CASE protocol = "hash_chain" -> Smaller(target, Len(payload_hash_log))
    [] protocol = "gmcp_r"
         -> target - (target \div checkpoint_interval) * checkpoint_interval
    [] OTHER -> 0

\* Mutant: the chain replays one payload short of the recovery point.
RecoveredMemShort(target) ==
  IF protocol = "hash_chain"
  THEN SubSeq(payload_hash_log, 1, Replay(target) - 1) ELSE server_mem
\* hash_chain replays the log; gmcp_r puts the final memory in its ticket.
RecoveredMem(target) ==
  IF protocol = "hash_chain"
  THEN SubSeq(payload_hash_log, 1, Replay(target)) ELSE server_mem

simulate_recovery ==
  LET target == Larger(1, (77 * server_last_seq) \div 100)
  IN IF server_last_seq = 0 THEN NotRecovered
     ELSE [success |-> TRUE, memory |-> HasMemory(protocol),
           replay_count |-> Replay(target), seq |-> target,
           mem |-> RecoveredMem(target)]

-----------------------------------------------------------------------------
(* The attacks on tickets and on control messages do not run the loop. *)

simulate_rollback_ticket_attack ==
  CASE protocol \in {"seq_mac", "hash_chain"} -> "not_applicable"
    [] protocol = "ticket_only" -> "missed"
    [] OTHER -> IF Larger(1, message_count \div 2) < message_count
                THEN "detected" ELSE "missed"

simulate_forged_recovery_attack ==
  IF protocol = "gmcp_r" THEN "detected" ELSE "not_applicable"

-----------------------------------------------------------------------------
(* run_weak_network_experiment: losses are drawn, not simulated. *)

LostPackets(rate) ==
  LET expected_lost == (message_count * rate) \div 100
  IN {expected_lost + jitter :
        jitter \in IF expected_lost > 0 THEN 0..(expected_lost + 1) ELSE {0}}

WeakReplay(rate, lost) ==
  CASE protocol = "seq_mac" -> lost
    [] protocol = "hash_chain"
         -> (message_count * Smaller(100, 30 + 5 * rate)) \div 100
    [] protocol = "ticket_only" -> 0
    [] OTHER -> Smaller(checkpoint_interval \div 2,
                        lost + checkpoint_interval \div 4)

-----------------------------------------------------------------------------
(* run_packet_experiment. *)

Init ==
  /\ protocol \in PROTOCOLS /\ attack_type \in ATTACKS
  /\ message_count \in MessageCounts
  /\ checkpoint_interval \in CheckpointIntervals
  /\ pc = "loop" /\ seq = 1
  /\ client_mem = <<>> /\ saved_packets = <<>> /\ payload_hash_log = <<>>
  /\ server_last_seq = 0 /\ server_mem = <<>>
  /\ accepted_count = 0 /\ rejected_count = 0
  /\ detection_result = IF attack_type \in {"none", "network_loss"}
                         THEN "normal" ELSE "missed"
  /\ recovery = NotRecovered

\* The recovery succeeds with a probability that only a loss makes less than one.
WeakNetwork ==
  /\ pc = "loop" /\ attack_type = "network_loss"
  /\ \E rate \in LossRates : \E lost \in LostPackets(rate) :
     \E recovery_success \in IF rate = 0 THEN {TRUE} ELSE BOOLEAN :
       /\ accepted_count' = Larger(0, message_count - lost)
       /\ rejected_count' = IF recovery_success THEN 0 ELSE lost
       /\ recovery' = [NotRecovered EXCEPT !.success = recovery_success,
                         !.replay_count = WeakReplay(rate, lost)]
  /\ pc' = "done"
  /\ UNCHANGED <<config, client, server, detection_result>>

Simulated ==
  /\ pc = "loop" /\ attack_type \notin PacketAttacks \union {"network_loss"}
  /\ detection_result' = IF attack_type = "rollback_ticket"
                         THEN simulate_rollback_ticket_attack
                         ELSE simulate_forged_recovery_attack
  /\ accepted_count' = message_count
  /\ rejected_count' = IF detection_result' = "detected" THEN 1 ELSE 0
  /\ pc' = "done"
  /\ UNCHANGED <<config, client, server, recovery>>

InLoop == pc = "loop" /\ attack_type \in PacketAttacks /\ seq <= message_count

Drop ==
  /\ InLoop /\ attack_type = "drop" /\ seq = attack_seq
  /\ seq' = seq + 1
  /\ UNCHANGED <<config, pc, client_mem, saved_packets, payload_hash_log,
                 server, verdict, recovery>>

Attacked(p) ==
  CASE attack_type = "modify" -> modify_payload_attack(p)
    [] attack_type = "replay" /\ replay_seq \in DOMAIN saved_packets
         -> saved_packets[replay_seq]
    [] attack_type = "prev_mem" /\ HasMemory(protocol)
         -> modify_prev_mem_attack(p)
    [] OTHER -> p

Packet == LET p == build_packet(seq, client_mem)
          IN IF seq = attack_seq THEN Attacked(p) ELSE p

Accept ==
  /\ InLoop /\ ~(attack_type = "drop" /\ seq = attack_seq)
  /\ ~Refused(Packet)
  /\ accepted_count' = accepted_count + 1
  /\ server_last_seq' = Packet.seq
  /\ server_mem' = IF HasMemory(protocol)
                   THEN Append(server_mem, Packet.payload) ELSE server_mem
  /\ saved_packets' = [n \in DOMAIN saved_packets \union {Packet.seq} |->
                         IF n = Packet.seq THEN Packet ELSE saved_packets[n]]
  /\ payload_hash_log' = Append(payload_hash_log, seq)
  /\ client_mem' = IF HasMemory(protocol)
                   THEN Append(client_mem, seq) ELSE client_mem
  /\ seq' = seq + 1
  /\ UNCHANGED <<config, pc, rejected_count, detection_result, recovery>>

\* A refusal ends the loop.
Reject ==
  /\ InLoop /\ ~(attack_type = "drop" /\ seq = attack_seq)
  /\ Refused(Packet)
  /\ rejected_count' = rejected_count + 1
  /\ detection_result' = IF attack_type # "none" THEN "detected"
                         ELSE detection_result
  /\ pc' = "recover"
  /\ UNCHANGED <<config, client, server, accepted_count, recovery>>

LoopEnds ==
  /\ pc = "loop" /\ attack_type \in PacketAttacks /\ seq > message_count
  /\ pc' = "recover"
  /\ UNCHANGED <<config, client, server, verdict, recovery>>

Recover ==
  /\ pc = "recover"
  /\ recovery' = simulate_recovery
  /\ pc' = "done"
  /\ UNCHANGED <<config, client, server, verdict>>

Done == pc = "done" /\ UNCHANGED vars

Next == Simulated \/ WeakNetwork \/ Drop \/ Accept \/ Reject \/ LoopEnds \/ Recover \/ Done
Spec == Init /\ [][Next]_vars

-----------------------------------------------------------------------------
(* run_baseline_comparison_experiment.py: the expected result of an attack,  *)
(* and the number of messages a recovery replays.                          *)

_target_seq(n) == Larger(1, (7 * n) \div 10)

_attack_detected(p, attack) ==
  CASE attack \in {"drop", "modify", "replay"} -> TRUE
    [] attack = "prev_mem" -> HasMemory(p)
    [] attack = "rollback_ticket" -> p = "gmcp_r"
    [] OTHER -> FALSE

simulate_protocol_result(p) ==
  [replay_count |->
     CASE p = "hash_chain" -> _target_seq(message_count)
       [] p = "gmcp_r" -> _target_seq(message_count) % checkpoint_interval
       [] OTHER -> 0,
   memory_recovered |-> HasMemory(p)]

-----------------------------------------------------------------------------
(* Properties. *)

\* TypeOK: every message is accepted, rejected or dropped; under drawn losses
\* no message is counted twice, and none is missing when the recovery failed.
TypeOK ==
  /\ pc \in {"loop", "recover", "done"}
  /\ seq \in 1..(message_count + 1)
  /\ detection_result \in {"normal", "missed", "detected", "not_applicable"}
  /\ attack_type \in PacketAttacks =>
       accepted_count + (IF attack_type = "drop" /\ seq > attack_seq THEN 1 ELSE 0)
         = seq - 1
  /\ attack_type = "network_loss" =>
       /\ accepted_count + rejected_count <= message_count
       /\ pc = "done" /\ ~recovery.success =>
            accepted_count + rejected_count = message_count
  /\ accepted_count \in 0..message_count

\* InStep: as long as packets are accepted, client and server hold the memory
\* of the same genuine payloads, each one once; a packet of the attack never
\* enters the server's memory or the log that recovery replays.
InStep ==
  /\ HasMemory(protocol) => server_mem = client_mem /\ client_mem = payload_hash_log
  /\ payload_hash_log = [n \in 1..server_last_seq |-> n]

\* TableAgrees: a finished run detects the attack exactly when the analytical
\* table says so, provided that a message follows the attack.
TableAgrees ==
  pc = "done" /\ attack_seq < message_count
    /\ attack_type \notin {"none", "network_loss", "forge_snack",
                         "forge_ir_refresh"} =>
    (detection_result = "detected" <=> _attack_detected(protocol, attack_type))

\* ReplayIsBounded: recovery from a checkpoint replays less than an interval,
\* and never more than a replay of the chain to the same point does; the
\* analytical table says the same of its own numbers.
ReplayIsBounded ==
  pc = "done" /\ protocol = "gmcp_r" =>
    /\ recovery.replay_count < checkpoint_interval
    /\ attack_type # "network_loss" => recovery.replay_count <= recovery.seq
    /\ simulate_protocol_result("gmcp_r").replay_count
         <= simulate_protocol_result("hash_chain").replay_count

\* ChainRecoversHistory: what the hash chain recovers is the history up to the
\* recovery point.
ChainRecoversHistory ==
  protocol = "hash_chain" /\ recovery.success =>
    recovery.mem = SubSeq(payload_hash_log, 1, recovery.seq)

=============================================================================
