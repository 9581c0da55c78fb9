---------------------------- MODULE MCExperiments ----------------------------
(***************************************************************************)
(* The experiment programs, each with its server, side by side: a          *)
(* behaviour is one of the program that `program` names, with the          *)
(* parameters given here.  pc and v1, v2, ... stand for that program's     *)
(* variables, in the order its module declares them.                       *)
(***************************************************************************)
EXTENDS Integers, Sequences, TLC

CONSTANTS None, Old

FiveProtocols ==
  {"gmcp", "hash_chain", "authenticated_hash_chain", "seq_mac", "ticket_only"}
AllDisturbances ==
  {"none", "modify_unsigned", "metadata_tamper", "exact_replay",
   "forged_prev_mem_valid_mac", "sequence_gap_valid_mac",
   "cross_session_valid_mac", "cross_epoch_valid_mac"}
ChainAndTicket == "c1" :> "authenticated_hash_chain" @@ "c2" :> "ticket_only"
GmcpAndMac     == "c1" :> "gmcp" @@ "c2" :> "seq_mac"

TwoProtocols == {"gmcp", "seq_mac"}
Lossy        == {"some"}
BothRates    == {"none", "some"}

Runners    == {"r1", "r2"}
Invocation ==
  [server_only |-> FALSE, mode |-> "quick", protocols |-> None, points |-> None,
   types |-> None, repeats |-> None, message_count |-> 3, payload_size |-> 1,
   dir |-> "usable", attempt |-> 1, no_overwrite |-> FALSE, dirty |-> FALSE,
   port |-> "any"]

VARIABLES program, pc, v1, v2, v3, v4, v5, v6, v7, v8, v9, v10, v11, v12, v13,
          v14, v15, v16, v17, v18, v19, v20

\* run_real_tcp_network_experiment.py
Windowed == INSTANCE WindowedClient
  WITH MessageCounts <- {3, 4, 6}, WindowSizes <- {1, 2, 4},
       MaxAttackSeq <- 2, message_count <- v1, window_size <- v2,
       attack_type <- v3, next_seq <- v4, build_mem <- v5, ack_mem <- v6,
       inflight <- v7, saved_packets <- v8, accepted_count <- v9,
       rejected_count <- v10, timeout_count <- v11, detection_result <- v12,
       detection_reason <- v13, final_server_mem <- v14,
       final_server_last_seq <- v15, up <- v16, down <- v17, broken <- v18,
       session <- v19

\* run_real_recovery_experiment.py
Recovery == INSTANCE RecoveryClient
  WITH MessageCounts <- 1..5, TicketInterval <- 2,
       Servers <- {"tcp", "ticket", "signing"}, message_count <- v1,
       attack_type <- v2, server <- v3, seq <- v4, current_mem <- v5,
       saved_packets <- v6, attack_done <- v7, accepted_count <- v8,
       rejected_count <- v9, timeout_count <- v10, attack_detected <- v11,
       recovery_requested <- v12, recovered <- v13, recovery_success <- v14,
       detection_reason <- v15, recovery_reason <- v16,
       final_server_mem <- v17, final_server_last_seq <- v18, wire <- v19,
       session <- v20

\* run_real_network_experiment.py, and client.py, which sends no PING
Datagram(pings) == INSTANCE DatagramClient
  WITH MessageCounts <- {4, 5, 6}, MaxAttackSeq <- 3, Pings <- pings,
       message_count <- v1, attack_type <- v2, seq <- v3, current_mem <- v4,
       saved_packets <- v5, accepted_count <- v6, rejected_count <- v7,
       timeout_count <- v8, detection_result <- v9, detection_reason <- v10,
       server_reachable <- v11, up <- v12, down <- v13, session <- v14

\* run_checkpoint_recovery_experiment.py
Checkpoint == INSTANCE CheckpointClient
  WITH MessageCounts <- {1, 2, 3, 4, 6}, CheckpointIntervals <- {1, 2, 3, 5},
       TicketInterval <- 2, AfterTicket <- 2, BeforeEnd <- 1,
       Servers <- {"tcp", "ticket", "signing"}, message_count <- v1,
       attack_type <- v2, checkpoint_interval <- v3, server <- v4, seq <- v5,
       current_mem <- v6, saved_messages <- v7, checkpoints <- v8,
       attack_done <- v9, accepted_count <- v10, rejected_count <- v11,
       timeout_count <- v12, attack_detected <- v13,
       recovery_requested <- v14, recovery_success <- v15,
       detection_reason <- v16, memory_match_after_recovery <- v17,
       rebuilt <- v18, wire <- v19, session <- v20

\* run_concurrent_experiment.py
Concurrent(strategy) == INSTANCE ConcurrentClients
  WITH Clients <- {"c1", "c2"}, Messages <- 2, lock_strategy <- strategy,
       VerifierTakes <- {"gmcp_r"}, Main <- "main", Nobody <- "nobody",
       MaxTimeouts <- 1, MaxFaults <- 1, broken <- v1, arrived <- v2,
       lock <- v3, seq <- v4, state <- v5, usable <- v6, count <- v7,
       inbox <- v8, answers <- v9, closed <- v10, server <- v11,
       results <- v12, timeouts <- v13, faults <- v14

\* run_performance_benchmark.py
Benchmark == INSTANCE PerformanceBenchmark
  WITH Modes <- {"local", "network"},
       PROTOCOLS <- {"gmcp", "hash_chain", "seq_mac", "ticket_only"},
       Messages <- 4, WarmUps <- 3, NeedsHello <- FALSE, MaxFaults <- 2,
       mode <- v1, protocol <- v2, seq <- v3, state <- v4, verifier <- v5,
       measured <- v6, accepted <- v7, rejected <- v8, errors <- v9,
       sent <- v10, request <- v11, response <- v12, usable <- v13,
       closed <- v14, faults <- v15

\* run_recovery_window_experiment.py
Window(rows, drained, faults) == INSTANCE RecoveryWindow
  WITH TicketInterval <- 4, Intervals <- {2, 4, 8}, RaceIntervals <- {2, 4},
       Rows <- rows, Drained <- drained, PipeCapacity <- 15, Faults <- faults,
       count <- v1, scenario <- v2, interval <- v3, seq <- v4,
       saved_ticket <- v5, row <- v6, invalid <- v7, last_seq <- v8,
       checkpoints <- v9, nonce_used <- v10, pipe <- v11, call <- v12,
       results <- v13

\* run_real_ticket_recovery_experiment.py
Attacks == INSTANCE TicketAttacks
  WITH MessageCounts <- {1, 4, 10}, TicketInterval <- 2,
       HelloRules <- BOOLEAN, message_count <- v1, attack_type <- v2,
       hello_required <- v3, seq <- v4, saved_ticket <- v5, sent_count <- v6,
       accepted_count <- v7, rejected_count <- v8, timeout_count <- v9,
       attack_detected <- v10, recovery_success <- v11,
       server_reject_reason <- v12, final_server_last_seq <- v13,
       last_seq <- v14, used <- v15, answer <- v16

\* run_ticket_security_experiment.py
Security == INSTANCE TicketSecurity
  WITH Repeats <- 2, ticket <- v1, used <- v2, nonces <- v3, rows <- v4,
       csv <- v5

\* run_hash_chain_adaptive_attack.py
Adaptive == INSTANCE AdaptiveAttack
  WITH Normal <- 3, HelloRules <- BOOLEAN, MayBreak <- TRUE,
       hello_required <- v1, spawn_server <- v2, server_proc <- v3,
       results <- v4, csv <- v5, exit_code <- v6, seq <- v7, state <- v8,
       accepted_packets <- v9, server <- v10, answer <- v11

\* run_real_baseline_comparison.py
Comparison == INSTANCE BaselineComparison
  WITH Compared <- FiveProtocols, Disturbances <- AllDisturbances,
       MessageCount <- 3, MayTimeOut <- TRUE, MayBreak <- TRUE,
       protocol <- v1, disturbance <- v2, seq <- v3, state <- v4, row <- v5,
       dead <- v6, open <- v7, requests <- v8, replies <- v9, server <- v10,
       log <- v11

\* run_cross_host_validation.py: run_one_experiment and its server
Embedded(protocols, fail) == INSTANCE EmbeddedServer
  WITH Clients <- {"c1", "c2"}, ProtocolOf <- protocols, MessageCount <- 3,
       MayFail <- fail, verifiers <- v1, current_ticket <- v2, line <- v3,
       answer <- v4, thread <- v5, verdict <- v6, ticket <- v7, seq <- v8,
       last_seq <- v9, client_state <- v10, server_state <- v11,
       counts <- v12, sent <- v13, failure_type <- v14, rows <- v15

\* real_baseline_server.py, all protocols
Baseline == INSTANCE BaselineServer
  WITH Spoken <- FiveProtocols, Sessions <- {"s"}, Epochs <- {1, 2},
       Conns <- {"c1"}, MaxLines <- 3, registry <- v1, owner <- v2,
       bound <- v3, line <- v4, reply <- v5, acked <- v6, answers <- v7,
       lines <- v8

\* run_experiment.py
Simulation == INSTANCE Simulations
  WITH MessageCounts <- {1, 2, 3, 6, 7, 10},
       CheckpointIntervals <- {1, 2, 3, 5}, AttackCap <- 4,
       LossRates <- {0, 10, 20}, protocol <- v1, attack_type <- v2,
       message_count <- v3, checkpoint_interval <- v4, seq <- v5,
       client_mem <- v6, saved_packets <- v7, payload_hash_log <- v8,
       server_last_seq <- v9, server_mem <- v10, accepted_count <- v11,
       rejected_count <- v12, detection_result <- v13, recovery <- v14

\* run_checkpoint_cost_comparison.py
Cost == INSTANCE CheckpointCost
  WITH SessionLengths <- {1, 4, 6}, CheckpointIntervals <- {1, 2, 4, 5},
       n <- v1, k <- v2, checkpoint_record <- v3, history_file <- v4,
       chain_file <- v5, rows <- v6, measuring <- v7, exit_code <- v8

\* monitor_resources.py
Monitor == INSTANCE ResourceMonitor
  WITH Samplers <- {"s1", "s2"}, Owner <- "owner", None <- None,
       MaxSamples <- 3, MaxUnread <- 1, running <- v1, thread <- v2,
       timestamps <- v3, system_cpu <- v4, cpu <- v5, rss <- v6,
       num_threads <- v7, sent <- v8, tick <- v9, ticks <- v10, unread <- v11,
       abandoned <- v12

\* run_weak_network_simulation.py: two protocols over a lossy link, and one
\* with and without losses.
WeakNetwork(simulated, rates, messages) == INSTANCE WeakNetworkSimulation
  WITH Simulated <- simulated, Repeats <- 2, MessageCount <- messages,
       MaxRetries <- 1, LossRates <- rates, MayTimeOut <- TRUE,
       MayBreak <- TRUE, mode <- v1, dirty <- v2, allow_dirty <- v3,
       spawn <- v4, stale <- v5, listening <- v6, proc <- v7, server <- v8,
       todo <- v9, rows <- v10, failed <- v11, tmp <- v12, published <- v13,
       r <- v14, seq <- v15, attempt <- v16, state <- v17, counts <- v18,
       dead <- v19

\* run_tc_netem_experiment.py and run_real_tc_netem_experiment.py
Tc(guarded, repeats, messages, faults) == INSTANCE TcNetem
  WITH Guarded <- guarded, NumConditions <- 2, Repeats <- repeats,
       MessageCount <- messages, SaveEvery <- 3, MaxFaults <- faults,
       condition <- v1, repeat_id <- v2, completed <- v3, interface <- v4,
       faults <- v5, seq <- v6, current_mem <- v7, sent_count <- v8,
       accepted_count <- v9, rejected_count <- v10, timeout_count <- v11,
       error_count <- v12, up <- v13, down <- v14, broken <- v15,
       session <- v16, results <- v17, csv <- v18, saved <- v19

\* run_recovery_validation.py, started twice
Publication == INSTANCE RecoveryPublication
  WITH Runners <- Runners, None <- None, Old <- Old,
       Invocations <- [Runners -> {Invocation}], PROTOCOLS <- <<"gmcp_r">>,
       DISCONNECT_POINTS <- <<1, 2>>, DISCONNECT_TYPES <- <<"client_close">>,
       REPEAT_COUNT <- 1, FIXED_MESSAGE_COUNT <- 3, FIXED_PAYLOAD_SIZE <- 1,
       Leftovers <- TRUE, MaxCrashes <- 1, MaxInterrupts <- 1, args <- v1,
       code <- v2, final <- v3, tmp <- v4, failed <- v5, conflicts <- v6,
       rows <- v7, server <- v8, crashes <- v9, interrupts <- v10

-----------------------------------------------------------------------------
(* What a program does not use keeps its first value. *)

Idle(v) == v = "unused"
IdleFrom20 == Idle(v20)
From20 == <<v20>>
IdleFrom17 == Idle(v17) /\ Idle(v18) /\ Idle(v19) /\ IdleFrom20
From17 == <<v17, v18, v19, From20>>
IdleFrom16 == Idle(v16) /\ IdleFrom17
From16 == <<v16, From17>>
IdleFrom15 == Idle(v15) /\ IdleFrom16
From15 == <<v15, From16>>
IdleFrom14 == Idle(v14) /\ IdleFrom15
From14 == <<v14, From15>>
IdleFrom12 == Idle(v12) /\ Idle(v13) /\ IdleFrom14
From12 == <<v12, v13, From14>>
IdleFrom11 == Idle(v11) /\ IdleFrom12
From11 == <<v11, From12>>
IdleFrom9 == Idle(v9) /\ Idle(v10) /\ IdleFrom11
From9 == <<v9, v10, From11>>
IdleFrom6 == Idle(v6) /\ Idle(v7) /\ Idle(v8) /\ IdleFrom9
From6 == <<v6, v7, v8, From9>>

vars == <<program, pc, v1, v2, v3, v4, v5, v6, v7, v8, v9, v10, v11, v12, v13,
           v14, v15, v16, v17, v18, v19, v20>>

Init ==
  \/ /\ program = "windowed" /\ Windowed!Init /\ IdleFrom20
  \/ /\ program = "recovery" /\ Recovery!Init
  \/ /\ program = "datagram" /\ Datagram(TRUE)!Init /\ IdleFrom15
  \/ /\ program = "client" /\ Datagram(FALSE)!Init /\ IdleFrom15
  \/ /\ program = "checkpoint" /\ Checkpoint!Init
  \/ /\ program = "concurrent" /\ Concurrent("per_session_lock")!Init
     /\ IdleFrom15
  \/ /\ program = "concurrent_global" /\ Concurrent("global_lock")!Init
     /\ IdleFrom15
  \/ /\ program = "benchmark" /\ Benchmark!Init /\ IdleFrom16
  \/ /\ program = "window" /\ Window(2, TRUE, FALSE)!Init /\ IdleFrom14
  \/ /\ program = "window_faults" /\ Window(1, TRUE, TRUE)!Init /\ IdleFrom14
  \/ /\ program = "window_spawned" /\ Window(2, FALSE, FALSE)!Init
     /\ IdleFrom14
  \/ /\ program = "attacks" /\ Attacks!Init /\ IdleFrom17
  \/ /\ program = "security" /\ Security!Init /\ IdleFrom6
  \/ /\ program = "adaptive" /\ Adaptive!Init /\ IdleFrom12
  \/ /\ program = "comparison" /\ Comparison!Init /\ IdleFrom12
  \/ /\ program = "embedded" /\ Embedded(GmcpAndMac, FALSE)!Init /\ IdleFrom16
  \/ /\ program = "embedded_faults" /\ Embedded(ChainAndTicket, TRUE)!Init
     /\ IdleFrom16
  \/ /\ program = "baseline" /\ Baseline!Init /\ IdleFrom9
  \/ /\ program = "simulation" /\ Simulation!Init /\ IdleFrom15
  \/ /\ program = "cost" /\ Cost!Init /\ IdleFrom9
  \/ /\ program = "monitor" /\ Monitor!Init /\ Idle(v13) /\ IdleFrom14
  \/ /\ program = "weak_network" /\ WeakNetwork(TwoProtocols, Lossy, 1)!Init
     /\ IdleFrom20
  \/ /\ program = "weak_control" /\ WeakNetwork({"gmcp"}, BothRates, 2)!Init
     /\ IdleFrom20
  \/ /\ program = "tc" /\ Tc(FALSE, 1, 2, 2)!Init /\ IdleFrom20
  \/ /\ program = "tc_guarded" /\ Tc(TRUE, 2, 2, 1)!Init /\ IdleFrom20
  \/ /\ program = "publication" /\ Publication!Init /\ IdleFrom11

Next ==
  \/ /\ program = "windowed" /\ Windowed!Next /\ UNCHANGED <<program, From20>>
  \/ /\ program = "recovery" /\ Recovery!Next /\ UNCHANGED program
  \/ /\ program = "datagram" /\ Datagram(TRUE)!Next
     /\ UNCHANGED <<program, From15>>
  \/ /\ program = "client" /\ Datagram(FALSE)!Next
     /\ UNCHANGED <<program, From15>>
  \/ /\ program = "checkpoint" /\ Checkpoint!Next /\ UNCHANGED program
  \/ /\ program = "concurrent" /\ Concurrent("per_session_lock")!Next
     /\ UNCHANGED <<program, From15>>
  \/ /\ program = "concurrent_global" /\ Concurrent("global_lock")!Next
     /\ UNCHANGED <<program, From15>>
  \/ /\ program = "benchmark" /\ Benchmark!Next
     /\ UNCHANGED <<program, From16>>
  \/ /\ program = "window" /\ Window(2, TRUE, FALSE)!Next
     /\ UNCHANGED <<program, From14>>
  \/ /\ program = "window_faults" /\ Window(1, TRUE, TRUE)!Next
     /\ UNCHANGED <<program, From14>>
  \/ /\ program = "window_spawned" /\ Window(2, FALSE, FALSE)!Next
     /\ UNCHANGED <<program, From14>>
  \/ /\ program = "attacks" /\ Attacks!Next /\ UNCHANGED <<program, From17>>
  \/ /\ program = "security" /\ Security!Next /\ UNCHANGED <<program, From6>>
  \/ /\ program = "adaptive" /\ Adaptive!Next /\ UNCHANGED <<program, From12>>
  \/ /\ program = "comparison" /\ Comparison!Next
     /\ UNCHANGED <<program, From12>>
  \/ /\ program = "embedded" /\ Embedded(GmcpAndMac, FALSE)!Next
     /\ UNCHANGED <<program, From16>>
  \/ /\ program = "embedded_faults" /\ Embedded(ChainAndTicket, TRUE)!Next
     /\ UNCHANGED <<program, From16>>
  \/ /\ program = "baseline" /\ Baseline!Next /\ UNCHANGED <<program, From9>>
  \/ /\ program = "simulation" /\ Simulation!Next
     /\ UNCHANGED <<program, From15>>
  \/ /\ program = "cost" /\ Cost!Next /\ UNCHANGED <<program, From9>>
  \/ /\ program = "monitor" /\ Monitor!Next
     /\ UNCHANGED <<program, v13, From14>>
  \/ /\ program = "weak_network" /\ (WeakNetwork(TwoProtocols, Lossy, 1)!Next)
     /\ UNCHANGED <<program, From20>>
  \/ /\ program = "weak_control" /\ (WeakNetwork({"gmcp"}, BothRates, 2)!Next)
     /\ UNCHANGED <<program, From20>>
  \/ /\ program = "tc" /\ Tc(FALSE, 1, 2, 2)!Next
     /\ UNCHANGED <<program, From20>>
  \/ /\ program = "tc_guarded" /\ Tc(TRUE, 2, 2, 1)!Next
     /\ UNCHANGED <<program, From20>>
  \/ /\ program = "publication" /\ Publication!Next
     /\ UNCHANGED <<program, From11>>

\* The steps each program, its server with it, is bound to take.
Work ==
  \/ /\ program = "windowed" /\ (Windowed!Client \/ Windowed!Serve)
     /\ UNCHANGED <<program, From20>>
  \/ /\ program = "recovery" /\ (Recovery!Client \/ Recovery!SocketFails)
     /\ UNCHANGED program
  \/ /\ program = "datagram" /\ Datagram(TRUE)!Client
     /\ UNCHANGED <<program, From15>>
  \/ /\ program = "client" /\ Datagram(FALSE)!Client
     /\ UNCHANGED <<program, From15>>
  \/ /\ program = "checkpoint" /\ (Checkpoint!Client \/ Checkpoint!SocketFails)
     /\ UNCHANGED program
  \/ /\ program = "concurrent" /\ Concurrent("per_session_lock")!Next
     /\ UNCHANGED <<program, From15>>
  \/ /\ program = "concurrent_global" /\ Concurrent("global_lock")!Next
     /\ UNCHANGED <<program, From15>>
  \/ /\ program = "benchmark" /\ Benchmark!Next
     /\ UNCHANGED <<program, From16>>
  \/ /\ program = "window" /\ (Window(2, TRUE, FALSE)!Client \/ Window(2, TRUE, FALSE)!Serve)
     /\ UNCHANGED <<program, From14>>
  \/ /\ program = "window_faults" /\ (Window(1, TRUE, TRUE)!Client \/ Window(1, TRUE, TRUE)!Serve)
     /\ UNCHANGED <<program, From14>>
  \/ /\ program = "window_spawned" /\ (Window(2, FALSE, FALSE)!Client \/ Window(2, FALSE, FALSE)!Serve)
     /\ UNCHANGED <<program, From14>>
  \/ /\ program = "attacks" /\ (Attacks!Client \/ Attacks!Fails)
     /\ UNCHANGED <<program, From17>>
  \/ /\ program = "security" /\ Security!Work /\ UNCHANGED <<program, From6>>
  \/ /\ program = "adaptive" /\ Adaptive!Work /\ UNCHANGED <<program, From12>>
  \/ /\ program = "comparison" /\ (Comparison!Client \/ Comparison!Serve)
     /\ UNCHANGED <<program, From12>>
  \/ /\ program = "embedded" /\ (Embedded(GmcpAndMac, FALSE)!Next)
     /\ UNCHANGED <<program, From16>>
  \/ /\ program = "embedded_faults" /\ (Embedded(ChainAndTicket, TRUE)!Next)
     /\ UNCHANGED <<program, From16>>
  \/ /\ program = "simulation" /\ Simulation!Next
     /\ UNCHANGED <<program, From15>>
  \/ /\ program = "cost" /\ Cost!Next /\ UNCHANGED <<program, From9>>
  \/ /\ program = "monitor" /\ Monitor!Work
     /\ UNCHANGED <<program, v13, From14>>
  \/ /\ program = "weak_network" /\ (WeakNetwork(TwoProtocols, Lossy, 1)!Work)
     /\ UNCHANGED <<program, From20>>
  \/ /\ program = "weak_control" /\ (WeakNetwork({"gmcp"}, BothRates, 2)!Work)
     /\ UNCHANGED <<program, From20>>
  \/ /\ program = "tc" /\ (Tc(FALSE, 1, 2, 2)!Runner)
     /\ UNCHANGED <<program, From20>>
  \/ /\ program = "tc_guarded" /\ (Tc(TRUE, 2, 2, 1)!Runner)
     /\ UNCHANGED <<program, From20>>
  \/ /\ program = "publication" /\ (\E r \in Runners : Publication!Step(r))
     /\ UNCHANGED <<program, From11>>

Spec == Init /\ [][Next]_vars /\ WF_vars(Work)

ASSUME Windowed!CountsAssumption /\ Windowed!AttackAssumption
ASSUME Recovery!CountsAssumption /\ Recovery!ServersAssumption
ASSUME \A pings \in BOOLEAN : Datagram(pings)!CountsAssumption /\ Datagram(pings)!AttackAssumption
ASSUME Checkpoint!ClientAssumption
ASSUME \A strategy \in {"per_session_lock", "global_lock"} :
         Concurrent(strategy)!ConcurrentAssumption
ASSUME Benchmark!BenchmarkAssumption
ASSUME \A drained, faults \in BOOLEAN : Window(2, drained, faults)!WindowAssumption
ASSUME Attacks!AttacksAssumption
ASSUME Security!RepeatsAssumption /\ Adaptive!AdaptiveAssumption
ASSUME /\ Comparison!ComparedAssumption /\ Comparison!DisturbancesAssumption
       /\ Comparison!CountAssumption /\ Comparison!FaultsAssumption
ASSUME \A protocols \in {ChainAndTicket, GmcpAndMac}, fail \in BOOLEAN :
         /\ Embedded(protocols, fail)!ProtocolAssumption
         /\ Embedded(protocols, fail)!CountAssumption
         /\ Embedded(protocols, fail)!FaultAssumption
ASSUME Baseline!SpokenAssumption /\ Baseline!EpochsAssumption
ASSUME Simulation!SimulationsAssumption
ASSUME Cost!CostAssumption
ASSUME Monitor!MonitorAssumption
ASSUME \A simulated \in {TwoProtocols, {"gmcp"}}, rates \in {Lossy, BothRates} :
         /\ WeakNetwork(simulated, rates, 2)!SimulatedAssumption
         /\ WeakNetwork(simulated, rates, 2)!CountsAssumption
         /\ WeakNetwork(simulated, rates, 2)!FaultsAssumption
ASSUME \A guarded \in BOOLEAN : Tc(guarded, 2, 2, 2)!ParametersAssumption
ASSUME Publication!PublicationAssumption

-----------------------------------------------------------------------------
(* Properties. *)

Runs(name, P) == program = name => P

\* TypesOK: each program's variables stay in their domains.
TypesOK ==
  /\ Runs("windowed", Windowed!TypeOK)
  /\ Runs("recovery", Recovery!TypeOK)
  /\ Runs("datagram", Datagram(TRUE)!TypeOK)
  /\ Runs("client", Datagram(FALSE)!TypeOK)
  /\ Runs("checkpoint", Checkpoint!TypeOK)
  /\ Runs("concurrent", Concurrent("per_session_lock")!TypeOK)
  /\ Runs("concurrent_global", Concurrent("global_lock")!TypeOK)
  /\ Runs("benchmark", Benchmark!TypeOK)
  /\ Runs("window", Window(2, TRUE, FALSE)!TypeOK)
  /\ Runs("window_faults", Window(1, TRUE, TRUE)!TypeOK)
  /\ Runs("window_spawned", Window(2, FALSE, FALSE)!TypeOK)
  /\ Runs("attacks", Attacks!TypeOK)
  /\ Runs("security", Security!TypeOK)
  /\ Runs("adaptive", Adaptive!TypeOK)
  /\ Runs("comparison", Comparison!TypeOK)
  /\ Runs("embedded", Embedded(GmcpAndMac, FALSE)!TypeOK)
  /\ Runs("embedded_faults", Embedded(ChainAndTicket, TRUE)!TypeOK)
  /\ Runs("baseline", Baseline!TypeOK)
  /\ Runs("simulation", Simulation!TypeOK)
  /\ Runs("cost", Cost!TypeOK)
  /\ Runs("monitor", Monitor!TypeOK)
  /\ Runs("weak_network", WeakNetwork(TwoProtocols, Lossy, 1)!TypeOK)
  /\ Runs("weak_control", WeakNetwork({"gmcp"}, BothRates, 2)!TypeOK)
  /\ Runs("tc", Tc(FALSE, 1, 2, 2)!TypeOK)
  /\ Runs("tc_guarded", Tc(TRUE, 2, 2, 1)!TypeOK)

\* RowsAreTrue: what a program writes into a row of its results is what
\* happened.  A row that is judged valid, verified or recovered stands for a
\* server that holds the whole history, whatever timed out, broke off or came
\* late; no message, and no sample of a monitor, is counted twice or not at
\* all; and a run that nothing disturbed is not judged a failure.
RowsAreTrue ==
  /\ Runs("windowed", Windowed!RowAgrees /\ Windowed!VerifiedIsWhole)
  /\ Runs("recovery", Recovery!FullRecoveryIsWhole /\ Recovery!OneDetour)
  /\ Runs("datagram", Datagram(TRUE)!SuccessMeansDelivered)
  /\ Runs("checkpoint", Checkpoint!RowIsWhole /\ Checkpoint!ReconstructionMatches)
  /\ Runs("concurrent", Concurrent("per_session_lock")!EveryMessageCounted)
  /\ Runs("concurrent_global", Concurrent("global_lock")!EveryMessageCounted)
  /\ Runs("benchmark", /\ Benchmark!MeasuredIsAccepted /\ Benchmark!LocalIsWhole
                       /\ Benchmark!NetworkAccounts)
  /\ Runs("window", Window(2, TRUE, FALSE)!RowsPass)
  /\ Runs("window_faults", /\ Window(1, TRUE, TRUE)!AcceptedRowsAreTrue
                           /\ Window(1, TRUE, TRUE)!NonceColumnIsTrue)
  /\ Runs("comparison", Comparison!ValidRowsAreComplete /\ Comparison!CountersBalance)
  /\ Runs("embedded", Embedded(GmcpAndMac, FALSE)!CompleteRunsMatch)
  /\ Runs("embedded_faults", /\ Embedded(ChainAndTicket, TRUE)!ValidRunsAreWhole
                             /\ Embedded(ChainAndTicket, TRUE)!NamedFailures)
  /\ Runs("simulation", Simulation!ReplayIsBounded /\ Simulation!ChainRecoversHistory)
  /\ Runs("cost", /\ Cost!ValidIffIntact /\ Cost!VerifiedIsHistory
                  /\ Cost!ExitReports)
  /\ Runs("monitor", Monitor!EverySampleOnce /\ Monitor!SeriesAligned)
  /\ Runs("weak_network",
          /\ WeakNetwork(TwoProtocols, Lossy, 1)!AccountsBalance
          /\ WeakNetwork(TwoProtocols, Lossy, 1)!RowsAreWholeHistories
          /\ WeakNetwork(TwoProtocols, Lossy, 1)!GateAgrees
          /\ WeakNetwork(TwoProtocols, Lossy, 1)!SmokeComesFirst
          /\ WeakNetwork(TwoProtocols, Lossy, 1)!PublishedIsComplete
          /\ WeakNetwork(TwoProtocols, Lossy, 1)!PublishedValidates)
  /\ Runs("weak_control",
          /\ WeakNetwork({"gmcp"}, BothRates, 2)!AccountsBalance
          /\ WeakNetwork({"gmcp"}, BothRates, 2)!RowsAreWholeHistories
          /\ WeakNetwork({"gmcp"}, BothRates, 2)!GateAgrees
          /\ WeakNetwork({"gmcp"}, BothRates, 2)!SmokeComesFirst
          /\ WeakNetwork({"gmcp"}, BothRates, 2)!PublishedIsComplete
          /\ WeakNetwork({"gmcp"}, BothRates, 2)!PublishedValidates)
  /\ Runs("tc", Tc(FALSE, 1, 2, 2)!RowsUnderTheirCondition)
  /\ Runs("tc_guarded", /\ Tc(TRUE, 2, 2, 1)!CountsBalance
                        /\ Tc(TRUE, 2, 2, 1)!NeverRejected)

\* AttacksAreFound: an attack an experiment plays is detected, for the reason
\* it was made for, and leaves no trace in the server's history, also when
\* packets follow it, answers are read late or two recoveries race.
AttacksAreFound ==
  /\ Runs("windowed", Windowed!AttackFound /\ Windowed!PrevMemReason)
  /\ Runs("datagram", Datagram(TRUE)!AttackFound)
  /\ Runs("client", Datagram(FALSE)!AttackFound)
  /\ Runs("window_faults", Window(1, TRUE, TRUE)!AtMostOneWinner)
  /\ Runs("attacks", Attacks!NoAttackRecovers /\ Attacks!ReasonIsItsOwn)
  /\ Runs("security", Security!EachForItsOwnReason)
  /\ Runs("adaptive", Adaptive!BlockedByTheTag /\ Adaptive!WeaknessShows)
  /\ Runs("comparison", Comparison!DetectedLeavesNoTrace /\ Comparison!MatrixAsExpected)
  /\ Runs("baseline", Baseline!AlteredNeverAccepted)
  /\ Runs("simulation", Simulation!TableAgrees)

\* EndsAgree: a client's number and memory are those of its server, or behind
\* by no more than what is under way or was lost, through timeouts, attacks
\* and recoveries; so are the parts of a server's own state, and an answer is
\* only taken for the message it belongs to.  A monitor and its threads agree
\* on which of them samples.
EndsAgree ==
  /\ Runs("windowed", Windowed!WindowKept)
  /\ Runs("recovery", Recovery!InStep)
  /\ Runs("datagram", Datagram(TRUE)!OffByLatePong)
  /\ Runs("client", Datagram(FALSE)!OffByLatePong)
  /\ Runs("checkpoint", Checkpoint!ResumesInStep)
  /\ Runs("concurrent", /\ Concurrent("per_session_lock")!StartTogether
                        /\ Concurrent("per_session_lock")!TheServersWord
                        /\ Concurrent("per_session_lock")!AnswersFit)
  /\ Runs("concurrent_global", Concurrent("global_lock")!LocksGivenBack)
  /\ Runs("benchmark", Benchmark!AnswersFit)
  /\ Runs("comparison", Comparison!ClientNeverAhead)
  /\ Runs("embedded_faults", Embedded(ChainAndTicket, TRUE)!ClientOneBehind)
  /\ Runs("baseline", Baseline!ContextsAgree /\ Baseline!AckedInLog)
  /\ Runs("simulation", Simulation!InStep)
  /\ Runs("monitor", Monitor!OneSampler)
  /\ Runs("tc_guarded", Tc(TRUE, 2, 2, 1)!OneInDoubt)

\* Whether the program is over, and has left neither a server process nor
\* rules on the interface behind.  A server is not over; a monitor may be
\* left running, but none of its threads once it has been stopped for good.
Over ==
  CASE program \in {"window", "window_faults", "window_spawned"} -> pc = "end"
    [] program = "concurrent" -> Concurrent("per_session_lock")!Over
    [] program = "concurrent_global" -> Concurrent("global_lock")!Over
    [] program = "embedded" -> Embedded(GmcpAndMac, FALSE)!Over
    [] program = "embedded_faults" -> Embedded(ChainAndTicket, TRUE)!Over
    [] program = "cost" -> pc \in {"raised", "exit"}
    [] program = "publication" -> Publication!Ended
    [] program = "weak_network" -> WeakNetwork(TwoProtocols, Lossy, 1)!Over
    [] program = "weak_control" -> WeakNetwork({"gmcp"}, BothRates, 2)!Over
    [] program = "adaptive" -> Adaptive!Over
    [] program = "tc" -> Tc(FALSE, 1, 2, 2)!Over
    [] program = "tc_guarded" -> /\ Tc(TRUE, 2, 2, 1)!Over
                                 /\ Tc(TRUE, 2, 2, 1)!ClearedDespiteOneFault
    [] program = "monitor" -> Monitor!Over
    [] program = "baseline" -> TRUE
    [] OTHER -> pc = "done"

\* RunsEnd: every program comes to its end, whatever times out, breaks or is
\* refused: no read, lock, barrier, retry or join waits for ever.
RunsEnd == []<>Over

=============================================================================
