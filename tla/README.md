# GMCP-R in TLA+

GMCP-R is a message protocol with *memory continuity*: every message is chained
to the history of its session (`last_mem`, a hash chain), a server keeps
checkpoints of that history, and it hands its clients *memory tickets* with
which they recover after losing a connection. The repository holds the protocol
(`gmcp/`), several servers, and many experiment programs that drive them, judge
what happened and publish the rows a paper rests on.

This directory specifies and checks the parts that have state, concurrency or
failures: the server's sessions, checkpoints and tickets, the threads and locks
around them, the clients that abandon connections and recover, the baselines
they are compared with, each experiment program with what it writes into its
rows, and the rows, and the files that runs, batches and aggregates leave behind.
The core `TicketRecovery`, the threads and locks of both servers
(`ServerSessions`, `BaselineServer`), the recovery validation with its
verdict (`RecoveryValidation`), the recovery window experiment with its race for
a ticket (`RecoveryWindow`), the clients of the concurrent experiment
(`ConcurrentClients`), the comparison of the baselines with its matrix of detections
(`BaselineComparison`), the resource monitor with its thread (`ResourceMonitor`), and
the files: of batches and their aggregates
(`CrossHostBatches`, `RecoveryAggregate`), of the validation programs
(`RecoveryPublication`, `NetemValidation`), of reruns (`Reruns`) and of the
checkpoint manager (`CheckpointStore`), are also proved correct, for all values of their parameters (section 4).

## 1. The system

### 1.1 Components

| Component | State it keeps | Operations | Talks to |
|---|---|---|---|
| Ticket server, `real_tcp_server_with_ticket.py` | per connection: the session HELLO bound it to; otherwise that of the components below | HELLO, DATA, RECOVERY_REQUEST, PING; one thread per connection | clients by JSON lines over TCP; registry, contexts, nonce store |
| Session registry, `gmcp/session_registry.py` | `_contexts`, `_registry_lock`, the lock of each context (or one global lock) | `get_or_create`, `get_all` | called by every server thread |
| Protocol core, `gmcp/protocol.py`, `memory.py`, `packet.py` | `GMCPState`: `last_seq`, `last_mem` | `verify_data_packet` (checks, then updates), `update_memory`, packet builders | called under the context's lock |
| Tickets, `gmcp/ticket.py` | `TicketNonceStore._used`, process wide | `build_memory_ticket`, `validate_memory_ticket`, `consume_ticket_nonce` | called under the context's lock, has a lock of its own |
| Checkpoint manager, `gmcp/checkpoint_manager.py` | `checkpoints`, the interval, files on disk | `should_checkpoint`, `create_checkpoint`, look-ups, loading from disk, `CheckpointRecoverySession` | called under the context's lock; disk |
| Recovery messages, `gmcp/recovery_protocol.py` | none | builders and verifiers of RECOVERY_REQUEST and RECOVERY_RESPONSE | client and server |
| Recovery drivers (`run_real_recovery_experiment.py`, `run_recovery_window_experiment.py`, `run_real_ticket_recovery_experiment.py`, `run_checkpoint_recovery_experiment.py`) | the client's number, memory, saved ticket or checkpoint; the row | send DATA, play an attack, lose the connection, recover, send on | ticket server or plain TCP server |
| Recovery validation runner, `run_recovery_validation.py` | client: `ProtocolAdapter`, counters, flags; its `EmbeddedTCPServer`: verifiers, counts, armed close points; the runner: temporary and final files | HELLO, ARM_SERVER_CLOSE, DATA, FINAL_STATE, close; verdict, gate, publication | its own two halves; the directory of results |
| Baselines, `gmcp/baselines/`, `real_baseline_server.py` | `last_seq`, `last_hash`, chain entries; one context per protocol, session and epoch | HELLO, DATA, RECOVERY_REQUEST; recovery from chain and ticket | baseline comparison runners |
| Plain servers and their clients (`real_tcp_server.py`, `real_server.py`, `server.py`, `client.py`, `run_real_tcp_network_experiment.py`, `run_real_network_experiment.py`) | a verifier; the client's window or its one outstanding datagram | DATA, PING, attacks | each other by TCP and UDP |
| Network condition runners (`run_netem_validation.py`, `run_cross_host_validation.py`, `run_weak_network_simulation.py`, the two tc scripts) | the interface's rules, attempts, counters, temporary and final files | set and clear rules, run, retry, judge, publish | the kernel's `tc`, servers, the directory of results |
| Aggregators (`aggregate_recovery_batches.py`, `aggregate_cross_host_batches.py`) | rows read, errors | check the batches, publish their union | the same directory |
| Load and cost runners (`run_concurrent_experiment.py`, `run_performance_benchmark.py`, `run_checkpoint_cost_comparison.py`) | clients, locks, barrier; verifiers; history files | measure | servers, files |
| Attack experiments and reruns (`run_ticket_security_experiment.py`, `run_hash_chain_adaptive_attack.py`, `rerun_failed_real_recovery.py`) | the used nonces; a chain; the rows of a file | present altered tickets and packets; make failed rows again | ticket verification, baseline server, a result file |
| In-process simulations, monitor (`run_experiment.py`, `run_baseline_comparison_experiment.py`, `monitor_resources.py`) | simulated client and server; a sampling thread and its lists | attacks, losses, recoveries; start, stop, get_stats | - |
| Statistics, validators, plots, paper | files | computations on CSV data | files only |

`PROJECT.json` lists every component with its source files and what is done
about it.

### 1.2 What is hard about it

* **Threads.** A server thread per connection, all on shared contexts. The
  registry lock covers only look-up and creation, a context's lock covers a
  whole DATA or RECOVERY_REQUEST, the nonce store has its own lock, and *the
  answer is sent after the context's lock is released*, in one server even
  serialised after it. Clients of the concurrent experiment share locks and a
  barrier; the monitor samples in a thread that `stop` waits for only so long.
* **Lost connections and late answers.** A client stops waiting (timeout,
  closed socket) without knowing whether the server has read its request. The
  request may be handled before, during or after the recovery the client asks
  for next; an answer that comes late stands in the connection in front of the
  next one. A Python file object whose read has timed out fails from then on.
* **One-time tickets.** Validation of a ticket and consumption of its nonce are
  separate; the response that follows may be lost; a ticket loses its value
  when the next checkpoint is made, when it expires and when it is used.
* **Partial failure.** A checkpoint is written to disk in the middle of the
  critical section, after the message has been accepted. `tc` commands fail,
  and what they set outlives the program that set it.
* **Timeouts against late events.** The validation runner waits for a close by
  the server that may come late, and asks for final counts that late messages
  may still change.
* **Files.** Temporary names are guarded, written, checked, linked to their
  final name and unlinked, by programs that are interrupted or killed between
  any two of these steps and may be started twice in one directory.
* **No restart.** Registry and nonce store are lost with the process, and the
  checkpoint files are never read back by any program of the repository.

### 1.3 What makes each component correct

* Protocol core and tickets: client and server never fork; what the client
  believes is a beginning of the server's history; at most one message is in
  doubt; a ticket is accepted at most once; an honest ticket is only refused
  for its age, expiry or reuse.
* Checkpoints: they lie on the history, ascend, and are frequent enough to
  bound what a recovery has to rebuild; what was saved survives a crash.
* Registry and locks: one context per session, one thread at a time in it, no
  thread that waits for ever, no effect on another session.
* Experiments: a row says what happened. One that is judged valid, verified or
  recovered stands for a server with the whole history; an attack that is
  played is found, for its own reason, and changes nothing; a good run is not
  called bad; and the program ends.
* Publication: what stands under a final name is whole, of one run, and is
  never replaced; nothing that was measured disappears; ports and interfaces
  are left as they were.

## 2. Modules

| Module | Models | Kind |
|---|---|---|
| `SharedHistory` | what a session promises: an append-only history, and a client that learns ever longer beginnings of it | abstract |
| `TicketRecovery` | one session: server critical sections, tickets, checkpoints, the client, connections that get abandoned | core, implements `SharedHistory` |
| `CollectionLemmas` | facts about prefixes, remainders, nested loops, finite sets, listings and sums that the proofs share | proofs |
| `TicketRecoveryProofs` | the theorems about `TicketRecovery` and `RecoveryWindow` | proofs |
| `ServerSessionsProofs` | the theorems about `ServerSessions`, `ConcurrentClients` and `ResourceMonitor` | proofs |
| `BaselineServerProofs` | what each protocol's verdict and update guarantee; the theorems about `BaselineServer` and `BaselineComparison` | proofs |
| `RecoveryValidationProofs` | the theorems about `RecoveryValidation` | proofs |
| `RecoveryFilesProofs` | the theorems about `RecoveryAggregate`, `RecoveryPublication`, `Reruns` and `CheckpointStore` | proofs |
| `NetemValidationProofs` | the theorems about `NetemValidation` | proofs |
| `CrossHostBatchesProofs` | the theorems about `CrossHostBatches` | proofs |
| `AtomicSessions` | several sessions whose messages and recoveries are atomic | abstract |
| `ServerSessions` | the threads of the ticket server over registry, locks, contexts and nonce store | implements `AtomicSessions` |
| `BaselineProtocols` | the verifiers of all protocols as operators: what is checked in which order, what an accepted packet changes, recovery from chain and ticket | operators |
| `BaselineServer` | `real_baseline_server.py`: connections, registry, contexts of several parts, answers serialised outside the lock | implements `AtomicSessions` |
| `BaselineComparison` | `run_real_baseline_comparison.py`: one experiment per protocol and disturbance | program |
| `RecoveryValidation` | one experiment of `run_recovery_validation.py`: client, embedded server, verdict, gate | implements `SharedHistory` |
| `RecoveryPublication`, `RecoveryAggregate` | its main program: arguments, port, files; the aggregation of its batches | files |
| `EmbeddedServer`, `CrossHostBatches` | `run_cross_host_validation.py`: two clients and the embedded server; batches, retries, journal, aggregation and its validation (`validate_cross_host_artifact.py`) | program; files |
| `NetemValidation` | `run_netem_validation.py`: rules of the interface, runs, signals, artifact, up to two runners | files |
| `WeakNetworkSimulation` | `run_weak_network_simulation.py`: spawned server, smoke test, retries, gate, publication, validation (`validate_weak_network_artifact.py`) | program |
| `TcNetem` | `run_tc_netem_experiment.py` and `run_real_tc_netem_experiment.py` | program |
| `PlainServer` | what the plain TCP and UDP servers do with a packet | operators |
| `WindowedClient`, `DatagramClient` | `run_real_tcp_network_experiment.py`; `run_real_network_experiment.py` and `client.py` | program |
| `RecoveryClient`, `CheckpointClient` | `run_real_recovery_experiment.py`; `run_checkpoint_recovery_experiment.py` | program |
| `RecoveryWindow` | `run_recovery_window_experiment.py`: its scenarios, the nonce race, the pipe of a spawned server | program |
| `Tickets`, `TicketAttacks` | `gmcp/ticket.py`'s checks as operators; `run_real_ticket_recovery_experiment.py` | operators; program |
| `TicketSecurity` | `run_ticket_security_experiment.py`: six kinds of ticket, verified in the process | program |
| `AdaptiveAttack` | `run_hash_chain_adaptive_attack.py`: a payload replaced and its public hashes made to fit | program |
| `Reruns` | `rerun_failed_real_recovery.py`: failed rows made again, the file written in place | files |
| `Simulations` | `run_experiment.py` and `run_baseline_comparison_experiment.py` | program |
| `CheckpointCost` | `run_checkpoint_cost_comparison.py`: prepared files, damaged ones, rows, exit code | program |
| `CheckpointStore` | `gmcp/checkpoint_manager.py`: saving, crashes, loading, recovery sessions | files |
| `ConcurrentClients`, `PerformanceBenchmark` | `run_concurrent_experiment.py`; `run_performance_benchmark.py` | program |
| `ResourceMonitor` | `monitor_resources.py` | program |
| `MCExperiments`, `MCResultFiles` | the programs and the file handlers side by side, each with its parameters | model checking |
| other `MC...` | symmetry sets and functions for an instance | model checking |

How they fit together: `ServerSessions` shows that, with the locks the code
takes, a message or a recovery is one atomic step of a session
(`ImplementsAtomicSessions`); `BaselineServer` shows the same of the other
server. The modules of the drivers rely on that and take a request as one
action of a server kept in `PlainServer`, `BaselineProtocols` or their own
operators; they look at what the client makes of the answers. `TicketRecovery`
is the most general client of the ticket server; `RecoveryClient`,
`RecoveryWindow`, `TicketAttacks` and `CheckpointClient` are the programs as
they are written. `RecoveryValidation` decides whether a row is valid;
`RecoveryPublication` and `RecoveryAggregate` take that as a bit and follow the
files.

### 2.1 TicketRecovery

State: the context (`checkpoint_interval`, `last_seq`, `last_mem`,
`checkpoints`), the nonce store and the tickets issued (`used_nonces`,
`issued`, `expired`), one request and one response slot per connection, the
connections the client still waits on (`waiting`), and the client (`client_seq`,
`client_mem`, `pending`, `synced`, `held`).

| Action | Code |
|---|---|
| `AcceptData`, `RejectData` | `handle_client`, the DATA branch: `get_or_create`, `verify_data_packet`, checkpoint when due, ticket when due, response |
| `AcceptRecovery`, `RejectRecovery` | `handle_recovery_request`: floor, `validate_memory_ticket`, checkpoint comparison, `consume_ticket_nonce`, replacement ticket, response |
| `SendData`, `ReceiveDataResponse` | the drivers' send loop; the client computes its own memory on an acknowledgement |
| `SendRecovery`, `ReceiveRecoveryResponse` | `_request_recovery`; several connections at once is the `nonce_race` scenario |
| `Abandon` | a receive timeout, or the driver closing its socket on purpose |
| `LoseRequest` | a request on a closed connection that the server's thread never reads |
| `ExpireTicket` | `time.time() > expire_time` |

Abstractions. A memory is the sequence of payloads it was hashed from (the hash
is taken as collision-free). A nonce is the ticket's position in the order of
issue. HMACs are taken as unforgeable, so packets are not altered and tickets
are the server's. HELLO is assumed done (it is in `ServerSessions`). Counters,
`client_last_seq`/`client_last_mem` of a recovery request (the server does not
use them to decide) and the matching of `recovery_nonce` are left out. The
intervals 10..1000 and 100 of the code are scaled down; nothing depends on
their size. A recovery request may carry an interval as a DATA packet may, since
the server takes it from either when it makes the context; the drivers here send it
with their first DATA packet only. `held` is a set: the client may present any ticket it was ever
given, the current one or an old one (`run_recovery_window_experiment.py` does
both). The client of this module waits for each answer before it sends on; the
`ack_loss` scenario of that script, which goes on without answers, is in
`RecoveryWindow`.

### 2.2 ServerSessions

State: the registry (`registry`, `contexts`), the nonce store and tickets, and
for each connection's thread where it is (`pc`), the locks it holds, the
session it is bound to, the line it works on, the context it got and the reply
it will send. Actions are the stretches of a thread between two points where
others matter:

| Action | Code |
|---|---|
| `Hello` | the HELLO branch, which binds the connection |
| `ReadLine` | the next line, and its refusal when the connection is not bound, or bound to another session |
| `LockRegistry`, `Lookup`, `Create` | `SessionRegistry.get_or_create`: lock, look-up, factory and insertion |
| `Enter` | `with ctx.lock` |
| `Verify`, `Accept`, `Reject` | check and update of the verifier; counters, checkpoint, ticket. `Accept` may fail writing the checkpoint: the message stays accepted, the locks are released, the thread ends without an answer. The factory's `makedirs` may fail too |
| `Validate`, `Consume` | ticket checks with the nonce looked up; consumption asks the nonce store again |
| `Send`, `EndOfInput` | the answer, outside the lock, to a client that may have gone; the end of a connection |

A connection slot whose thread ended is used again by a new, unbound
connection. A checkpoint and a ticket are due together here, so a session's
floor follows from its history.

### 2.3 RecoveryValidation

State: the run's parameters (`protocol`, `point`, `type`), the embedded server's
per-session dictionaries (`session`), one thread per connection (`thread`,
`reply`), the lines under way (`inbox`, `outbox`), and the client (`step`,
`conn`, `seq`, the adapter's `last_seq` and `last_mem`, its notes `run`, the
FINAL_STATE answer `final`).

The client's actions follow the three phases of `run_one_recovery_experiment`;
`ReadFails` and `CloseTimesOut` are its timeouts. A Python file object whose
read timed out raises `OSError` on every later read, which the model keeps
(`timed_out`): that is what makes the final request of a disturbed second
connection fail. The server's actions are its handlers; `AfterSending`,
`Trigger` and `Shutdown` are what `_handle_data` does after it has sent the
acknowledgement of the armed message, in three steps because the lock is
released between them. `DisconnectValid` ... `RunValid` and `GatePasses` are
the verdict (`run_valid`) and the publication gate (`validate_recovery_rows`).

Abstractions: a message's payload is a function of its number, so a chained
memory is a sequence of numbers; `seq_mac` has none. HMACs, provenance and
matrix checks always succeed. A refused connection is left out: the embedded
server listens before the client starts.

### 2.4 The programs

Each program module has the program's local variables under their own names, a
`pc` that names the place in its loop, `Client` (or `Runner`) as its part of the
next-state relation and `Serve` as its server's, where the two interleave; a
server that answers before the client can go on is part of the client's action.
Faults are actions of their own or disjuncts, bounded by a constant
(`MaxFaults`, `MaxTimeouts`, `MayTimeOut`, `MayBreak`): a read that times out,
a connection that breaks, a late datagram, a `tc` command that fails, a process
that ends. What a program does at its end, its row or its verdict, is an
operator named after the variable of the code.

Where the repository has no server that fits a program, the module says what it
assumes: `RecoveryClient` and `CheckpointClient` run against `"tcp"`
(`real_tcp_server.py`, which does not sign its recovery response), `"ticket"`
(the ticket server, which wants a HELLO they do not send) and `"signing"`, a
server that would answer as they expect; `TicketAttacks` runs with both answers
to a missing HELLO (`HelloRules`), as does `AdaptiveAttack`; `PerformanceBenchmark` measures a server
that needs none (`NeedsHello <- FALSE`), and `ConcurrentClients` one that takes
the protocol name it sends (`VerifierTakes`). Properties about the good end of
a run are about these; with the repository's own servers the runs only show
what the refusals lead to (3.5).

The servers inside the program modules have the branches their programs can reach. Left out
are: in `EmbeddedServer`, the HELLO of a session that exists
(`run_cross_host_validation.py:758`) and DATA before HELLO (`:855`), since each client
of that program has a session of its own and greets first; in `BaselineComparison`, the HELLO
that is refused (`run_real_baseline_comparison.py:526`), since the protocols it runs
are the server's. Two steps stand for one stretch under a lock where that only adds
behaviours: the answer to a HELLO of a known session in `RecoveryValidation` is made
in one step and sent in the next, and the assignments of a verifier's update are
two steps in `BaselineServer`, whose proof shows that the lock keeps others out between them.

### 2.5 The file handlers

`RecoveryPublication` separates a *name* from the *file* it refers to: a runner
whose temporary file was renamed or linked by another one goes on writing into
it. In `NetemValidation` and `CrossHostBatches` nobody loses a file that way
(4.6, 4.7), and a name stands for its rows. Opening, checking, linking,
unlinking and renaming are separate actions, and between any two of them a
process may be killed, be interrupted (an exception its clauses then handle),
or find that the other runner moved first. `CheckpointStore` writes a file in
two steps, so that a crash may leave half of one, and loads what is there in
the order of the names (`Width` digits, two in the run, six in the code).

## 3. Runs

| Run | Question | Instance |
|---|---|---|
| `ticket_recovery` | Do server, tickets and client stay on one history under abandoned connections, late packets, ticket races and expiry? | 3 connections, 2 payloads, intervals {2,3}, tickets every 2, 4 messages, 4 tickets; 1,139,526 states |
| `replacement_ticket` | Does the driver keep the replacement ticket, as the design says? *Violated* | 2 connections, 3 messages |
| `server_sessions` | Do the locks make every message and recovery atomic? | 3 threads, 2 sessions, per-session locks, disk failures, 4 lines; 1,776,457 states |
| `server_sessions_global` | Does the global lock serialise everything, and is every line answered? | 2 threads, 2 sessions, global lock, disk failures, fairness; 198,558 states |
| `server_sessions_drivers` | Are drivers that skip HELLO served, as the guide has it? *Violated* | 1 thread |
| `recovery_validation` | Is the verdict on a close-and-resume run right, whatever times out, and does every run end? | 4 messages, all 3 points, both closes, chained and unchained, fairness; 31,629 states |
| `recovery_validation_timeout` | Does a valid run exclude a timeout, as the gate means it to? *Violated* | 3 messages |
| `baseline_server` | Are the contexts of the baseline server atomic, and do its answers cover the state they name? | 2 connections, 2 sessions, chained and unchained; 527,665 states |
| `baseline_chain_recovery` | Can a client recover from the chain the baseline server answers with? *Violated* | 1 connection, 4 lines |
| `embedded_tickets` | Does each of two ticket clients get the ticket of its own session? *Violated* | 2 clients |
| `experiments` | Does each experiment program record what happened, find its attacks, stay in step with its server, and end? | 26 programs (below); 891,461 states |
| `result_files` | Do crashes, interrupts, failing commands and second runners leave every published file whole, and nothing else behind? | 11 programs (below); 1,646,687 states |

The two suites, `MCExperiments` and `MCResultFiles`, put many programs into one
run. A behaviour is one of *one* program: `program` names it and never changes,
`pc` is its place, and `v1`, `v2`, ... are its other variables. To read a
counterexample, look up `program` in the suite: its `INSTANCE` says which
variable of the module each register is (the order of the module's
`VARIABLES`); registers a program does not use keep the value `"unused"`. The
constants of each program are set there too, beside the comment that names the
file. A module whose constants need assumptions defines them as an operator
(`...Assumption`), and the suite states it with `ASSUME` for the values it uses.

`experiments`: `windowed`, `recovery`, `datagram` and `client` (with and
without PING), `checkpoint`, `concurrent` and `concurrent_global` (the two lock
strategies), `benchmark`, `window`, `window_faults` (lost answers, timeouts,
the nonce race under faults) and `window_spawned` (with the undrained pipe),
`attacks`, `security`, `adaptive`, `comparison`, `embedded` and `embedded_faults`, `baseline`,
`simulation`, `cost`, `monitor` (three samples by two threads and the owner, a
reading that raises, joins that time out), `weak_network` (two protocols, a lossy link) and `weak_control` (one, with
and without losses), `tc` and `tc_guarded`, `publication`.

`result_files`: `batches` and `batches_mixed` (several commits), `netem` (one
runner, interrupts and failing commands) and `netem_overlap` (a second runner),
`publication` (two runners, crash, interrupt, leftovers of earlier runs) and
`publication_args` (every argument, one runner beside a server), `aggregate`
(files that are edited meanwhile) and `aggregate_race` (three aggregators),
`store` and `store_reused` (an earlier run's files), `rerun`.

### 3.1 Properties

`TicketRecovery`

* `CheckpointsOnHistory`, `TicketsOnHistory`: checkpoints and both memories a
  ticket binds lie on the server's history, in order.
* `CheckpointComparisonNeverFails`: the search by the ticket's checkpoint
  number finds the ticket's own checkpoint for every ticket ever issued.
* `RecoveryWindowBounded`: the server is never a full interval past the floor,
  also when the first checkpoint was made early for a ticket.
* `ClientOnHistory`, `AtMostOneInDoubt`: the client is on the history and at
  most one message behind.
* `NoFalseDiscontinuity`: an honest packet in order is never refused as
  discontinuous, however late it is read.
* `ResponsesAgreeWithClient`: an answer still waited for never rolls the client
  back or off the history.
* `RaceHasOneWinner`, `SpentTicketsStaySpent`: one ticket, one recovery.
* `ImplementsSharedHistory`: refinement of `SharedHistory`.

`ServerSessions`

* `OneContextPerSession`, `CriticalSectionsExclusive`: registry and locks.
* `AckedInHistory`: an acknowledged message keeps its place for ever.
* `StatsMatchHistory`: outside the critical section counters and history agree.
* `ValidatedStaysUnused`: the branch "ticket replay detected during nonce
  consumption" is never taken, although the store is unlocked in between.
* `ChangesOnlyBoundSession`: no effect across sessions.
* `ImplementsAtomicSessions`: refinement of `AtomicSessions`, with dying threads.
* `EveryLineAnswered`: liveness.

`RecoveryValidation`

* `AccountsBalance`: received = accepted + rejected, accepted = 1..`last_seq`,
  duplicates counted once per repetition.
* `RunValidSound`: a valid run lost, duplicated and forked nothing.
* `NoFalseAlarm`: an undisturbed run is valid.
* `GateAgrees`: the gate never refuses a valid run.
* `ImplementsSharedHistory`: also when abandoned messages arrive after the
  reconnection.
* `RunEnds`: liveness.

`BaselineServer`

* `AnswersCoverSnapshot`: a recovery answer, serialised from the live chain
  after the lock was given back, still covers the number and the hash
  that were read under the lock.
* `ImplementsAtomicSessions`: refinement of `AtomicSessions`.

`MCExperiments`. Each property is a conjunction over the programs; the parts
are defined, with a comment of their own, in the programs' modules.

* `RowsAreTrue`: what a row says is what happened. Among its parts:
  `VerifiedIsWhole` (windowed: a verified run delivered every message once),
  `FullRecoveryIsWhole`, `RowIsWhole` and `ReconstructionMatches` (the memory
  rebuilt from checkpoint and saved messages is the server's), `RowsPass` and
  `NonceColumnIsTrue` (recovery window), `ValidRunsAreWhole` and
  `NamedFailures` (cross-host), `ValidRowsAreComplete` (comparison),
  `ValidIffIntact` (cost: valid exactly when what was read is undamaged),
  `PublishedIsComplete`, `SmokeComesFirst` and `PublishedValidates` (weak
  network; the last says what the artifact's validator makes of the file),
  `RowsUnderTheirCondition` (tc), `MeasuredIsAccepted` (benchmark),
  `EveryMessageCounted` (concurrent), `EverySampleOnce` and `SeriesAligned`
  (monitor: each sample has its entry in every list, whichever threads sample at
  once; the lists are aligned unless a join was given up).
* `AttacksAreFound`: `AttackFound` with `PrevMemReason` (windowed, datagram),
  `NoAttackRecovers` and `ReasonIsItsOwn` (tickets), `EachForItsOwnReason`
  (tickets verified in the process), `BlockedByTheTag` and `WeaknessShows`
  (adaptive attack), `AtMostOneWinner` (nonce
  race), `DetectedLeavesNoTrace` and `MatrixAsExpected` (comparison),
  `AlteredNeverAccepted` (baseline server), `TableAgrees` (simulation).
* `EndsAgree`: `WindowKept`, `InStep`, `OffByLatePong` (the client's count is off
  by at most the packet in doubt, or the one whose answer was a late PONG), `ResumesInStep`,
  `StartTogether`, `TheServersWord`, `LocksGivenBack`, `AnswersFit`,
  `ClientNeverAhead`, `ClientOneBehind`, `ContextsAgree`, `AckedInLog`,
  `OneSampler` (the threads that sample are the one `_thread` names and those that
  outlasted a join), `OneInDoubt`.
* `RunsEnd`: liveness. Every program comes to its end, has stopped the server
  it spawned and, with at most one failing `tc` command, cleared its rules.

`MCResultFiles`

* `FilesAreWhole`: what stands under a final name is whole and of one origin
  (`PublishedBatchIsWhole`, `AggregateIsUniform`, `PublishedIsArtifact`,
  `FinalIsWhole`, `ConfigsAreBalanced`, `AggregateValidates`), a success has published
  (`SuccessIsPublished`, `AcceptedRunsPublish`), the journal keeps up with the
  files (`JournalKeepsUp`), rows written are still there under some name
  (`NothingLost`), and completed checkpoints survive a crash and load whole,
  the newest last (`Durable`, `LoadedIsWhole`, `LatestIsNewest`); a rerun leaves
  the rows that passed and gives a failed one all its attempts
  (`PassingRowsStay`, `TriedEnough`).
* `FilesStay`: no final file or failed artifact is ever replaced; a rerun
  shortens its file only while it writes it (`RowsOnlyLostInWriting`).
* `LeftClean`: no rules left on the interface unless the program said so, no
  server left on the port.
* `RecoveryFits`: a recovery session starts from the nearest checkpoint, of
  this run also where an earlier one left files, and replays what is missing.

Each suite also has one `TypesOK`.

Every property of a passing run is paired in `PROJECT.json` with mutants of the
code's definitions, plausible bugs, that TLC shows to violate it; a suite's
property has a mutant for most of its parts. The mutated operators stand next
to the definitions they vary and are marked `Mutant`.

### 3.2 Bounds and why they are enough

`MaxSeq`, `MaxTickets` (`TicketRecovery`) and `MaxLines` (`ServerSessions`,
`BaselineServer`) bound counters that grow without end; they appear in guards
and in nothing else. With intervals 2 and 3, four messages cross two checkpoint
boundaries, and make the first checkpoint early for a ticket when the interval
is 3. Three connections allow an abandoned request, a second abandoned one and
a live one, or a ticket race beside a late DATA packet; four tickets allow a
first ticket, a second one that outdates it, and two replacements. Three
threads on two sessions let two meet in one session while the third holds
another's lock; the third message of a session races a checkpoint. Four
messages have an early, a middle and a late close point, as the formal matrix
does. Connections and payloads (and threads and sessions) are interchangeable
in the safety runs, where symmetry is used; the liveness runs use none.

In the suites, message counts are chosen around the programs' own constants:
below, at and above the place of the attack, the interval of tickets and
checkpoints (which are scaled down with them), and the window; intervals that
do and do not divide the counts are both there. `MaxFaults`, `MaxTimeouts`,
`MaxStops`, `MaxCrashes`, `MaxInterrupts` and `MaxEdits` bound what goes wrong
in one behaviour, to one or two events: enough for a fault and a second one in
the handling of the first. The monitor takes three samples with two threads to
start (`MaxSamples`, `Samplers`), so that one given up in its sample meets its successor's,
and one reading raises (`MaxUnread`), at any of its three places. Two runners share a directory (three aggregators,
whose steps are few); a third publication runner is known to break it (3.5).
The checkpoint store pads numbers to two digits and stops at 10, within the
padding; past it `LatestIsNewest` fails, in the code at 1,000,000. The pipe of
the spawned server holds 15 lines, so that it may be full before the rows of a
behaviour are done.

### 3.3 Fairness

`ServerSessions!FairSpec` assumes weak fairness of each thread: a thread that can
run is run. `threading.Lock` promises no order among waiters, so nothing
stronger is assumed; with finitely many lines a lock stays free in the end.
Reading further lines is not fair: clients need not speak.
`RecoveryValidation!FairSpec` assumes weak fairness of the client and of each
thread, and not that any read times out, except that a read of a file object
that has timed out before does fail.
`MCExperiments!Spec` assumes weak fairness of `Work`, the steps a program is
bound to take: those of the program and of its server together, since each
program's socket, join and barrier carry a time limit, so that one of them can
always move. What the environment may do but need not (lose a datagram, break a
connection) is outside `Work`, except where
a wait ends only that way: a receive on a socket with a timeout either returns
or times out, and so does the join in the monitor's `stop`. Each program runs alone, so that weak fairness of the
disjunction is fairness of the one program; several threads inside it are only
required to go on as a whole, which is less than the scheduler gives.

### 3.4 Findings

* `replacement_ticket`: the design (`docs/superpowers/specs/2026-07-10-gmcpr-experiment-revision-design.md:140`)
  has the client save the replacement ticket of an accepted recovery;
  `run_real_recovery_experiment.py` drops it.
* `server_sessions_drivers`: the server refuses DATA and recovery requests of a
  connection that has not said HELLO; `run_real_ticket_recovery_experiment.py`,
  which `EXPERIMENT_GUIDE.md` pairs with it, never does.
* `recovery_validation_timeout`: `except (ConnectionError, OSError)` precedes
  `except socket.timeout`, its subclass, so a timeout while waiting for the
  server's close counts as having seen it, and such a run can be judged valid
  and published with `total_timeout` 0.
* `baseline_chain_recovery`: `recover_from_chain` recomputes an entry's hash
  from its payload, which `verify_data_packet` does not store; recovery across
  more than one entry fails, and so does every client that asks for it.
* `embedded_tickets`: the embedded server of the cross-host runner keeps
  `_current_ticket` on itself; with two `ticket_only` clients at once an
  acknowledgement carries the other one's ticket.

### 3.5 Further divergences

Met while modelling, each seen as a counterexample of the module named, and not
kept as a run. The models have the code's behaviour, and the properties above
are stated around it, as said here and in the modules.

* `run_real_baseline_comparison.py:316`: `expected_attack_reason` gives "seq"
  for `exact_replay` and "auth_tag" for altered payloads; no verifier's reason
  contains it (`replay or old packet detected`, `payload_hash mismatch`, `mac
  mismatch`), so `attack_reason_match` is always False there.
* `run_weak_network_simulation.py:1067`: only `--formal` refuses a dirty
  worktree; the default mode publishes to the same paper file, which its
  validator then refuses (`PublishedValidates`); `:206`: outside a repository
  `git_dirty` is `unknown`, which the program publishes and the validator
  refuses. `:429`: any
  listener on the port is taken for the server just spawned.
* `run_cross_host_validation.py:500`: a HELLO that breaks is reported as
  `connection_error`, never as `hello_error`. `aggregate_cross_host_batches.py:207`:
  a `.conflict-` artifact matches the aggregator's glob and stops it.
* `run_netem_validation.py:1209`: SIGTERM ends the script without its finally
  clauses, the rules stay. `:1079`: a second runner that finds the temporary
  file clears the interface before it refuses, and the first goes on measuring
  without impairment. `:1170`: an exception while sending is not counted, and
  the short run is published as valid.
* `real_tcp_server.py:99`: its recovery response is unsigned and
  `verify_recovery_response` refuses it, so no recovery experiment with that
  server succeeds; nor, for the lack of a HELLO, with the ticket server
  (`run_checkpoint_recovery_experiment.py:283`,
  `run_real_ticket_recovery_experiment.py`). `client.py:41`: the forged packet
  is signed with a literal that is not the server's default key, so it is
  refused for its tag and not for `prev_mem`.
* `run_real_tc_netem_experiment.py:510`: a failing `tc qdisc add` is not
  noticed and rows are recorded under a condition that was never set.
  `gmcp/experiment_stats.py:460`: the periodic save truncates the file first.
* `run_recovery_window_experiment.py:184`: the spawned server's output is never
  read and stops it once the pipe is full. `:655`: a race whose loser never
  finished counts as one with one winner.
* `generate_ticket_fixtures.py:71`: the rollback fixture is of another session
  and is refused for that. `run_real_ticket_recovery_experiment.py:297`:
  `attack_detected` is set before the ticket is presented.
* `run_experiment.py:299`: the simulated ticket of `gmcp_r` binds the last
  memory under the number of the recovery point.
* `gmcp/checkpoint_manager.py:199`: files load in the order of six-digit names.
* `run_recovery_validation.py:164`: an exception between link and unlink fails
  the run although the final file is there. `:174`: with three runners the
  final name can refer to another's unfinished file.
* `aggregate_recovery_batches.py:189`: counts are compared among the
  configurations that occur, so one may be missing where another replaces it.
* `run_concurrent_experiment.py:185`: the lock is given back between send and
  receive. `:179`: the packets name `gmcp_r`, which `GMCPVerifier` refuses.
* `run_performance_benchmark.py:381`: network mode sends no HELLO and measures
  refusals when the server is `real_baseline_server.py`.
* `run_hash_chain_adaptive_attack.py:95`: no HELLO is sent, so the repository's
  baseline server refuses every packet, the plain chain's too, and the program
  ends with 1.
* `rerun_failed_real_recovery.py:94`: the results are truncated in place; a run
  killed while it writes loses rows, the passing ones with them.
* `run_submission_revision.py:17`: its docstring lists a manifest step; the
  program has none, and `write_manifest` is called by tests only (seen by
  reading; the program is not modelled).
* `monitor_resources.py:84`: a reading that raises between two others leaves
  the lists of the process's own figures of different lengths. `:128`: a slow
  sample goes on after `stop`, and after the next `start` its thread samples
  beside the new one, so that the lists are no longer aligned.

## 4. Proofs

All proofs are checked by `tlapm`, for every value of the constants that the
named assumptions of a module allow. They establish every safety invariant,
action property and refinement that these modules' own runs check.

| Module | Theorems | Assumptions used |
|---|---|---|
| `TicketRecoveryProofs`, session | the twelve properties of run `ticket_recovery`, any payloads, connections, intervals and bounds | intervals are positive, `NoPayload` is no payload, the bounds are numbers |
| `TicketRecoveryProofs`, window | what the run `experiments` checks of `RecoveryWindow`, any checkpoint intervals and ticket interval, rows, capacity of the pipe, and failing calls | the intervals are positive, the ticket interval is above 1, the bounds are numbers; `UndisturbedRowsPass`: the server's output is read, no call fails, and the intervals fit the ticket interval (`IntervalsFit`, which `ProgramIntervalsFit` shows of the program's) |
| `ServerSessionsProofs`, server | the invariants, the action property and the refinement of the `server_sessions` runs, any sessions and connections, both lock strategies, every ticket interval, disk failures or none | the strategy is one of the two, the bound on lines is a number |
| `ServerSessionsProofs`, clients | what the run `experiments` checks of `ConcurrentClients`, any clients and messages, both lock strategies, any verifier, timeouts and faults | the strategy is one of the two, the bounds are numbers, neither the main thread nor `Nobody` is a client |
| `ServerSessionsProofs`, monitor | what the run `experiments` checks of `ResourceMonitor`, any number of starts, samples, readings that raise and joins that time out | neither the owner nor `None` is a sampling thread, the bounds are numbers |
| `BaselineServerProofs`, server | both properties of run `baseline_server`; `Agreement`, `AckedStay` and `AlteredRejected`, which the run `experiments` checks inside its suites; all five protocols, any sessions, connections and epochs | the protocols spoken are protocols; `NoConn` and `Altered` are no connections |
| `BaselineServerProofs`, comparison | what the run `experiments` checks of `BaselineComparison`, any protocols, disturbances and number of messages, with timeouts and a connection that breaks or without | the protocols and disturbances are the program's, there is a message; `MatrixHolds`: there are two |
| `RecoveryValidationProofs` | the safety properties and the refinement of run `recovery_validation`, any number of messages above 1, with timeouts or without | `MessageCount` is a number above 1 |
| `RecoveryFilesProofs`, aggregation | what the run `result_files` checks of the aggregation, any aggregators, repeats, configurations, edits and interrupts | there is a repeat, a configuration and a commit; the configurations are finitely many; each repeat's batch has a file name |
| `RecoveryFilesProofs`, publication | what the run checks of `RecoveryPublication`, any arguments and lists of protocols, points and types, any crashes and interrupts; any number of runners, and where it says so at most two of a directory | the program's numbers are positive, its lists are lists and it has two disconnect points; `None` and `Old` are no runners; the arguments have the types the parser gives them |
| `RecoveryFilesProofs`, reruns | what the run checks of `Reruns`, any number of rows, runs and attempts | there is a row and a run; `--attempts` is no negative number |
| `RecoveryFilesProofs`, checkpoints | what the run checks of `CheckpointStore`, any intervals, padding, number of messages and of crashes | intervals and padding are positive; `LatestIsNewest` and `NearestCheckpoint`: no number is longer than the padding (`NamesFit`); `RecoveryIsThisRun`: every run has the same interval |
| `NetemValidationProofs` | what the run checks of `NetemValidation`, any conditions, experiments, messages, runners, failing commands, interrupts and kills; the interface's rules for runners that do not overlap | the bounds are numbers, there is an experiment, the conditions are a list without repetition and none is called as a clean interface is |
| `CrossHostBatchesProofs` | all properties of `CrossHostBatches` that the run `result_files` checks inside its suites, any runs, batches, configurations, attempts and commits | batches and configurations are finitely many, there is a configuration, no commit is called "none", `--allow-mixed-commits` is a Boolean |

A theorem has the form `Spec => []P`, `Spec => [][A]_vars` or
`Spec => Abstract!Spec`. Each program has one inductive invariant `IInv`
(`WindowRunInv`, with `Undisturbed` for runs nothing disturbs, in
`TicketRecoveryProofs`; `PoolInv` and `MonitorInv` in `ServerSessionsProofs`;
`CompareInv` in `BaselineServerProofs`;
`PubRuns` and `PubFiles`, `RerunInv`, `StoreInv` with `OrderInv` and
`OneInterval` in `RecoveryFilesProofs`); its proof shows `Init => IInv` and
`IInv /\ [Next]_vars => IInv'` with one lemma per action or shape of action,
concludes `Invariance`, and derives the properties. Before it was proved, each
`IInv` was checked by TLC on the instances of the module's runs.

### 4.1 TicketRecovery

The properties are not inductive as they stand: whether a response agrees with
the client depends on what requests were on the way when it was made. The
inductive invariant `IInv` has two halves.

* `ServerInv`: length and history agree, checkpoints and tickets lie on the
  history, every issued ticket's checkpoint is still stored. Every action fits
  one of the shapes of `ServerStep` (`StepsFit`), and the server half is proved
  once for those shapes.
* `ClientInv`: a DATA packet on the way was built on a beginning of the history
  and has at most the client's next number; the one the client waits for was
  built on what it still believes; requests presented together carry one
  ticket; once one of them was accepted or refused, none can be accepted.

The argument for the client half: the server's history only grows
(`ServerMonotone`), and what makes a ticket invalid is permanent (the floor
rises, nonces are only added, expiry does not end). A late packet is accepted
only if its number is the next one; since it was built on a beginning of the
history of that length, it was built on the history. There is one lemma per
action, `IInvStep` collects them, and `RecoveryWindowBounded` has an induction
of its own with arithmetic about remainders (`RemainderCountsUp`). The refinement
maps `log` to `last_mem` and `view` to `client_mem`.

### 4.2 ServerSessions

A thread relies on what it checked earlier: that the session was not in the
registry when it creates the context, that the memory still is the one its
message extends, that the nonce is unused when it consumes it. `Thread(c)`
says, for each place a thread can be at, what it may rely on there, and that
the locks it holds are those the place needs (`Needed`); `LocksDisjoint` says
that no two threads hold the same lock. `Registered` makes sessions and
contexts correspond one to one, without which exclusion per context would not
be exclusion per session.

That a step of one thread leaves the others what they rely on is proved once,
for the shape all steps have (`SharedGrows`): histories and the tickets issued
only grow, nonces only become used; a context changes, and a nonce of its
session becomes used, only under the context's lock; the registry changes only
under its own. This is where `ValidatedStaysUnused` comes from: the store is
unlocked between validation and consumption, but only a thread in the same
critical section could take a nonce of this session.

The refinement of `AtomicSessions` maps a session to the history of its
registered context. `Accept` and `Consume` are its two atomic steps, and every
other step of a thread, dying of a disk error included, stutters.

### 4.3 BaselineServer

The first lemmas unfold the verifiers: the verdict is `"ok"` only if
*every* comparison of the protocol holds, in whatever order they are made; and
what the two assignments of an update do to number, hash and chain. On that
rests `Sound(k)`: the number, the hash, the chain and the counters of a
context are those of the history it stands for, up to one entry while its owner
is between the two assignments (`Complete`). Only the owner of a context's lock
changes it (`Owned`, `ServerStep`), and an answer is composed from a context
nobody is updating. The answer's *list of entries* is read again after the lock was
released; it still covers what was read under it because chains only grow
(`Covers`, `Grows`). `AlteredRejected` needs that a changed payload shows in
the tag of every protocol whose tag covers it (`GoodPacket`).

### 4.4 RecoveryValidation

Here the difficulty is the client that gives up: the server may then still
have lines, answers and a close to work off, next to the second connection.
The invariant separates what holds whatever timed out from what holds as long
as nothing did.

* Always: `Books` (the accepted numbers are `1..last_seq`, the memory is that
  of these numbers, totals and duplicates are the sums they should be),
  `Closing` (a close comes after the message number `point` and is noted
  before the connection is closed, where the client is still there), `Place`
  (where the client is and which connections are open), `View` (the client's
  memory is an earlier one of the server's).
* On a connection none of whose reads timed out, `LockStep`: nothing is under way
  unless the client waits, and then it is exactly one of the request it waits for an
  answer to, the thread working on it, or an answer that fits it (`Fits`).
* In a run that is `Clean` (no read of a phase or of a message failed),
  `Progress` and `RunSoFar`: the number of messages done determines everything
  that client and server count.

A run that is judged valid is clean, so its end is determined (`CleanEnd`),
from which `ValidSound` and `Gate` follow. A run without timeouts is clean, and
its server's close was noted before it could be seen, so that `FalseAlarm`
holds. Between them lie the runs in which only the wait for the close timed
out (3.4): `Closing` and `Snapshot` are stated to hold there too, and leave
open whether the server had closed by then.

That received numbers add up is a statement about `FoldFunction` over a
set. `CollectionLemmas` proves what is needed of it (`SumRecursion`, `SumOneMore`,
`SumOfOnes`...) by taking a smallest subset of a finite set that violates the
claim (`MinimalSubset`): the library's well-foundedness of strict subsets
stands in for an induction theorem, which would take an operator as a
parameter.

### 4.5 RecoveryAggregate

That no reader finds half an aggregate is about the names: until there is an
output, the temporary name is that of the aggregator that writes or links it
(`TmpIsOwned`), because it is only taken away by one that has published
(`UnlinkedIsPublished`); an aggregator that was interrupted leaves it, and
nobody gets past it. `TmpIsOwned` is false once there is an output: a second
aggregator may then open the name, and the first one unlink it. Its link fails
all the same.

That an aggregate is uniform is about the data: `validate_all` counts the
files, the rows of a file and the rows of a configuration, and the theorem
concludes to the rows of a repeat. The numbers in the names are as many as the
repeats and take every value, so no two files share one (`NumbersDiffer`); and
concatenation adds the rows of each file to those of its own repeat only
(`OneMoreBatch`, `BatchesMerge`). `FlattenSeq` is a recursive function, which
first has to be shown to exist (`FlatExists`); these are inductions over a
number, done by looking at the least one that fails (`LeastNumber`).

### 4.6 CrossHostBatches

A run looks for the output, the temporary file and a failed artifact long
before it writes, links or renames, and other runs of the batch may be anywhere
meanwhile. What makes the late steps safe is not those checks but `open("x")`:
of the runs of one batch at most one is past it (`OneHolder`), because a run
that finds the file ends, and the operator moves the file away only when no run
of the batch is left. So nobody else can make the output or the failed artifact
that the holder has found missing, and the files it has seen are the files it
acts on (`RunInv`).

A temporary file has an author, dead or alive, whose rows it holds, one of each
configuration that is not left to do, and whose journal lacks at most the last
row's event (`TmpAuthored`, `Author`); a published batch has one that came to
its end with all of them valid (`OutPublished`, `Whole`). A kill changes
neither (`AuthorStays`).

The aggregate is about counting: a batch without errors has as many rows as
configurations and no other ones, so each has one row (`OneRowEach`); rows,
batches and configurations then correspond one to one (`RowsAreKeys`), and the
comparison of the two sets of commits, of which one has a single element, is
what puts one commit at both ends even where `--allow-mixed-commits` let the
batches pass. `AggregateValidates` concludes from there to the second program's
checks (`ReadIsUniform`).

### 4.7 NetemValidation

Two runners share an interface and a directory. For the files, `open("x")`
settles it again: at most one runner may still write, link or unlink the
temporary file (`Holds`, `OneHolder`), since one that raises or is killed never
touches it again and leaves it in the way of all others. The holder's rows are
its own, one of each experiment that it has done, in their order (`Done`,
`RowsBy`), and the counters of a row add up wherever an exception or an
interrupt has cut the experiment short (`Counted`). What is published is
therefore one runner's, whole and an artifact (`FinalWhole`), whatever runners
overlap; rows leave the temporary file only for the final one or by the
operator's hand, and the final one is not replaced.

The interface has no such guard: each runner sets and removes its rules without
asking. `InterfaceLeftClean` is therefore about runners one after the other
(`Overlap` is FALSE): wherever a runner raises, fails or is interrupted, it
leaves the interface clean or reports that it could not (`LeavesClean`). With
overlap an earlier runner may set rules after the last one started has ended
(3.5), and nothing is claimed.

### 4.8 RecoveryPublication

For any number of runners: no server outlives its program; a run whose
arguments were accepted and whose rows are valid passes the gate
(`AcceptedRunsPublish`); and a final name is never given to another file
(`FinalNamesStay`), since only `os.link` makes one. The program goes through its
matrix in four nested loops and the gate compares a count and a set; that the
two agree is a statement about `n -> (protocol, point, type, repeat)`, which is
proved by division with remainder (`FourLoops`, `LoopsStay`, `LoopsReach` and
`LoopsDiffer` in `CollectionLemmas`; `LoopsCoverMatrix`). It needs the check
that no list names an element twice (`UniqueList`).

What the files hold is proved for *two* runners of a directory, and is false
for three (3.5): A, whose own open failed, renames the file B has written, C opens
the name anew, and B links C's unfinished file. With two, `Owned` says why this cannot
be: while a runner is between its open and its link, the temporary name is its
own, or it is free and the other runner has ended (`Gone`, `Alone`) and opens
nothing any more. So what a runner links is its own (`Whole`), a published file
is complete and nobody writes to it (`Closed`), and rows once written have a
name (`Kept`); the failed artifact that was found missing is still missing when
the rename makes it (the second half of `Owned`).

### 4.9 Reruns

The program reads the file, makes each failed row again and writes the file in
place, so every kill while it writes may lose rows (3.5). What is left is still
in place: row `i` is of case `i`, and a row that the experiment passed is the
experiment's own (`RowsInPlace`). In a file that was written to its end, a
failed row was tried until it passed or as often as `--attempts` allows
(`Tried`). Only the step that opens the file for writing loses rows.

### 4.10 CheckpointStore

A crash may come between opening a checkpoint's file and filling it, and the
process that starts again takes what it finds. `StoreInv` says that a readable
file holds a memory that some run had at that number, of this run only as far as
it has come (`MadeBy`, `FilesMade`), that the checkpoints of this run are in
their files except the one being written (`OwnSaved`, `Writes`), and that each
crash leaves at most one file unreadable (`FewUnreadable`). `Durable` and
`LoadedIsWhole` follow for any padding and any intervals, which may differ from
run to run.

Which checkpoint a loaded session calls its newest, and which one a recovery
starts from, depends on the order of the names. `Digits` is a recursive function,
so its values are obtained by the argument of the least number (`DigitsExist`,
`DigitsAgree`, `DigitsUnfold`); from there two numbers have two names and
the order of the names is total (`NamesDiffer`, `NamesAreOrdered`), and it is
that of the numbers while these fit the padding (`NamesAscend`; six digits in the
code, and 3.2 says what happens past them). Hence a run's checkpoints ascend in the
list (`RunsAscend`), which `NearestCheckpoint` and `LatestIsNewest` need.

`RecoveryIsThisRun` is about a list in which loaded checkpoints of earlier runs,
perhaps with greater numbers, stand before those of this run. With one interval
`k` this run's first checkpoint is that of message `k`, everything behind it is of this
run, and a target for which there is a checkpoint at all is at least `k` (`OneInterval`):
the search from the list's end stops there at the latest. With two intervals the
claim is false, and the assumption cannot be dropped.

### 4.11 RecoveryWindow

`WindowRunInv` has a part for each place of the program: `InData`, `InRecover`,
`InResubmit`, `InRace`, `InJudge`. Each says what the connections may hold there
(no answer, an answer, a thread stuck on the full pipe), what the row already
says, and how both stand to the session's checkpoints (`RowCheckpoints`) and to
whether the nonce is used. In the race at most one of the two connections holds a
success (`InRace`), and a result once taken agrees with its connection
(`Racing`), so there is one winner whatever fails. The first four theorems need
no more, and hold with failing calls and a stuck server.

That rows *pass* is arithmetic as well (`WindowFits`): the tickets the scenarios
call within the window must not be below the floor, and the other one must be. The
floor is a multiple of the checkpoint interval or the first checkpoint a ticket
needed (`FloorIsLast`, `RowCheckpoints`), so no multiple of the interval may lie
between the ticket's number and the end of the lost acknowledgements, and one
must lie before twice the ticket interval. `ProgramIntervalsFit` shows this of
50, 100 and 200 with the program's ticket interval of 100; an interval of 25, say, would
make the scenario `ack_loss` fail. With `Undisturbed`, which says
that a used nonce has its granted connection and that the workers' calls were
answered, `UndisturbedRowsPass` follows.

### 4.12 ConcurrentClients

The clients share the barrier, the locks and the sets of results; all else is
one client's and its session's. `ClientInv(c)` is therefore about `c` alone, and
a step of another client keeps it because it leaves everything of `c` as it is
(`OthersStay`). It has three parts. `CountsUp`: the counts say how many messages
are done, in whatever way each of them ended. `Continues`: the memory the client
continues from is one its session had, and it has been told of no more messages
than the session took. `InFlight`: while the file object can be read, the
connection holds at most the packet sent last or the answer to it. A receive that
times out makes the object unreadable for good, so the late answer stays where it
is; that is what `AnswersAreOwn` rests on, and it would be false of a client that
reads on after a timeout. `Locks` says who holds which lock, for both
strategies at once: a lock with a holder is one that a sending or receiving
client needs, and with the global lock that is one client of all.

### 4.13 ResourceMonitor

`start` asks whether `_running` is set, and not whether a thread runs, and the join
in `stop` comes back after three intervals whether the thread has ended or not. So
several threads may sample at once. What holds of all of them is `Owned`: one
that is in its loop or in a sample is the one `_thread` names, or a join gave
it up (`abandoned`); the owner samples only when `_thread` names none.
From this `NeverTwoSamplers` follows.

`SummaryIsAligned` has two parts. That every list has each sample once (`Entries`)
holds for any number of threads at work: a list has exactly the samples
begun whose thread has passed the place of its append, and two threads never
work on one sample. A reading that raises takes the same place on, with an entry more in
the lists it has passed, which is what the exception for `unread` says. That the
lists are *aligned* cannot hold with two threads, which may append in either
order; while no join was given up at most one sample is under way, and
the lists differ by what it has not appended yet (`Aligned`). The condition is on the
state reached, not on the program: the theorem covers the behaviours in which
a join times out, up to that point for `Aligned` and without end for the rest.

### 4.14 BaselineComparison

What a row must satisfy is only claimed of valid ones, so `CompareInv` says
little of a run in which something went wrong (`Books` counts its packets,
`Behind` keeps client and counters behind the server) and everything of one in
which nothing did: `Clean => InStep`. In step means that one packet is under way
or its answer is, and that each agrees with the client's state (`Pending`, `Answered`);
how far the run is then determines the counters, the server's history and every
flag of the attack (`RowSoFar`, `HistorySoFar`, `Flags`). A run leaves the clean state
for good: a timeout makes the file object unreadable and a broken connection cannot
be sent on, so no later answer can be taken (`ReceivedInStep`).

The verifiers' part is proved for each protocol and disturbance. The message
of a client in step passes every comparison (`CleanIsTaken`). The disturbed packet fails
one (`DisturbedIsRefused`): its tag does not cover the altered payload, its number is
not the next, its hash is not the last, or session or epoch are others; only
`ticket_only`, whose tag covers no payload, takes an altered one. Conversely
whatever is taken is the next packet, so a refusal leaves no trace (`TakenIsNext`).

`MatrixHolds` needs two messages: the disturbance takes the place of the second at the
earliest (`attack_seq = max(2, ...)`), so an experiment with a single message injects
nothing and its row is valid all the same. The program's message counts are 100 and above.

## 5. What is only model-checked, and what is not modelled

Only model-checked:

* All liveness (`EveryLineAnswered`, `RunEnds`, `RunsEnd`): TLAPS does not do
  ENABLED, which fairness needs.
* The invariants and action properties of the suites `MCExperiments` and
  `MCResultFiles`: they are about the instances of some 37 programs at once,
  whose constants are fixed there. Of their parts, those of `baseline`
  and `comparison` are theorems of `BaselineServerProofs`; those of `window`, `window_faults` and
  `window_spawned` of `TicketRecoveryProofs`; those of `aggregate`, `aggregate_race`,
  `publication`, `publication_args`, `rerun`, `store` and `store_reused` of
  `RecoveryFilesProofs`; those of `concurrent`, `concurrent_global` and `monitor`
  of `ServerSessionsProofs`; those
  of `batches` and `batches_mixed` of `CrossHostBatchesProofs`; those of `netem`
  and `netem_overlap` of `NetemValidationProofs`. What remains is the experiment
  programs: one or two processes with a bounded script, which TLC covers.

Not modelled, and why:

* HMAC and hash computation: cryptography is taken as perfect. Where packets
  are altered (`BaselineProtocols`, `Tickets`, the attack experiments) a
  signature is a bit that says whether it fits.
* Times, rates, statistics, provenance (git, CPU) and the text of rows: no
  property depends on them. `gmcp/experiment_stats.py`,
  `gmcp/statistical_analysis.py`, the manifests and the validators of finished
  artifacts are pure functions over floating-point data, out of TLC's reach
  (`save_results_to_csv` is in `TcNetem`; the checks of the netem, weak network
  and cross-host artifacts are in `NetemValidation`, `WeakNetworkSimulation` and
  `CrossHostBatches`, without their latency figures).
* `run_weak_network_experiment.py` computes rows from formulas and random
  noise.
* `gmcp/recovery.py` and `gmcp/checkpoint.py` format packets and keep no state.
* A restart of the ticket server: the code has no path that reads its state
  back. `CheckpointStore` models what the checkpoint manager would do.
* Plots, reports, the paper: layout.

## 6. Plan

1. *Done:* the models and runs; the proofs of `TicketRecovery`,
   `ServerSessions`, `BaselineServer`, `RecoveryValidation`,
   `RecoveryAggregate`, `CrossHostBatches`, `NetemValidation`,
   `RecoveryPublication`, `Reruns`, `CheckpointStore`, `RecoveryWindow`,
   `ConcurrentClients`, `ResourceMonitor` and `BaselineComparison`.
2. Start, stop and the accept loop of the embedded server with its time limit.
