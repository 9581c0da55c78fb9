----------------------- MODULE WeakNetworkSimulation -----------------------
(***************************************************************************)
(* run_weak_network_simulation.py from its start to the publication of its *)
(* results.  It starts a baseline server, makes a smoke run of every       *)
(* protocol and then the runs of the experiment, one after the other; in a *)
(* run every message is tried up to MaxRetries times more when a simulated *)
(* loss keeps it from being sent.  Rows that pass validate_result are      *)
(* published when none is missing.                                         *)
(*                                                                         *)
(* A session identifier depends only on the run's parameters: it is the    *)
(* same in another execution with the same seed.  Another server may be    *)
(* listening on the port already, with the sessions of such an execution.  *)
(*                                                                         *)
(* One attempt is one step, in which the server accepts or refuses the     *)
(* packet, or the client does not learn which.                             *)
(***************************************************************************)
EXTENDS BaselineProtocols, FiniteSets

CONSTANTS
  Simulated,     \* PROTOCOLS
  Repeats,       \* args.repeats
  MessageCount,  \* args.message_count; the smoke runs use the same
  MaxRetries,    \* args.max_retries
  LossRates,     \* of the runs: "none" or "some", for the drop schedules
  MayTimeOut,    \* may an answer time out?
  MayBreak       \* may the connection break or the server not start?

\* Of the constants; MC modules state them (ASSUME) for their instances.
SimulatedAssumption == Simulated \subseteq Protocols
CountsAssumption ==
  Repeats \in Nat \ {0} /\ MessageCount \in Nat \ {0} /\ MaxRetries \in Nat
FaultsAssumption == MayTimeOut \in BOOLEAN /\ MayBreak \in BOOLEAN

CLIENT_ID == "client"
EPOCH == 1

\* A run is a point of the matrix; repeat_id 0 is the smoke run.
Runs == Simulated \X LossRates \X (1..Repeats)
SmokeRuns == Simulated \X {"none"} \X {0}
Fresh(r) == InitialState(r, CLIENT_ID, EPOCH)
Payload(n) == <<"message", n>>

VARIABLES
  (* The command line and its surroundings. *)
  mode, dirty, allow_dirty, spawn,
  stale,     \* the sessions of a server that was listening before, or NoServer
  (* The servers. *)
  listening, \* who answers on the port: "nobody", "stale" or "own"
  proc,      \* baseline_proc: "none", "running" or "dead"
  server,    \* the session states of the server that answers
  (* main *)
  pc, todo, rows, failed, tmp, published,
  (* run_one_experiment *)
  r, seq, attempt, state, counts, dead

program  == <<mode, dirty, allow_dirty, spawn, stale>>
process  == <<listening, proc>>
main     == <<todo, rows, failed, tmp, published>>
one      == <<r, seq, attempt, state, counts, dead>>
vars     == <<program, process, server, pc, main, one>>

NoServer == [none |-> TRUE]
NoRun == <<"none", "none", 1>>

Counts == [logical |-> 0, attempts |-> 0, sent |-> 0, accepted |-> 0,
           unrecovered |-> 0, drops |-> 0, rejected |-> 0, timeouts |-> 0,
           retries |-> 0]

AllRuns == Runs \union SmokeRuns
NewSessions == [x \in AllRuns |-> Fresh(x)]
\* The sessions of a server that served the same runs before.
UsedSessions == [x \in AllRuns |-> [Fresh(x) EXCEPT
                   !.last_seq = MessageCount,
                   !.last = IF x[1] \in Linked
                            THEN <<x>> \o [n \in 1..MessageCount |-> Payload(n)]
                            ELSE <<x>>]]

Init ==
  /\ mode \in {"smoke", "formal", "default"}
  \* As git_dirty has it: "unknown" outside a repository.
  /\ dirty \in {"false", "true", "unknown"} /\ allow_dirty \in BOOLEAN /\ spawn \in BOOLEAN
  /\ stale \in {NoServer, NewSessions, UsedSessions}
  /\ listening = IF stale = NoServer THEN "nobody" ELSE "stale"
  /\ proc = "none"
  /\ server = IF stale = NoServer THEN NewSessions ELSE stale
  /\ pc = "start" /\ todo = {} /\ rows = {} /\ failed = 0
  /\ tmp = "absent" /\ published = {}
  /\ r = NoRun /\ seq = 0 /\ attempt = 0 /\ state = Fresh(NoRun)
  /\ counts = Counts /\ dead = FALSE

-----------------------------------------------------------------------------
(* main *)

\* main returns: the finally clause terminates the server it started.
Exit ==
  /\ pc' = "done"
  /\ IF proc = "none" THEN UNCHANGED <<listening, proc>>
     ELSE /\ proc' = "dead"
          /\ listening' = IF listening = "own" THEN "nobody" ELSE listening

\* check_git_dirty comes before everything; the server is started or not.
Start ==
  /\ pc = "start"
  /\ IF dirty = "true" /\ ~allow_dirty
     THEN Exit
     ELSE IF spawn THEN pc' = "spawn" /\ UNCHANGED process
                   ELSE pc' = "smoke" /\ UNCHANGED process
  /\ UNCHANGED <<program, server, main, one>>

\* Mutant: the server's process is not terminated when it does not answer.
NotReadyLeft == /\ MayBreak /\ listening = "nobody"
                /\ pc' = "done"
                /\ proc' = "running"
                /\ UNCHANGED listening

\* The process does not answer in time: it is terminated, and the exception
\* ends the program.
NotReady == /\ MayBreak /\ listening = "nobody"
            /\ pc' = "done"
            /\ proc' = "dead"
            /\ UNCHANGED listening

\* spawn_server: whoever answers on the port makes the server ready.  When the
\* port was taken, the new process has failed to bind it and is gone.
Spawn ==
  /\ pc = "spawn"
  /\ \/ /\ listening = "nobody"
        /\ listening' = "own" /\ proc' = "running" /\ pc' = "smoke"
     \/ /\ listening = "stale"
        /\ proc' = "dead" /\ pc' = "smoke"
        /\ UNCHANGED listening
     \/ NotReady
  /\ UNCHANGED <<program, server, main, one>>

\* run_smoke_test, except that --formal with --allow-dirty is refused first.
StartSmoke ==
  /\ pc = "smoke"
  /\ IF mode = "formal" /\ allow_dirty
     THEN Exit /\ UNCHANGED todo
     ELSE todo' = SmokeRuns /\ pc' = "next" /\ UNCHANGED process
  /\ UNCHANGED <<program, server, rows, failed, tmp, published, one>>

Smoking == r \in SmokeRuns

-----------------------------------------------------------------------------
(* run_one_experiment *)

\* open_tcp, send_hello and the state the run starts from.
StartRun ==
  /\ pc = "next" /\ todo # {}
  /\ r' = CHOOSE x \in todo : TRUE
  /\ todo' = todo \ {r'}
  /\ state' = Fresh(r')
  /\ counts' = Counts
  /\ dead' = FALSE /\ seq' = 0 /\ attempt' = 0
  /\ \/ listening # "nobody" /\ pc' = "message"
     \/ (listening = "nobody" \/ MayBreak) /\ pc' = "raised"
  /\ UNCHANGED <<program, process, server, rows, failed, tmp, published>>

NextMessage ==
  /\ pc = "message" /\ seq < MessageCount
  /\ seq' = seq + 1 /\ attempt' = 0
  /\ counts' = [counts EXCEPT !.logical = @ + 1]
  /\ pc' = "attempt"
  /\ UNCHANGED <<program, process, server, main, r, state, dead>>

Packet == Build(r[1], r, CLIENT_ID, EPOCH, seq, state.last, Payload(seq))

\* Mutant: the message counts as sent when it is dropped.
TriedAll(dropped) ==
  [counts EXCEPT !.attempts = @ + 1,
                 !.retries = IF attempt > 0 THEN @ + 1 ELSE @,
                 !.drops = IF dropped THEN @ + 1 ELSE @,
                 !.sent = @ + 1]

\* What an attempt counts, whatever comes of it.
Tried(dropped) ==
  [counts EXCEPT !.attempts = @ + 1,
                 !.retries = IF attempt > 0 THEN @ + 1 ELSE @,
                 !.drops = IF dropped THEN @ + 1 ELSE @,
                 !.sent = IF dropped THEN @ ELSE @ + 1]

\* Where an attempt that was not accepted leads.
NotAccepted(counted) ==
  IF attempt < MaxRetries
  THEN pc' = "attempt" /\ attempt' = attempt + 1 /\ counts' = counted
  ELSE /\ pc' = "message"
       /\ counts' = [counted EXCEPT !.unrecovered = @ + 1]
       /\ UNCHANGED attempt

\* should_drop: sendall is not called.
Drop ==
  /\ pc = "attempt" /\ r[2] = "some"
  /\ NotAccepted(Tried(TRUE))
  /\ UNCHANGED <<program, process, server, main, r, seq, state, dead>>

Verdicts == Verdict(r[1], server[r], Packet)

\* update_state_after_accept.
Updated ==
  CASE r[1] = "gmcp" -> [state EXCEPT !.last_seq = server'[r].last_seq,
                                      !.last = server'[r].last]
    [] r[1] \in Chained -> [state EXCEPT !.last_seq = seq,
                              !.last = Link(Packet.prev, Packet.payload)]
    [] OTHER -> [state EXCEPT !.last_seq = seq]

Attempt ==
  /\ pc = "attempt" /\ ~dead
  /\ IF Verdicts = "ok"
     THEN /\ server' = [server EXCEPT ![r] = Verified(r[1], @, Packet)]
          /\ state' = Updated
          /\ counts' = [Tried(FALSE) EXCEPT !.accepted = @ + 1]
          /\ pc' = "message"
          /\ UNCHANGED attempt
     ELSE /\ NotAccepted([Tried(FALSE) EXCEPT !.rejected = @ + 1])
          /\ UNCHANGED <<server, state>>
  /\ UNCHANGED <<program, process, main, r, seq, dead>>

\* The packet reached the server, or did not.
Reached == IF Verdicts = "ok"
           THEN server' \in {server, [server EXCEPT ![r] = Verified(r[1], @, Packet)]}
           ELSE UNCHANGED server

AttemptTimesOut ==
  /\ MayTimeOut /\ pc = "attempt" /\ ~dead
  /\ Reached
  /\ NotAccepted([Tried(FALSE) EXCEPT !.timeouts = @ + 1])
  /\ dead' = TRUE
  /\ UNCHANGED <<program, process, main, r, seq, state>>

\* ConnectionError is raised on; so is the OSError of reading from a file object
\* that has timed out, which is neither of the errors the clauses name.
AttemptRaises ==
  /\ pc = "attempt" /\ (dead \/ MayBreak)
  /\ Reached
  /\ pc' = "raised"
  /\ UNCHANGED <<program, process, main, one>>

\* get_protocol_audit.  The server's word is its last accepted response, which
\* is its state unless an answer timed out.
Audited(run, client) ==
  /\ client.last_seq = server[run].last_seq
  /\ run[1] \in Linked => client.last = server[run].last

\* Mutant: a run in which an attempt was repeated is not valid.
RunValidNoRetry(run, c, client) == c.accepted = c.attempts

\* run_valid.
RunValid(run, c, client) ==
  /\ c.accepted = c.logical /\ c.unrecovered = 0
  /\ c.rejected = 0 /\ c.timeouts = 0
  /\ Audited(run, client)

\* Mutant: messages that were given up do not count.
RowValidUnrecovered(c) ==
  /\ c.accepted + c.unrecovered = c.logical
  /\ c.rejected = 0 /\ c.timeouts = 0

\* validate_result.
RowValid(c) ==
  /\ c.accepted + c.unrecovered = c.logical
  /\ c.unrecovered = 0 /\ c.rejected = 0 /\ c.timeouts = 0

-----------------------------------------------------------------------------
(* The end of a run, in main *)

RunOver == pc = "message" /\ seq = MessageCount

\* The columns of a row that anything reads again; the worktree's state is
\* collected once, at the start.
Row == [run |-> r, valid |-> RunValid(r, counts, state),
        complete |-> counts.accepted = counts.logical,
        dropped |-> counts.drops > 0, git_dirty |-> dirty]

\* A smoke run that fails leaves failed set; the others still run.
EndRun ==
  /\ RunOver \/ pc = "raised"
  /\ IF RunOver /\ RowValid(counts)
     THEN /\ rows' = IF Smoking THEN rows ELSE rows \union {Row}
          /\ UNCHANGED failed
     ELSE failed' = failed + 1 /\ UNCHANGED rows
  /\ pc' = "next"
  /\ UNCHANGED <<program, process, server, todo, tmp, published, one>>

\* Mutant: the smoke test fails when none of its runs passes.
SmokeFailedAll == failed = Cardinality(SmokeRuns)

\* all_passed is cleared by the first run that does not pass.
SmokeFailed == failed > 0

\* The smoke runs are over.
EndSmoke ==
  /\ pc = "next" /\ todo = {} /\ Smoking
  /\ IF SmokeFailed \/ mode = "smoke"
     THEN Exit /\ UNCHANGED <<todo, r, failed>>
     ELSE /\ todo' = Runs /\ r' = NoRun /\ failed' = 0
          /\ UNCHANGED <<pc, process>>
  /\ UNCHANGED <<program, server, rows, tmp, published,
                 seq, attempt, state, counts, dead>>

-----------------------------------------------------------------------------
(* atomic_publish *)

\* Mutant: the number of rows is not compared with the matrix.
PublishableSome == \A row \in rows : row.valid

Publishable ==
  /\ \A row \in rows : row.valid
  /\ Cardinality(rows) = Cardinality(Runs)

\* The temporary file, whose rows are counted; a write that fails raises.
WriteTmp ==
  /\ pc = "next" /\ todo = {} /\ ~Smoking /\ tmp = "absent"
  /\ IF Publishable
     THEN \/ tmp' = "complete" /\ UNCHANGED <<pc, process>>
          \/ MayBreak /\ tmp' = "partial" /\ Exit
     ELSE Exit /\ UNCHANGED tmp
  /\ UNCHANGED <<program, server, todo, rows, failed, published, one>>

\* os.replace.
Publish ==
  /\ pc = "next" /\ tmp = "complete"
  /\ published' = rows
  /\ tmp' = "absent"
  /\ Exit
  /\ UNCHANGED <<program, server, todo, rows, failed, one>>

-----------------------------------------------------------------------------
(* validate_weak_network_artifact.py, of the published rows *)

Control(row) == row.run[2] = "none"

\* Mutant: a row of a lossy link must have lost something by itself.
DropsSeenEach(file) == \A row \in file : Control(row) \/ row.dropped

\* The repeats of a configuration with losses, taken together, lost something.
DropsSeen(file) ==
  \A row \in file : Control(row) \/
    \E other \in file : /\ other.run[1] = row.run[1] /\ other.run[2] = row.run[2]
                        /\ other.dropped

\* validate.  Delays are left out of the matrix: a delay is only waited for.
Validated(file) ==
  /\ Cardinality(file) = Cardinality(Runs)
  /\ Runs \subseteq {row.run : row \in file}
  /\ \A row \in file : Control(row) => row.complete
  /\ DropsSeen(file)
  /\ \A row \in file : row.git_dirty = "false" /\ row.valid

-----------------------------------------------------------------------------

Done == pc = "done" /\ UNCHANGED vars

Work ==
  \/ Start \/ Spawn \/ StartSmoke \/ StartRun \/ NextMessage \/ Drop \/ Attempt
  \/ AttemptTimesOut \/ AttemptRaises \/ EndRun \/ EndSmoke \/ WriteTmp \/ Publish

Next == Work \/ Done

Spec == Init /\ [][Next]_vars

-----------------------------------------------------------------------------
(* Properties *)

\* TypeOK: the program's variables stay in their domains; a file is complete
\* or partial only between its writing and the replacement.
TypeOK ==
  /\ pc \in {"start", "spawn", "smoke", "next", "message", "attempt", "raised",
              "done"}
  /\ listening \in {"nobody", "stale", "own"}
  /\ proc \in {"none", "running", "dead"}
  /\ todo \subseteq AllRuns /\ r \in AllRuns \union {NoRun}
  /\ seq \in 0..MessageCount /\ attempt \in 0..MaxRetries
  /\ counts \in [DOMAIN Counts -> Nat] /\ dead \in BOOLEAN
  /\ tmp \in {"absent", "partial", "complete"}
  /\ {row.run : row \in rows} \subseteq Runs /\ published \subseteq rows

\* AccountsBalance: the counters of a run agree with each other whatever
\* happened in it: every attempt was dropped or sent, every packet sent was
\* accepted, refused or timed out, every attempt but a message's first is a
\* retry, and when the run is over every message is accepted or given up.
AccountsBalance ==
  /\ counts.attempts = counts.drops + counts.sent
  /\ counts.sent = counts.accepted + counts.rejected + counts.timeouts
  /\ pc = "message" => /\ counts.retries = counts.attempts - counts.logical
                       /\ counts.accepted + counts.unrecovered = counts.logical

WholeHistory(x) == <<x>> \o [n \in 1..MessageCount |-> Payload(n)]

\* RowsAreWholeHistories: a run whose row is kept has put each of its messages
\* into the server's history once, in order, in spite of drops and retries.
RowsAreWholeHistories ==
  \A row \in rows :
    /\ server[row.run].last_seq = MessageCount
    /\ row.run[1] \in Linked => server[row.run].last = WholeHistory(row.run)

\* GateAgrees: validate_result, which lets a row in, implies the run_valid that
\* atomic_publish asks for: the audit of the two ends never fails a run whose
\* counters are clean.
GateAgrees == \A row \in rows : row.valid

\* SmokeComesFirst: the runs of the experiment start after a smoke run of every
\* protocol put all its messages into the server's history.
SmokeComesFirst ==
  r \in Runs => \A x \in SmokeRuns : server[x].last_seq = MessageCount

\* PublishedIsComplete: what replaces the paper's data has a valid row of every
\* run; a run that failed, or a file written in part, never gets there.
PublishedIsComplete ==
  published # {} => /\ {row.run : row \in published} = Runs
                    /\ \A row \in published : row.valid
                    /\ failed = 0

\* PublishedValidates: what the program publishes passes the artifact's own
\* validation, as long as the worktree was clean and one repeat of each lossy
\* configuration happened to lose a packet; a published dirty run, which the
\* default mode lets through, is caught there.
PublishedValidates ==
  published # {} =>
    (Validated(published) <=>
       /\ dirty = "false"
       /\ \A p \in Simulated, l \in LossRates \ {"none"} :
            \E n \in 1..Repeats, row \in published :
              row.run = <<p, l, n>> /\ row.dropped)

\* ServerNotLeft: the program ends, and the server process it started does not
\* outlive it, however the runs went.
Over == pc = "done" /\ proc # "running"

=============================================================================
