------------------------------ MODULE TcNetem ------------------------------
(***************************************************************************)
(* The two tc runners: run_real_tc_netem_experiment.py (Guarded) and       *)
(* run_tc_netem_experiment.py.  For each network condition they put a      *)
(* netem qdisc on the interface with tc, run the experiments of the        *)
(* condition, each on a TCP connection of its own, and collect the rows in *)
(* an ExperimentTracker, which writes them to a csv file.                  *)
(*                                                                         *)
(* The guarded runner sets the condition in a context manager, asks tc     *)
(* whether it can show the rules, saves every SaveEvery experiments, and   *)
(* clears the interface in two finally clauses and a signal handler.  The  *)
(* other one looks at the result of the setup, saves once at the end and   *)
(* clears before each setup and at the end.                                *)
(*                                                                         *)
(* A tc command may fail, which changes nothing; adding a qdisc to an      *)
(* interface that still has one fails too.  Each experiment waits for the  *)
(* answer to a packet before it sends the next one, and it goes on after a *)
(* timeout: its file object then refuses every further read.               *)
(***************************************************************************)
EXTENDS PlainServer

CONSTANTS
  Guarded,           \* TRUE: run_real_tc_netem_experiment.py
  NumConditions,     \* LOSS_RATES x DELAY_MS x REORDER_RATES without all zero
  Repeats,           \* experiments per condition
  MessageCount,      \* messages per experiment
  SaveEvery,         \* the 10 of completed % 10
  MaxFaults          \* bound: tc commands that fail

\* Of the constants; MC modules state them (ASSUME) for their instances.
ParametersAssumption ==
  /\ Guarded \in BOOLEAN
  /\ {NumConditions, Repeats, MessageCount, SaveEvery} \subseteq Nat \ {0}
  /\ MaxFaults \in Nat

NoCondition == 0
Conditions == 1..NumConditions

VARIABLES
  pc,          \* where run_all_experiments is, see TypeOK
  condition, repeat_id, completed,
  interface,   \* the condition tc applies now, or NoCondition
  faults,      \* tc commands that failed so far
  (* The experiment under way. *)
  seq, current_mem, sent_count, accepted_count, rejected_count,
  timeout_count, error_count,
  up, down,    \* the packet and the answer under way, as sequences
  broken,      \* the connection is cut
  session,     \* the server's state of the experiment's session
  (* The results. *)
  results,     \* tracker.results
  csv,         \* rows of the output file
  saved        \* rows of the file when it was last complete

place == <<condition, repeat_id, completed>>
tc == <<interface, faults>>
counts == <<sent_count, accepted_count, rejected_count, timeout_count,
            error_count>>
exchange == <<seq, current_mem, counts, up, down, broken, session>>
files == <<results, csv, saved>>
vars == <<pc, place, tc, exchange, files>>

Init ==
  /\ pc = "clear" /\ condition = 1 /\ repeat_id = 1 /\ completed = 0
  /\ interface = NoCondition /\ faults = 0
  /\ seq = 1 /\ current_mem = <<>>
  /\ sent_count = 0 /\ accepted_count = 0 /\ rejected_count = 0
  /\ timeout_count = 0 /\ error_count = 0
  /\ up = <<>> /\ down = <<>> /\ broken = FALSE /\ session = FreshSession
  /\ results = <<>> /\ csv = <<>> /\ saved = <<>>

-----------------------------------------------------------------------------
(* tc. *)

CommandFails == faults < MaxFaults /\ faults' = faults + 1

\* clear_tc_netem: tc qdisc del.
ClearInterface ==
  \/ interface' = NoCondition /\ UNCHANGED faults
  \/ CommandFails /\ UNCHANGED interface

\* The first command of setup_tc_netem.
Clear ==
  /\ pc = "clear"
  /\ ClearInterface
  /\ pc' = "add"
  /\ UNCHANGED <<place, exchange, files>>

NextCondition ==
  IF condition < NumConditions
  THEN condition' = condition + 1 /\ repeat_id' = 1 /\ pc' = "clear"
  ELSE UNCHANGED <<condition, repeat_id>> /\ pc' = "finally"

\* The second one, tc qdisc add.  The guarded runner ignores the result.
\* Mutant: so does the other one.
AddIgnored ==
  /\ pc = "add"
  /\ \/ interface = NoCondition /\ interface' = condition /\ UNCHANGED faults
     \/ interface # NoCondition /\ UNCHANGED tc
     \/ CommandFails /\ UNCHANGED interface
  /\ pc' = "open"
  /\ UNCHANGED <<place, exchange, files>>

Add ==
  /\ pc = "add"
  /\ \/ /\ interface = NoCondition
        /\ interface' = condition /\ UNCHANGED faults
        /\ pc' = IF Guarded THEN "verify" ELSE "open"
        /\ UNCHANGED <<condition, repeat_id>>
     \/ /\ \/ interface # NoCondition /\ UNCHANGED tc
           \/ CommandFails /\ UNCHANGED interface
        /\ IF Guarded
           THEN pc' = "verify" /\ UNCHANGED <<condition, repeat_id>>
           ELSE NextCondition
  /\ UNCHANGED <<completed, exchange, files>>

\* verify_tc_rules looks at the exit code of tc qdisc show, and at nothing
\* else.
Verify ==
  /\ pc = "verify"
  /\ \/ pc' = "open" /\ UNCHANGED <<faults, completed>>
     \/ /\ CommandFails
        /\ completed' = completed + Repeats
        /\ pc' = "teardown"
  /\ UNCHANGED <<condition, repeat_id, interface, exchange, files>>

-----------------------------------------------------------------------------
(* run_one_tc_experiment. *)

Open ==
  /\ pc = "open"
  /\ seq' = 1 /\ current_mem' = <<>>
  /\ sent_count' = 0 /\ accepted_count' = 0 /\ rejected_count' = 0
  /\ timeout_count' = 0 /\ error_count' = 0
  /\ up' = <<>> /\ down' = <<>> /\ broken' = FALSE
  /\ session' = FreshSession
  /\ pc' \in {"send", "row"}      \* connected, or open_tcp raised
  /\ UNCHANGED <<place, tc, files>>

\* On a cut connection the call may raise, which ends the experiment without
\* a trace in its counts.
Send ==
  /\ pc = "send" /\ seq <= MessageCount
  /\ \/ /\ up' = IF broken THEN up
                 ELSE Append(up, DataPacket(seq, current_mem))
        /\ sent_count' = sent_count + 1
        /\ pc' = "receive"
     \/ broken /\ pc' = "row" /\ UNCHANGED <<up, sent_count>>
  /\ UNCHANGED <<place, tc, seq, current_mem, accepted_count, rejected_count,
                 timeout_count, error_count, down, broken, session, files>>

Serve ==
  /\ up # <<>>
  /\ session' = After(session, Head(up))
  /\ down' = IF broken THEN down ELSE Append(down, Verdict(session, Head(up)))
  /\ up' = Tail(up)
  /\ UNCHANGED <<pc, place, tc, seq, current_mem, counts, broken, files>>

Break ==
  /\ pc \in {"send", "receive"} /\ ~broken
  /\ broken' = TRUE /\ up' = <<>> /\ down' = <<>>
  /\ UNCHANGED <<pc, place, tc, seq, current_mem, counts, session, files>>

NextMessage == seq' = seq + 1 /\ pc' = "send"

\* The file object of a socket that has timed out cannot be read again.
Readable == ~broken /\ timeout_count = 0

Receive ==
  /\ pc = "receive" /\ Readable /\ down # <<>>
  /\ IF Head(down).ok
     THEN /\ accepted_count' = accepted_count + 1
          /\ current_mem' = Head(down).last_mem
          /\ UNCHANGED rejected_count
     ELSE rejected_count' = rejected_count + 1
            /\ UNCHANGED <<accepted_count, current_mem>>
  /\ down' = Tail(down)
  /\ NextMessage
  /\ UNCHANGED <<place, tc, sent_count, timeout_count, error_count, up, broken,
                 session, files>>

\* Mutant: the client reads again instead.
TimesOutWaits == pc = "receive" /\ Readable /\ down = <<>> /\ UNCHANGED vars

TimesOut ==
  /\ pc = "receive" /\ Readable /\ down = <<>>
  /\ timeout_count' = timeout_count + 1
  /\ NextMessage
  /\ UNCHANGED <<place, tc, current_mem, sent_count, accepted_count,
                 rejected_count, error_count, up, down, broken, session, files>>

\* Mutant: the error is swallowed.
ReadErrorUncounted ==
  /\ pc = "receive" /\ ~Readable
  /\ NextMessage
  /\ UNCHANGED <<place, tc, current_mem, counts, up, down, broken, session,
                 files>>

ReadError ==
  /\ pc = "receive" /\ ~Readable
  /\ error_count' = error_count + 1
  /\ NextMessage
  /\ UNCHANGED <<place, tc, current_mem, sent_count, accepted_count,
                 rejected_count, timeout_count, up, down, broken, session, files>>

Close ==
  /\ pc = "send" /\ seq > MessageCount
  /\ pc' = "row"
  /\ UNCHANGED <<place, tc, exchange, files>>

Experiment == Open \/ Send \/ Receive \/ TimesOut \/ ReadError \/ Close

-----------------------------------------------------------------------------
(* run_all_experiments. *)

\* tracker.add_result.  "under" is what the interface really did.
AddResult ==
  /\ pc = "row"
  /\ results' = Append(results, [condition |-> condition, under |-> interface,
                                 accepted |-> accepted_count])
  /\ completed' = completed + 1
  /\ pc' = IF Guarded /\ (completed + 1) % SaveEvery = 0 THEN "save" ELSE "next"
  /\ UNCHANGED <<condition, repeat_id, tc, exchange, csv, saved>>

\* save_results_to_csv opens the file for writing, which empties it, and then
\* writes all rows.
OpenCsv ==
  /\ pc \in {"save", "final_save"}
  /\ csv' = <<>>
  /\ pc' = IF pc = "save" THEN "write" ELSE "final_write"
  /\ UNCHANGED <<place, tc, exchange, results, saved>>

WriteCsv ==
  /\ pc \in {"write", "final_write"}
  /\ csv' = results /\ saved' = results
  /\ pc' = IF pc = "write" THEN "next" ELSE "done"
  /\ UNCHANGED <<place, tc, exchange, results>>

NextRepeat ==
  /\ pc = "next"
  /\ IF repeat_id < Repeats
     THEN repeat_id' = repeat_id + 1 /\ pc' = "open" /\ UNCHANGED condition
     ELSE IF Guarded
     THEN pc' = "teardown" /\ UNCHANGED <<condition, repeat_id>>
     ELSE NextCondition
  /\ UNCHANGED <<completed, tc, exchange, files>>

\* The finally clause of tc_context.
Teardown ==
  /\ pc = "teardown"
  /\ ClearInterface
  /\ NextCondition
  /\ UNCHANGED <<completed, exchange, files>>

\* The finally clause of run_all_experiments; in the other runner, the call
\* after the loops.
Finally ==
  /\ pc = "finally"
  /\ ClearInterface
  /\ pc' = "final_save"
  /\ UNCHANGED <<place, exchange, files>>

\* SIGINT or SIGTERM.  The handler clears and calls sys.exit, whose exception
\* passes through the finally clauses around the place of the signal (a clause
\* that is running already is cut short); a tc qdisc add that the signal
\* interrupts may take effect after the handler's command.
ExitPaths ==
  CASE pc = "add" -> {"handler"}
    [] pc = "teardown" -> {"exiting", "leaving"}
    [] pc = "finally" -> {"leaving", "exited"}
    [] pc \in {"final_save", "final_write"} -> {"exited"}
    [] OTHER -> {"exiting"}

Signal ==
  /\ Guarded /\ pc \notin {"done", "handler", "exiting", "leaving", "exited"}
  /\ ClearInterface
  /\ pc' \in ExitPaths
  /\ UNCHANGED <<place, exchange, files>>

AddTakesEffect ==
  /\ pc = "handler"
  /\ \/ UNCHANGED interface
     \/ interface = NoCondition /\ interface' = condition
  /\ pc' = "exiting"
  /\ UNCHANGED <<place, faults, exchange, files>>

\* Mutant: the handler leaves with os._exit, past the finally clauses.
ExitContextSkipped ==
  /\ pc = "exiting" /\ pc' = "leaving"
  /\ UNCHANGED <<place, tc, exchange, files>>

ExitContext ==
  /\ pc = "exiting"
  /\ ClearInterface
  /\ pc' = "leaving"
  /\ UNCHANGED <<place, exchange, files>>

Leave ==
  /\ pc = "leaving"
  /\ ClearInterface
  /\ pc' = "exited"
  /\ UNCHANGED <<place, exchange, files>>

Stopped == pc \in {"done", "exited"}
Halt == Stopped /\ UNCHANGED vars

Runner ==
  \/ Clear \/ Add \/ Verify \/ Experiment \/ AddResult \/ OpenCsv \/ WriteCsv
  \/ NextRepeat \/ Teardown \/ Finally \/ AddTakesEffect \/ ExitContext \/ Leave
Next == Runner \/ Serve \/ Break \/ Signal \/ Halt

\* The runner is one thread; every command and every read has a timeout.
Spec == Init /\ [][Next]_vars /\ WF_vars(Runner)

-----------------------------------------------------------------------------
(* Properties. *)

\* TypeOK: the places of the program and the ranges of its counters.
TypeOK ==
  /\ pc \in {"clear", "add", "verify", "open", "send", "receive", "row",
             "save", "write", "next", "teardown", "finally", "final_save",
             "final_write", "done", "handler", "exiting", "leaving", "exited"}
  /\ condition \in Conditions /\ repeat_id \in 1..Repeats
  /\ interface \in Conditions \union {NoCondition}
  /\ faults \in 0..MaxFaults
  /\ completed <= NumConditions * Repeats
  /\ timeout_count \in 0..1
  /\ Len(results) <= completed

\* CountsBalance: when an experiment has made its row, each packet it counted
\* as sent is in exactly one of the four outcome columns.
CountsBalance ==
  pc \in {"send", "row"} =>
    sent_count = accepted_count + rejected_count + timeout_count + error_count

\* NeverRejected: the runners never see a rejection.  The packets sent after a
\* timeout are refused by the server, for the client has lost step with it,
\* but their answers are never read.
NeverRejected == rejected_count = 0

\* OneInDoubt: the server holds what the row calls accepted, and at most the
\* one packet more whose answer timed out or was lost.
OneInDoubt ==
  pc \in {"send", "row"} =>
    /\ accepted_count <= session.last_seq
    /\ session.last_seq <= accepted_count + 1

\* RowsUnderTheirCondition: each row was measured under the condition it names.
RowsUnderTheirCondition ==
  \A i \in DOMAIN results : results[i].under = results[i].condition

\* ClearedDespiteOneFault: one failing tc command never leaves netem rules on
\* the interface, also when a signal ends the run in the middle of a setup.
ClearedDespiteOneFault == Stopped /\ faults <= 1 => interface = NoCondition

\* RunEnds: the run ends, whatever fails, and unless a signal ended it the
\* file holds every result.
Over == Stopped /\ (pc = "done" => csv = results)
=============================================================================
