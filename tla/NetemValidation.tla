-------------------------- MODULE NetemValidation --------------------------
(***************************************************************************)
(* run_netem_validation.py: experiments under network conditions that the  *)
(* runner sets with tc on an interface of its host, and                    *)
(* validate_netem_artifact.py, which judges the file it publishes.         *)
(*                                                                         *)
(* The interface outlives the runner.  A tc command may fail, with or      *)
(* without effect, a runner may be interrupted or killed at any step, and  *)
(* another one may be started after it, or beside it.                      *)
(***************************************************************************)
EXTENDS Integers, Sequences, FiniteSets

CONSTANTS
  Conditions,  \* in their order; "control" is the one without netem
  RunsPer,     \* experiments under one condition: protocols times repeats
  Messages,    \* of one experiment
  MaxRunners,  \* bound on the processes started
  Overlap,     \* may a runner be started while another is running?
  MaxFaults,   \* bound on the tc commands that fail
  MaxStops     \* bound on the interrupts and kills

\* Of the constants; MC modules state them (ASSUME) for their instances.
BoundAssumption ==
  /\ {RunsPer, Messages, MaxRunners} \subseteq Nat \ {0}
  /\ {MaxFaults, MaxStops} \subseteq Nat
ConditionAssumption ==
  Conditions \in Seq(STRING) /\ Len(Conditions) > 0
OverlapAssumption == Overlap \in BOOLEAN

Runners == 1..MaxRunners
Clean == "clean"

VARIABLES
  qdisc,            \* of the interface: the condition whose netem is set, or Clean
  tmp, final,       \* the result file and its .tmp: their rows, or NoFile
  pc, cond, cell,   \* of each runner: where it is, under which condition
  snap,             \* tc_snap
  raising,          \* is an exception on its way up?
  ret,              \* where cleanup_tc_and_verify was called
  result,           \* of the experiment that is running
  exec_failure,     \* any_execution_failure
  reported,         \* did the runner say that the interface is not clean?
  faults, stops

file_vars == <<tmp, final>>
run_vars == <<cond, cell, snap, exec_failure>>
bounds == <<faults, stops>>
vars == <<qdisc, file_vars, pc, run_vars, raising, ret, result, reported, bounds>>

NoResult == [accepted |-> 0, rejected |-> 0, timeouts |-> 0, errors |-> 0,
             under |-> {}]
\* Stands for the absence of a file: a row that no runner writes.
NoFile == <<[by |-> 0, cond |-> Clean, cell |-> 0, execution_valid |-> FALSE,
             result_success |-> FALSE, result |-> NoResult]>>

Init ==
  /\ qdisc = Clean /\ tmp = NoFile /\ final = NoFile
  /\ pc = [r \in Runners |-> "none"]
  /\ cond = [r \in Runners |-> 1] /\ cell = [r \in Runners |-> 1]
  /\ snap = [r \in Runners |-> Clean]
  /\ raising = [r \in Runners |-> FALSE] /\ ret = [r \in Runners |-> "none"]
  /\ result = [r \in Runners |-> NoResult]
  /\ exec_failure = [r \in Runners |-> FALSE]
  /\ reported = [r \in Runners |-> FALSE]
  /\ faults = 0 /\ stops = 0

Ended == {"none", "end", "refused", "killed"}
Running == {r \in Runners : pc[r] \notin Ended}
Condition(r) == Conditions[cond[r]]
Go(r, there) == pc' = [pc EXCEPT ![r] = there]

-----------------------------------------------------------------------------
(* tc.  A fault is a command that fails. *)

Faulty == faults < MaxFaults /\ faults' = faults + 1
Faultless == UNCHANGED faults

\* tc qdisc del: no caller looks at its result.
Delete ==
  \/ qdisc' = Clean /\ Faultless
  \/ UNCHANGED qdisc /\ Faulty

\* Reading the qdisc: the caller's step if it is read, and if it is not.
Show(read, failed) == (read /\ Faultless) \/ (failed /\ Faulty)

\* The call of cleanup_tc_and_verify, and what follows it.
CleanUp(r, from) ==
  /\ Go(r, "cleanup_del")
  /\ ret' = [ret EXCEPT ![r] = from]

\* An exception in main's try block, past tc_condition or in it.
RaiseInMain(r) == CleanUp(r, "exit")
RaiseInCondition(r) ==
  /\ raising' = [raising EXCEPT ![r] = TRUE]
  /\ CleanUp(r, "condition")

-----------------------------------------------------------------------------
(* Start *)

\* Mode, platform, privileges, interface or worktree are not right.
Refuse(r) == Go(r, "refused")

\* main, up to its guards: the runner refuses without a look at the interface,
\* or because of a file that is there.
Start(r) ==
  /\ pc[r] = "none" /\ \A s \in Runners : s < r => pc[s] # "none"
  /\ Overlap \/ Running = {}
  /\ \/ Refuse(r) /\ UNCHANGED ret
     \/ final # NoFile /\ CleanUp(r, "exit")
     \/ final = NoFile /\ tmp # NoFile /\ CleanUp(r, "exit")
     \/ final = NoFile /\ tmp = NoFile /\ Go(r, "open") /\ UNCHANGED ret
  /\ UNCHANGED <<qdisc, file_vars, run_vars, raising, result, reported, bounds>>

\* open(tmp_csv, "x").
OpenTmp(r) ==
  /\ pc[r] = "open"
  /\ \/ tmp = NoFile /\ tmp' = <<>> /\ Go(r, "clear") /\ UNCHANGED ret
     \/ tmp # NoFile /\ CleanUp(r, "exit") /\ UNCHANGED tmp
  /\ UNCHANGED <<qdisc, final, run_vars, raising, result, reported, bounds>>

-----------------------------------------------------------------------------
(* tc_condition and setup_tc_netem *)

Clear(r) ==
  /\ pc[r] = "clear"
  /\ Delete /\ Go(r, "check")
  /\ UNCHANGED <<file_vars, run_vars, raising, ret, result, reported, stops>>

\* The control condition is set by this.
Check(r) ==
  /\ pc[r] = "check"
  /\ LET goes_on == IF Condition(r) = "control" THEN "snapshot" ELSE "add" IN
       Show(IF qdisc = Clean THEN Go(r, goes_on) /\ UNCHANGED ret
            ELSE RaiseInMain(r),
            RaiseInMain(r))
  /\ UNCHANGED <<qdisc, file_vars, run_vars, raising, result, reported, stops>>

\* tc qdisc add fails when there is a qdisc; a command that times out may
\* have set it.
Add(r) ==
  /\ pc[r] = "add"
  /\ \/ /\ qdisc = Clean /\ qdisc' = Condition(r) /\ Faultless
        /\ Go(r, "snapshot") /\ UNCHANGED ret
     \/ qdisc # Clean /\ UNCHANGED qdisc /\ Faultless /\ RaiseInMain(r)
     \/ /\ qdisc = Clean /\ qdisc' \in {Clean, Condition(r)} /\ Faulty
        /\ RaiseInMain(r)
  /\ UNCHANGED <<file_vars, run_vars, raising, result, reported, stops>>

Snapshot(r) ==
  /\ pc[r] = "snapshot"
  /\ Show(/\ snap' = [snap EXCEPT ![r] = qdisc]
          /\ Go(r, "connect") /\ UNCHANGED <<raising, ret>>,
          RaiseInCondition(r) /\ UNCHANGED snap)
  /\ UNCHANGED <<qdisc, file_vars, cond, cell, exec_failure, result, reported,
                 stops>>

-----------------------------------------------------------------------------
(* An experiment: run_one_experiment, and its row *)

\* The server's answer to HELLO: with its session, or the reason there is none.
HelloAnswered(r) == Go(r, "exchange") \/ Go(r, "row")

\* Its answer to DATA.  The server may be another than the runner's own.
DataAnswers(res) ==
  {[res EXCEPT !.accepted = @ + 1], [res EXCEPT !.rejected = @ + 1]}

\* open_tcp and send_hello.  Their failure ends the experiment, uncounted.
Connect(r) ==
  /\ pc[r] = "connect"
  /\ result' = [result EXCEPT ![r] = [NoResult EXCEPT !.under = {qdisc}]]
  /\ HelloAnswered(r)
  /\ UNCHANGED <<qdisc, file_vars, run_vars, raising, ret, reported, bounds>>

\* One message.  A rejected one is followed by the next, a lost answer and a
\* broken connection end the experiment.  Only an error of the answer is
\* counted: one of sending leaves the loop by another clause.
Exchange(r) ==
  /\ pc[r] = "exchange"
  /\ LET res == [result[r] EXCEPT !.under = @ \union {qdisc}]
         last == res.accepted + res.rejected = Messages - 1
     IN  \/ /\ \E answered \in DataAnswers(res) :
                 result' = [result EXCEPT ![r] = answered]
            /\ IF last THEN Go(r, "row") ELSE UNCHANGED pc
         \/ /\ \/ result' = [result EXCEPT ![r] = [res EXCEPT !.timeouts = 1]]
               \/ result' = [result EXCEPT ![r] = [res EXCEPT !.errors = 1]]
               \/ result' = [result EXCEPT ![r] = res]
            /\ Go(r, "row")
  /\ UNCHANGED <<qdisc, file_vars, run_vars, raising, ret, reported, bounds>>

\* verify_tc_snapshot.
TcOK(condition, snapshot) ==
  snapshot = (IF condition = "control" THEN Clean ELSE condition)

\* exec_valid and result_success.
ExecValid(r, res) ==
  /\ TcOK(Condition(r), snap[r])
  /\ res.errors = 0 /\ res.rejected = 0
  /\ res.accepted > 0 \/ res.timeouts > 0
ResultSuccess(res) == res.timeouts = 0 /\ res.errors = 0 /\ res.rejected = 0

WriteRow(r) ==
  /\ pc[r] = "row"
  /\ tmp' = Append(tmp,
       [by |-> r, cond |-> Condition(r), cell |-> cell[r],
        execution_valid |-> ExecValid(r, result[r]),
        result_success |-> ResultSuccess(result[r]), result |-> result[r]])
  /\ exec_failure' = [exec_failure EXCEPT ![r] = @ \/ ~ExecValid(r, result[r])]
  /\ IF cell[r] < RunsPer
     THEN /\ cell' = [cell EXCEPT ![r] = @ + 1]
          /\ Go(r, "connect") /\ UNCHANGED ret
     ELSE /\ cell' = [cell EXCEPT ![r] = 1]
          /\ CleanUp(r, "condition")
  /\ result' = [result EXCEPT ![r] = NoResult]
  /\ UNCHANGED <<qdisc, final, cond, snap, raising, reported, bounds>>

-----------------------------------------------------------------------------
(* cleanup_tc_and_verify, called in three places *)

CleanupDelete(r) ==
  /\ pc[r] = "cleanup_del"
  /\ Delete /\ Go(r, "cleanup_show")
  /\ UNCHANGED <<file_vars, run_vars, raising, ret, result, reported, stops>>

\* Mutant: an exception goes up without cleanup_or_report.
CleanedConditionOnly(r, ok) ==
  CASE ret[r] = "exit" ->
         /\ Go(r, "end") /\ reported' = [reported EXCEPT ![r] = ~ok]
         /\ UNCHANGED <<cond, raising, ret>>
    [] ret[r] = "condition" /\ (raising[r] \/ ~ok) ->
         Go(r, "end") /\ UNCHANGED <<cond, raising, ret, reported>>
    [] ret[r] = "condition" /\ ~raising[r] /\ ok ->
         /\ IF cond[r] < Len(Conditions)
            THEN cond' = [cond EXCEPT ![r] = @ + 1] /\ Go(r, "clear")
            ELSE Go(r, "validate") /\ UNCHANGED cond
         /\ UNCHANGED <<raising, ret, reported>>
    [] ret[r] = "publish" ->
         /\ Go(r, IF ok THEN "link" ELSE "end")
         /\ reported' = [reported EXCEPT ![r] = ~ok]
         /\ UNCHANGED <<cond, raising, ret>>

\* What its caller does: main on its way out, tc_condition, which raises if
\* the interface is not clean, and main before it publishes.
Cleaned(r, ok) ==
  CASE ret[r] = "exit" ->
         /\ Go(r, "end") /\ reported' = [reported EXCEPT ![r] = ~ok]
         /\ UNCHANGED <<cond, raising, ret>>
    [] ret[r] = "condition" /\ (raising[r] \/ ~ok) ->
         RaiseInMain(r) /\ UNCHANGED <<cond, raising, reported>>
    [] ret[r] = "condition" /\ ~raising[r] /\ ok ->
         /\ IF cond[r] < Len(Conditions)
            THEN cond' = [cond EXCEPT ![r] = @ + 1] /\ Go(r, "clear")
            ELSE Go(r, "validate") /\ UNCHANGED cond
         /\ UNCHANGED <<raising, ret, reported>>
    [] ret[r] = "publish" ->
         /\ Go(r, IF ok THEN "link" ELSE "end")
         /\ reported' = [reported EXCEPT ![r] = ~ok]
         /\ UNCHANGED <<cond, raising, ret>>

CleanupShow(r) ==
  /\ pc[r] = "cleanup_show"
  /\ Show(Cleaned(r, qdisc = Clean), Cleaned(r, FALSE))
  /\ UNCHANGED <<qdisc, file_vars, cell, snap, exec_failure, result, stops>>

-----------------------------------------------------------------------------
(* Publication *)

\* The number of rows, and what each says of itself.
Complete(rows) == Len(rows) = Len(Conditions) * RunsPer
RowsOK(rows) == \A i \in DOMAIN rows : rows[i].execution_valid

Validate(r) ==
  /\ pc[r] = "validate"
  /\ CleanUp(r, IF Complete(tmp) /\ RowsOK(tmp) /\ ~exec_failure[r]
                THEN "publish" ELSE "exit")
  /\ UNCHANGED <<qdisc, file_vars, run_vars, raising, result, reported, bounds>>

\* Mutant: os.replace.
LinkReplacing(r) ==
  /\ pc[r] = "link"
  /\ final' = tmp /\ Go(r, "unlink") /\ UNCHANGED ret
  /\ UNCHANGED <<qdisc, tmp, run_vars, raising, result, reported, bounds>>

\* publish_tmp_no_clobber: os.link, which raises when the file exists ...
Link(r) ==
  /\ pc[r] = "link"
  /\ \/ final = NoFile /\ final' = tmp /\ Go(r, "unlink") /\ UNCHANGED ret
     \/ final # NoFile /\ CleanUp(r, "exit") /\ UNCHANGED final
  /\ UNCHANGED <<qdisc, tmp, run_vars, raising, result, reported, bounds>>

\* ... and os.unlink.
Unlink(r) ==
  /\ pc[r] = "unlink"
  /\ tmp' = NoFile /\ Go(r, "end")
  /\ UNCHANGED <<qdisc, final, run_vars, raising, ret, result, reported, bounds>>

-----------------------------------------------------------------------------
(* The environment *)

\* Mutant: what a run that failed has written is removed.
InterruptDiscarding(r) ==
  /\ stops < MaxStops /\ stops' = stops + 1
  /\ \/ pc[r] \in {"clear", "check", "add"} /\ RaiseInMain(r) /\ UNCHANGED raising
     \/ pc[r] \in {"snapshot", "connect", "exchange", "row"} /\ RaiseInCondition(r)
  /\ tmp' = NoFile
  /\ UNCHANGED <<qdisc, final, run_vars, result, reported, faults>>

\* KeyboardInterrupt, which is no Exception.  In the first command of a
\* cleanup it is dropped; in the second it goes up from there.
Interrupt(r) ==
  /\ stops < MaxStops /\ stops' = stops + 1
  /\ \/ pc[r] \in {"clear", "check", "add"} /\ RaiseInMain(r) /\ UNCHANGED raising
     \/ pc[r] \in {"snapshot", "connect", "exchange", "row"} /\ RaiseInCondition(r)
     \/ /\ pc[r] \in {"link", "unlink"}
        /\ CleanUp(r, "exit") /\ UNCHANGED raising
     \/ pc[r] = "cleanup_del" /\ Go(r, "cleanup_show") /\ UNCHANGED <<raising, ret>>
     \/ /\ pc[r] = "cleanup_show" /\ ret[r] = "condition"
        /\ RaiseInMain(r) /\ UNCHANGED raising
     \/ /\ pc[r] \in {"open", "validate"} \/ (pc[r] = "cleanup_show" /\ ret[r] # "condition")
        /\ Go(r, "killed") /\ UNCHANGED <<raising, ret>>
  /\ UNCHANGED <<qdisc, file_vars, run_vars, result, reported, faults>>

\* SIGTERM or SIGKILL: no clause of the program runs.
Kill(r) ==
  /\ r \in Running /\ stops < MaxStops /\ stops' = stops + 1
  /\ Go(r, "killed")
  /\ UNCHANGED <<qdisc, file_vars, run_vars, raising, ret, result, reported, faults>>

\* "Move or remove it before re-running."
MoveFiles ==
  /\ Running = {} /\ (tmp # NoFile \/ final # NoFile)
  /\ tmp' = NoFile /\ final' = NoFile
  /\ UNCHANGED <<qdisc, pc, run_vars, raising, ret, result, reported, bounds>>

-----------------------------------------------------------------------------

RunnerStep(r) ==
  \/ Start(r) \/ OpenTmp(r) \/ Clear(r) \/ Check(r) \/ Add(r) \/ Snapshot(r)
  \/ Connect(r) \/ Exchange(r) \/ WriteRow(r) \/ CleanupDelete(r) \/ CleanupShow(r)
  \/ Validate(r) \/ Link(r) \/ Unlink(r)

Next == (\E r \in Runners : RunnerStep(r) \/ Interrupt(r) \/ Kill(r)) \/ MoveFiles

Spec == Init /\ [][Next]_vars

-----------------------------------------------------------------------------
(* Properties *)

RowsOf(file) == IF file = NoFile THEN {} ELSE {file[i] : i \in DOMAIN file}

\* TypeOK: an experiment has no more outcomes than messages, and an exception
\* in tc_condition always finds its way to a cleanup or to the end.
TypeOK ==
  /\ qdisc \in {Clean} \union ({Conditions[i] : i \in DOMAIN Conditions} \ {"control"})
  /\ \A r \in Runners :
       /\ cond[r] \in DOMAIN Conditions /\ cell[r] \in 1..RunsPer
       /\ result[r].accepted + result[r].rejected + result[r].timeouts
            + result[r].errors \in 0..Messages
       /\ raising[r] => pc[r] \in {"cleanup_del", "cleanup_show", "end", "killed"}

\* LeftClean: a runner that comes to its end leaves the interface clean or says
\* that it is not, whichever tc command failed and wherever it was interrupted,
\* also if an earlier runner was killed under a condition.
LeftClean ==
  Running = {} =>
    \A r \in Runners :
      pc[r] = "end" /\ (\A s \in Runners : s > r => pc[s] = "none")
        => qdisc = Clean \/ reported[r]

\* KeepsRows: what was written to the temporary file stays there until it is
\* published, or moved by the operator when no runner is left.
KeepsRows ==
  tmp # NoFile /\ tmp' = NoFile => final' = tmp \/ Running = {}

\* The checks of validate_netem_artifact.py on a formal file.
ArtifactOK(rows) ==
  /\ {<<rows[i].cond, rows[i].cell>> : i \in DOMAIN rows}
       = {Conditions[i] : i \in DOMAIN Conditions} \X (1..RunsPer)
  /\ Complete(rows)
  /\ RowsOK(rows)

\* PublishedIsArtifact: the published file is the work of one runner and passes
\* the validator, however many runners were at work.
PublishedIsArtifact ==
  final # NoFile =>
    /\ ArtifactOK(final)
    /\ Cardinality({row.by : row \in RowsOf(final)}) = 1

\* FinalImmutable: a published file is not replaced, though the guard that
\* looks for it comes long before.
FinalImmutable == final # NoFile => final' = final \/ Running = {}

=============================================================================
