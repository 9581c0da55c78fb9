------------------------------- MODULE Reruns -------------------------------
(***************************************************************************)
(* rerun_failed_real_recovery.py: the rows of a results file that failed   *)
(* are made again, each up to `attempts` times, and the file is written    *)
(* anew, in place.  The program may be started several times, one after    *)
(* the other, and may be killed at any point.                              *)
(***************************************************************************)
EXTENDS Integers, Sequences, FiniteSets, SequencesExt

CONSTANTS
  RowCount,     \* the rows of the file that the experiment wrote
  MaxRuns,      \* bound on the number of runs
  Attempts      \* the values of --attempts

\* Of the constants; MC modules state them (ASSUME) for their instances.
RerunsAssumption ==
  RowCount \in Nat \ {0} /\ MaxRuns \in Nat \ {0} /\ Attempts \subseteq Nat

VARIABLES
  original,        \* the file as the experiment wrote it
  file,
  pc,              \* "off", "rerun" or "write"
  runs,
  attempts, dry_run, rows, failed_indexes,
  made             \* what came of the attempts of this run, row by row

options == <<attempts, dry_run>>
work    == <<rows, failed_indexes, made>>
vars    == <<original, file, pc, runs, options, work>>

\* A row of the case i, from the experiment (run 0) or from a run of this
\* program.
Row(i, run, passes) == [case |-> i, run |-> run, passes |-> passes]

is_failed_recovery_row(row) == ~row.passes

Init ==
  /\ original \in {[i \in 1..RowCount |-> Row(i, 0, i \in passing)] :
                     passing \in SUBSET (1..RowCount)}
  /\ file = original
  /\ pc = "off" /\ runs = 0
  /\ attempts = 0 /\ dry_run = FALSE
  /\ rows = <<>> /\ failed_indexes = {} /\ made = <<>>

-----------------------------------------------------------------------------

\* Mutant: every row is made again.
EveryIndex(of) == DOMAIN of

FailedIndexes(of) == {i \in DOMAIN of : is_failed_recovery_row(of[i])}

\* The file is read; without rows, or with --dry-run, it is left alone.
Start ==
  /\ pc = "off" /\ runs < MaxRuns
  /\ runs' = runs + 1
  /\ attempts' \in Attempts /\ dry_run' \in BOOLEAN
  /\ rows' = file
  /\ failed_indexes' = FailedIndexes(file)
  /\ made' = [i \in DOMAIN file |-> <<>>]
  /\ pc' = IF file = <<>> \/ dry_run' THEN "off" ELSE "rerun"
  /\ UNCHANGED <<original, file>>

Earliest == CHOOSE i \in failed_indexes : \A j \in failed_indexes : i <= j

\* Mutant: the attempts go on after one that passes.
AttemptOn ==
  /\ pc = "rerun" /\ failed_indexes # {} /\ attempts > 0
  /\ LET i == Earliest IN
     \E passes \in BOOLEAN :
       /\ rows' = [rows EXCEPT ![i] = Row(rows[i].case, runs, passes)]
       /\ made' = [made EXCEPT ![i] = Append(@, passes)]
       /\ failed_indexes' = IF Len(made'[i]) = attempts
                            THEN failed_indexes \ {i} ELSE failed_indexes
  /\ UNCHANGED <<original, file, pc, runs, options>>

\* One experiment, of the case of the first row left; the row is that of the
\* last one made.
Attempt ==
  /\ pc = "rerun" /\ failed_indexes # {} /\ attempts > 0
  /\ LET i == Earliest IN
     \E passes \in BOOLEAN :
       /\ rows' = [rows EXCEPT ![i] = Row(rows[i].case, runs, passes)]
       /\ made' = [made EXCEPT ![i] = Append(@, passes)]
       /\ failed_indexes' = IF passes \/ Len(made'[i]) = attempts
                            THEN failed_indexes \ {i} ELSE failed_indexes
  /\ UNCHANGED <<original, file, pc, runs, options>>

\* open(input_csv, "w") empties the file before its rows are written.
Truncate ==
  /\ pc = "rerun" /\ (failed_indexes = {} \/ attempts = 0)
  /\ file' = <<>>
  /\ pc' = "write"
  /\ UNCHANGED <<original, runs, options, work>>

Write ==
  /\ pc = "write"
  /\ file' = rows
  /\ pc' = "off"
  /\ UNCHANGED <<original, runs, options, work>>

\* What a killed run has written of the rows stays.
Kill ==
  /\ pc \in {"rerun", "write"}
  /\ file' \in IF pc = "write" THEN Prefixes(rows) ELSE {file}
  /\ pc' = "off"
  /\ made' = <<>>
  /\ UNCHANGED <<original, runs, options, rows, failed_indexes>>

Done == pc = "off" /\ runs = MaxRuns /\ UNCHANGED vars

Next == Start \/ Attempt \/ Truncate \/ Write \/ Kill \/ Done

Spec == Init /\ [][Next]_vars

-----------------------------------------------------------------------------
(* Properties *)

\* TypeOK: a row is of the case that it stands for.
TypeOK ==
  /\ pc \in {"off", "rerun", "write"} /\ runs \in 0..MaxRuns
  /\ failed_indexes \subseteq DOMAIN rows
  /\ \A i \in DOMAIN rows : rows[i].case = i
  /\ Len(file) <= RowCount

\* PassingRowsStay: in whatever is left of the file, a row that once passed is
\* the row the experiment wrote, however many runs went over it.
PassingRowsStay ==
  \A i \in DOMAIN file : original[i].passes => file[i] = original[i]

\* TriedEnough: a file that a run wrote to its end has a passing row where one
\* of that run's attempts passed, and a failed one only after all of them.
TriedEnough ==
  pc = "off" /\ made # <<>> /\ ~dry_run /\ attempts > 0 =>
    \A i \in DOMAIN made : made[i] # <<>> =>
      /\ file[i].passes <=> \E k \in DOMAIN made[i] : made[i][k]
      /\ ~file[i].passes => Len(made[i]) = attempts

\* RowsOnlyLostInWriting: only the truncation shortens the file, and a run that
\* is not killed then writes back as many rows as it read.
RowsOnlyLostInWriting ==
  Len(file') < Len(file) =>
    pc = "rerun" /\ pc' = "write" /\ Len(rows) = Len(file)

=============================================================================
