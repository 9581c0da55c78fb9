-------------------------- MODULE CrossHostBatches --------------------------
(***************************************************************************)
(* run_cross_host_validation.py --formal-batch and                         *)
(* aggregate_cross_host_batches.py: what they do to the files of a run     *)
(* directory.  A run writes the rows of one batch to the batch's temporary *)
(* file and its events to the journal, validates the file, and publishes   *)
(* it under the batch's name or keeps it as a failed artifact.  The        *)
(* aggregator reads the published batches.                                 *)
(*                                                                         *)
(* Several runs may be under way at once, of the same batch too, and each  *)
(* may be killed at any point.  The operator moves a temporary file that a *)
(* killed run left behind before another run of that batch can start.      *)
(***************************************************************************)
EXTENDS Integers, Sequences, FiniteSets, SequencesExt

CONSTANTS
  Batches,    \* the values of --repeat-id
  Configs,    \* the rows of a batch: protocol, message count and payload size
  MaxRuns,    \* bound on the number of runs
  Attempts,   \* the values of --attempt-number
  Commits,    \* of the client's and of the server's worktree
  Mixed       \* the values --allow-mixed-commits may have

\* Of the constants; MC modules state them (ASSUME) for their instances.
BoundAssumption == MaxRuns \in Nat \ {0}
MixedAssumption == Mixed \subseteq BOOLEAN
BatchAssumption ==
  /\ IsFiniteSet(Batches) /\ IsFiniteSet(Configs) /\ Configs # {}
  /\ "none" \notin Commits

Runs == 1..MaxRuns

\* Stands for the absence of a file: a row that no run writes, so that it can
\* be compared with what files hold.
NoFile == <<[run |-> 0, repeat |-> 0, config |-> "none", valid |-> FALSE,
             client |-> "none", server |-> "none"]>>

VARIABLES
  (* The run directory. *)
  out,        \* cross_host_batch_rNN.csv of each batch: its rows, or NoFile
  tmp,        \* cross_host_batch_rNN.csv.tmp
  failed,     \* the _attemptNN.failed.csv of each batch and attempt
  conflicts,  \* of each batch: the rows in its .conflict-*.csv files
  moved,      \* what the operator moved out of the directory
  journal,    \* attempts.jsonl, as the events of each run
  agg_out, agg_tmp, \* the aggregator's output, and its temporary file
  (* The runs. *)
  pc, args, todo, exists,
  (* The aggregator. *)
  agg_pc, agg_rows, agg_errors

files == <<out, tmp, failed, conflicts, moved>>
aggregate == <<agg_out, agg_tmp, agg_pc, agg_rows, agg_errors>>
runs == <<pc, args, todo, exists>>
vars == <<files, journal, runs, aggregate>>

NoArgs == [batch |-> 0, attempt |-> 0, commit |-> "none", mixed |-> FALSE]

Init ==
  /\ out = [b \in Batches |-> NoFile] /\ tmp = [b \in Batches |-> NoFile]
  /\ failed = [b \in Batches |-> [a \in Attempts |-> NoFile]]
  /\ conflicts = [b \in Batches |-> {}] /\ moved = {}
  /\ journal = [r \in Runs |-> [start |-> FALSE, results |-> 0, end |-> FALSE]]
  /\ agg_out = NoFile /\ agg_tmp = NoFile
  /\ pc = [r \in Runs |-> "none"] /\ args = [r \in Runs |-> NoArgs]
  /\ todo = [r \in Runs |-> {}] /\ exists = [r \in Runs |-> FALSE]
  /\ agg_pc = "none" /\ agg_rows = <<>> /\ agg_errors = FALSE

Go(r, there) == pc' = [pc EXCEPT ![r] = there]
Batch(r) == args[r].batch

-----------------------------------------------------------------------------
(* A run *)

\* main, up to enforce_startup_output_guards.  Runs start in the order of
\* their numbers.
Start(r) ==
  /\ pc[r] = "none" /\ \A s \in Runs : s < r => pc[s] # "none"
  /\ \E b \in Batches, a \in Attempts, c \in Commits, m \in Mixed :
       /\ args' = [args EXCEPT ![r] =
                     [batch |-> b, attempt |-> a, commit |-> c, mixed |-> m]]
       /\ Go(r, IF out[b] # NoFile \/ tmp[b] # NoFile THEN "dead" ELSE "ready")
  /\ todo' = [todo EXCEPT ![r] = Configs]
  /\ UNCHANGED <<files, journal, exists, aggregate>>

\* write_journal("run_start").
JournalStart(r) ==
  /\ pc[r] = "ready"
  /\ journal' = [journal EXCEPT ![r].start = TRUE]
  /\ Go(r, "open")
  /\ UNCHANGED <<files, args, todo, exists, aggregate>>

\* Mutant: an existing file is opened for appending.
OpenTmpAppend(r) ==
  /\ pc[r] = "open"
  /\ tmp' = [tmp EXCEPT ![Batch(r)] = IF @ = NoFile THEN <<>> ELSE @]
  /\ Go(r, "rows")
  /\ UNCHANGED <<out, failed, conflicts, moved, journal, args, todo, exists,
                 aggregate>>

\* open(tmp_csv, "x") raises when the file exists.
OpenTmp(r) ==
  /\ pc[r] = "open"
  /\ IF tmp[Batch(r)] = NoFile
     THEN /\ tmp' = [tmp EXCEPT ![Batch(r)] = <<>>]
          /\ Go(r, "rows")
     ELSE Go(r, "dead") /\ UNCHANGED tmp
  /\ UNCHANGED <<out, failed, conflicts, moved, journal, args, todo, exists,
                 aggregate>>

\* One experiment, and its row, flushed.  The server, which may have been
\* restarted from another commit, says its own in the handshake; when that
\* fails the row is not valid, and lacks it.
WriteRow(r) ==
  /\ pc[r] = "rows" /\ todo[r] # {}
  /\ \E config \in todo[r], valid \in BOOLEAN, commit \in Commits :
       /\ config = CHOOSE c \in todo[r] : TRUE
       /\ tmp' = [tmp EXCEPT ![Batch(r)] = Append(@,
            [run |-> r, repeat |-> Batch(r), config |-> config, valid |-> valid,
             client |-> args[r].commit, server |-> IF valid THEN commit ELSE "none"])]
       /\ todo' = [todo EXCEPT ![r] = @ \ {config}]
  /\ Go(r, "journal")
  /\ UNCHANGED <<out, failed, conflicts, moved, journal, args, exists, aggregate>>

\* Mutant: only valid experiments get their event.
JournalValidRow(r) ==
  /\ pc[r] = "journal"
  /\ journal' = IF Last(tmp[Batch(r)]).valid
                THEN [journal EXCEPT ![r].results = @ + 1] ELSE journal
  /\ Go(r, "rows")
  /\ UNCHANGED <<files, args, todo, exists, aggregate>>

\* write_journal("experiment_result"), for every experiment.
JournalRow(r) ==
  /\ pc[r] = "journal"
  /\ journal' = [journal EXCEPT ![r].results = @ + 1]
  /\ Go(r, "rows")
  /\ UNCHANGED <<files, args, todo, exists, aggregate>>

\* write_journal("run_end").
JournalEnd(r) ==
  /\ pc[r] = "rows" /\ todo[r] = {}
  /\ journal' = [journal EXCEPT ![r].end = TRUE]
  /\ Go(r, "validate")
  /\ UNCHANGED <<files, args, todo, exists, aggregate>>

\* The checks of the formal mode.
RowsValid(r, rows) ==
  /\ Len(rows) = Cardinality(Configs)
  /\ \A i \in DOMAIN rows :
       rows[i].valid /\ (args[r].mixed \/ rows[i].client = rows[i].server)

Validate(r) ==
  /\ pc[r] = "validate"
  /\ Go(r, IF RowsValid(r, tmp[Batch(r)]) THEN "link" ELSE "preserve")
  /\ UNCHANGED <<files, journal, args, todo, exists, aggregate>>

\* Mutant: os.replace instead of os.link.
LinkReplacing(r) ==
  /\ pc[r] = "link"
  /\ out' = [out EXCEPT ![Batch(r)] = tmp[Batch(r)]]
  /\ Go(r, "unlink")
  /\ UNCHANGED <<tmp, failed, conflicts, moved, journal, args, todo, exists,
                 aggregate>>

\* publish_tmp_csv: os.link raises when the output exists ...
PublishLink(r) ==
  /\ pc[r] = "link"
  /\ IF out[Batch(r)] = NoFile
     THEN /\ out' = [out EXCEPT ![Batch(r)] = tmp[Batch(r)]]
          /\ Go(r, "unlink")
     ELSE Go(r, "dead") /\ UNCHANGED out
  /\ UNCHANGED <<tmp, failed, conflicts, moved, journal, args, todo, exists,
                 aggregate>>

\* ... and os.unlink.
PublishUnlink(r) ==
  /\ pc[r] = "unlink"
  /\ tmp' = [tmp EXCEPT ![Batch(r)] = NoFile]
  /\ Go(r, "dead")
  /\ UNCHANGED <<out, failed, conflicts, moved, journal, args, todo, exists,
                 aggregate>>

\* preserve_failed_artifact: does a failed artifact of this attempt exist?
PreserveCheck(r) ==
  /\ pc[r] = "preserve"
  /\ exists' = [exists EXCEPT ![r] = failed[Batch(r)][args[r].attempt] # NoFile]
  /\ Go(r, "rename")
  /\ UNCHANGED <<files, journal, args, todo, aggregate>>

\* Mutant: the artifact is renamed without regard to the check.
PreserveOver(r) ==
  /\ pc[r] = "rename"
  /\ failed' = [failed EXCEPT ![Batch(r)][args[r].attempt] = tmp[Batch(r)]]
  /\ tmp' = [tmp EXCEPT ![Batch(r)] = NoFile]
  /\ Go(r, "dead")
  /\ UNCHANGED <<out, conflicts, moved, journal, args, todo, exists, aggregate>>

\* rename, which replaces a file that has this name.
Preserve(r) ==
  /\ pc[r] = "rename"
  /\ IF exists[r]
     THEN /\ conflicts' = [conflicts EXCEPT ![Batch(r)] = @ \union {tmp[Batch(r)]}]
          /\ UNCHANGED failed
     ELSE /\ failed' = [failed EXCEPT ![Batch(r)][args[r].attempt] = tmp[Batch(r)]]
          /\ UNCHANGED conflicts
  /\ tmp' = [tmp EXCEPT ![Batch(r)] = NoFile]
  /\ Go(r, "dead")
  /\ UNCHANGED <<out, moved, journal, args, todo, exists, aggregate>>

\* The run is killed, or a write to the journal fails.
Kill(r) ==
  /\ pc[r] \notin {"none", "dead"}
  /\ Go(r, "dead")
  /\ UNCHANGED <<files, journal, args, todo, exists, aggregate>>

\* "Preserve or inspect it before starting a new run."
MoveTmp(b) ==
  /\ tmp[b] # NoFile
  /\ \A r \in Runs : pc[r] \notin {"none", "dead"} => Batch(r) # b
  /\ moved' = moved \union {tmp[b]}
  /\ tmp' = [tmp EXCEPT ![b] = NoFile]
  /\ UNCHANGED <<out, failed, conflicts, journal, runs, aggregate>>

-----------------------------------------------------------------------------
(* The aggregator *)

\* main: neither file may exist.
AggStart ==
  /\ agg_pc \in {"none", "dead"} /\ agg_out = NoFile /\ agg_tmp = NoFile
  /\ agg_pc' = "read"
  /\ UNCHANGED <<files, journal, runs, agg_out, agg_tmp, agg_rows, agg_errors>>

Published == {b \in Batches : out[b] # NoFile}

\* validate_batch.
BatchErrors(b, rows) ==
  \/ Len(rows) # Cardinality(Configs)
  \/ {rows[i].config : i \in DOMAIN rows} # Configs
  \/ \E i \in DOMAIN rows : rows[i].repeat # b \/ ~rows[i].valid

RowsOf(read) == UNION {{read[b][i] : i \in DOMAIN read[b]} : b \in DOMAIN read}

\* Mutant: the commits of the two ends are not compared.
AllErrorsClientOnly(read) ==
  \/ DOMAIN read # Batches
  \/ \E b \in DOMAIN read : BatchErrors(b, read[b])
  \/ Cardinality({row.client : row \in RowsOf(read)}) # 1

\* validate_all.  A conflict file has the prefix of a batch's, and another
\* ending than a failed artifact's: it is counted, and its name not parsed.
AllErrors(read) ==
  \/ \E b \in Batches : conflicts[b] # {}
  \/ DOMAIN read # Batches
  \/ \E b \in DOMAIN read : BatchErrors(b, read[b])
  \/ Cardinality({row.client : row \in RowsOf(read)}) # 1
  \/ {row.client : row \in RowsOf(read)} # {row.server : row \in RowsOf(read)}

AggRead ==
  /\ agg_pc = "read"
  /\ LET read == [b \in Published |-> out[b]]
     IN  /\ agg_rows' = SetToSeq(RowsOf(read))
         /\ agg_errors' = AllErrors(read)
         /\ agg_pc' = IF AllErrors(read) THEN "dead" ELSE "write"
  /\ UNCHANGED <<files, journal, runs, agg_out, agg_tmp>>

\* open("x"), fsync.
AggWrite ==
  /\ agg_pc = "write"
  /\ agg_tmp' = agg_rows
  /\ agg_pc' = "link"
  /\ UNCHANGED <<files, journal, runs, agg_out, agg_rows, agg_errors>>

AggLink ==
  /\ agg_pc = "link"
  /\ agg_out' = agg_tmp
  /\ agg_pc' = "unlink"
  /\ UNCHANGED <<files, journal, runs, agg_tmp, agg_rows, agg_errors>>

AggUnlink ==
  /\ agg_pc = "unlink"
  /\ agg_tmp' = NoFile
  /\ agg_pc' = "done"
  /\ UNCHANGED <<files, journal, runs, agg_out, agg_rows, agg_errors>>

AggKill ==
  /\ agg_pc \notin {"none", "dead", "done"}
  /\ agg_pc' = "dead" /\ agg_errors' = FALSE
  /\ agg_tmp' \in {agg_tmp, IF agg_pc = "write" THEN <<>> ELSE agg_tmp}
  /\ UNCHANGED <<files, journal, runs, agg_out, agg_rows>>

-----------------------------------------------------------------------------
(* validate_cross_host_artifact.py, of the aggregate *)

\* Mutant: the key of a row lacks its repeat.
DuplicatesAnyRepeat(file) ==
  \E i, j \in DOMAIN file : i < j /\ file[i].config = file[j].config

\* No two rows have one key.
Duplicates(file) ==
  \E i, j \in DOMAIN file : i < j /\ file[i].config = file[j].config
                           /\ file[i].repeat = file[j].repeat

\* main.  It asks for the server's commit, and does not compare commits.
Validated(file) ==
  /\ Len(file) = Cardinality(Batches \X Configs)
  /\ ~Duplicates(file)
  /\ {file[i].config : i \in DOMAIN file} = Configs
  /\ Batches \subseteq {file[i].repeat : i \in DOMAIN file}
  /\ \A i \in DOMAIN file : file[i].valid /\ file[i].server # "none"

-----------------------------------------------------------------------------

RunStep(r) ==
  \/ Start(r) \/ JournalStart(r) \/ OpenTmp(r) \/ WriteRow(r) \/ JournalRow(r)
  \/ JournalEnd(r) \/ Validate(r) \/ PublishLink(r) \/ PublishUnlink(r)
  \/ PreserveCheck(r) \/ Preserve(r) \/ Kill(r)
Aggregate == AggStart \/ AggRead \/ AggWrite \/ AggLink \/ AggUnlink \/ AggKill

Next == (\E r \in Runs : RunStep(r)) \/ (\E b \in Batches : MoveTmp(b)) \/ Aggregate

Spec == Init /\ [][Next]_vars

-----------------------------------------------------------------------------
(* Properties *)

IsFile(f) == f # NoFile
RowsOfFile(f) == {f[i] : i \in DOMAIN f}

\* TypeOK: files hold sequences of rows of their own batch.
TypeOK ==
  /\ \A b \in Batches : \A f \in {out[b], tmp[b]} :
       IsFile(f) => \A row \in RowsOfFile(f) : row.repeat = b /\ row.run \in Runs
  /\ \A r \in Runs : todo[r] \subseteq Configs
  /\ \A r \in Runs : journal[r].results \in 0..Cardinality(Configs)
  /\ agg_errors \in BOOLEAN

\* PublishedBatchIsWhole: a published batch is the work of one run, with one
\* valid row of every configuration, however many runs of it there were, at the
\* same time or one after another was killed.
PublishedBatchIsWhole ==
  \A b \in Batches :
    IsFile(out[b]) =>
      /\ Cardinality({row.run : row \in RowsOfFile(out[b])}) = 1
      /\ {row.config : row \in RowsOfFile(out[b])} = Configs
      /\ Len(out[b]) = Cardinality(Configs)
      /\ \A row \in RowsOfFile(out[b]) : row.valid

\* JournalKeepsUp: at any time, so after a kill too, the journal has an event
\* for every row of a run in a temporary file, the last one perhaps excepted;
\* a published batch's run is in it from start to end.
JournalKeepsUp ==
  /\ \A b \in Batches : IsFile(tmp[b]) => \A row \in RowsOfFile(tmp[b]) :
       Cardinality({other \in RowsOfFile(tmp[b]) : other.run = row.run})
         - journal[row.run].results \in {0, 1}
  /\ \A b \in Batches : IsFile(out[b]) => \A row \in RowsOfFile(out[b]) :
       /\ journal[row.run].start /\ journal[row.run].end
       /\ journal[row.run].results = Cardinality(Configs)

\* OutputsImmutable: a published batch is never replaced, though the guard that
\* looks for it comes long before the publication.
OutputsImmutable == \A b \in Batches : IsFile(out[b]) => out'[b] = out[b]

\* NothingLost: a temporary file only disappears into a file that is kept, and
\* no failed artifact is replaced, though one looks for it before the rename.
NothingLost ==
  /\ \A b \in Batches : IsFile(tmp[b]) /\ ~IsFile(tmp'[b]) =>
       tmp[b] \in {out'[b]} \union {failed'[b][a] : a \in Attempts}
                  \union conflicts'[b] \union moved'
  /\ \A b \in Batches, a \in Attempts :
       IsFile(failed[b][a]) => failed'[b][a] = failed[b][a]

\* AggregateIsUniform: the aggregate has one valid row of every configuration
\* in every batch, and one commit at both ends, though each batch was only
\* compared with itself, and with --allow-mixed-commits not even that.
AggregateIsUniform ==
  IsFile(agg_out) =>
    LET rows == RowsOfFile(agg_out) IN
      /\ {<<row.repeat, row.config>> : row \in rows} = Batches \X Configs
      /\ Len(agg_out) = Cardinality(Batches \X Configs)
      /\ \A row \in rows : row.valid
      /\ Cardinality({row.client : row \in rows}
                     \union {row.server : row \in rows}) = 1

\* AggregateValidates: an aggregate that is published passes the validation of
\* the artifact, whose checks are written down a second time there.
AggregateValidates == IsFile(agg_out) => Validated(agg_out)

=============================================================================
