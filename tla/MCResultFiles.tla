---------------------------- MODULE MCResultFiles ----------------------------
(***************************************************************************)
(* What the programs leave on disk, and what they find there: a behaviour  *)
(* is one of the program that `program` names, with the parameters given   *)
(* here, run several times over, at once or one after the other, with      *)
(* crashes and interrupts.  pc and v1, v2, ... stand for that program's    *)
(* variables, in the order its module declares them.                       *)
(***************************************************************************)
EXTENDS Integers, Sequences, TLC

CONSTANTS None, Old

Runners   == {"r1", "r2"}
Protocols == <<"gmcp_r">>
Points    == <<1, 2>>
Types     == <<"client_close", "server_close">>

(* The arguments of run_recovery_validation.py. *)

Plain ==
  [server_only |-> FALSE, mode |-> "quick", protocols |-> None, points |-> None,
   types |-> None, repeats |-> None, message_count |-> 3, payload_size |-> 1,
   dir |-> "usable", attempt |-> 1, no_overwrite |-> FALSE, dirty |-> FALSE,
   port |-> "any"]

\* Two runners of one directory and port, whatever their mode.
SharedArgs ==
  [Runners ->
     {[Plain EXCEPT !.mode = m, !.no_overwrite = n, !.port = "shared"] :
        m \in {"quick", "development"}, n \in BOOLEAN}]

\* One runner and every argument; the port is held by a server or free.
Lists(default) ==
  {None, <<>>, <<Head(default)>>, default, <<Head(default), Head(default)>>}
Matrices ==
  {[Plain EXCEPT !.mode = m, !.protocols = ps, !.points = ds, !.repeats = n,
                 !.message_count = c, !.port = "shared"] :
     m \in {"quick", "development", "formal"},
     ps \in Lists(Protocols) \union {<<"other">>},
     ds \in Lists(Points) \union {<<0>>, <<3>>},
     n \in {None, 0, 1, 2}, c \in {0, 2, 3}}
Others ==
  {[Plain EXCEPT !.dir = d, !.attempt = n, !.dirty = y, !.types = t] :
     d \in {"usable", "relative", "in_git", "unwritable"},
     n \in {0, 1, 3, 4}, y \in BOOLEAN, t \in {None, <<>>, <<"other">>}}
AllArgs ==
  {"r1" :> [Plain EXCEPT !.server_only = TRUE, !.port = p] @@ "r2" :> a :
     p \in {"shared", "any"}, a \in Matrices \union Others}

\* The repeat that the name of a file in the aggregator's directory stands for.
RepeatIds == "r1" :> 1 @@ "r01" :> 1 @@ "r2" :> 2 @@ "r3" :> 3 @@ "rx" :> None
               @@ "r1.failed" :> None

VARIABLES program, pc, v1, v2, v3, v4, v5, v6, v7, v8, v9, v10, v11, v12, v13,
          v14, v15

\* run_cross_host_validation.py --formal-batch, aggregate_cross_host_batches.py
Batches(mixed) == INSTANCE CrossHostBatches
  WITH Batches <- IF mixed THEN {1, 2} ELSE {1},
       Configs <- IF mixed THEN {"a"} ELSE {"a", "b"},
       MaxRuns <- IF mixed THEN 2 ELSE 3, Attempts <- {1},
       Commits <- IF mixed THEN {"x", "y"} ELSE {"x"}, Mixed <- {mixed},
       out <- v1, tmp <- v2, failed <- v3, conflicts <- v4, moved <- v5,
       journal <- v6, agg_out <- v7, agg_tmp <- v8, args <- v9, todo <- v10,
       exists <- v11, agg_pc <- v12, agg_rows <- v13, agg_errors <- v14

\* run_netem_validation.py
Netem(overlap) == INSTANCE NetemValidation
  WITH Conditions <- <<"mild", "control">>, RunsPer <- 1, Messages <- 1,
       MaxRunners <- 2, Overlap <- overlap,
       MaxFaults <- IF overlap THEN 1 ELSE 2,
       MaxStops <- IF overlap THEN 1 ELSE 2, qdisc <- v1, tmp <- v2,
       final <- v3, cond <- v4, cell <- v5, snap <- v6, raising <- v7,
       ret <- v8, result <- v9, exec_failure <- v10, reported <- v11,
       faults <- v12, stops <- v13

\* run_recovery_validation.py: its files, its port, its arguments
Publication(all) == INSTANCE RecoveryPublication
  WITH Runners <- Runners, None <- None, Old <- Old,
       Invocations <- IF all THEN AllArgs ELSE SharedArgs,
       PROTOCOLS <- Protocols, DISCONNECT_POINTS <- Points,
       DISCONNECT_TYPES <- IF all THEN Types ELSE <<Head(Types)>>,
       REPEAT_COUNT <- 1, FIXED_MESSAGE_COUNT <- 3, FIXED_PAYLOAD_SIZE <- 1,
       Leftovers <- ~all, MaxCrashes <- IF all THEN 0 ELSE 1,
       MaxInterrupts <- IF all THEN 0 ELSE 1, args <- v1, code <- v2,
       final <- v3, tmp <- v4, failed <- v5, conflicts <- v6, rows <- v7,
       server <- v8, crashes <- v9, interrupts <- v10

\* aggregate_recovery_batches.py
Aggregate(aggregators, edits) == INSTANCE RecoveryAggregate
  WITH Aggregators <- aggregators, RepeatCount <- 2, Configs <- {"a", "b"},
       OtherConfigs <- {"x"}, FileNames <- DOMAIN RepeatIds,
       RepeatIdOf <- RepeatIds, FailedName <- {"r1.failed"},
       GoodName <- <<"r1", "r2">>, Commits <- {"c", "d"}, None <- None,
       MaxEdits <- edits, MaxInterrupts <- 1, dir <- v1, edits <- v2,
       interrupts <- v3, all_rows <- v4, tmp <- v5, output <- v6

\* rerun_failed_real_recovery.py
Rerun == INSTANCE Reruns
  WITH RowCount <- 3, MaxRuns <- 3, Attempts <- 0..2, original <- v1,
       file <- v2, runs <- v3, attempts <- v4, dry_run <- v5, rows <- v6,
       failed_indexes <- v7, made <- v8

\* checkpoint_manager.py
Store(intervals) == INSTANCE CheckpointStore
  WITH Intervals <- intervals, Width <- 2, MaxSeq <- 10, MaxCrashes <- 2,
       run <- v1, up <- v2, loaded <- v3, interval <- v4, seq <- v5,
       checkpoints <- v6, checkpoint_count <- v7, last_checkpoint_seq <- v8,
       replay_count <- v9, saving <- v10, disk <- v11, recovery <- v12

-----------------------------------------------------------------------------
(* What a program does not use keeps its first value. *)

Idle(v) == v = "unused"
IdleFrom15 == Idle(v15)
From15 == <<v15>>
IdleFrom14 == Idle(v14) /\ IdleFrom15
From14 == <<v14, From15>>
IdleFrom13 == Idle(v13) /\ IdleFrom14
From13 == <<v13, From14>>
IdleFrom11 == Idle(v11) /\ Idle(v12) /\ IdleFrom13
From11 == <<v11, v12, From13>>
IdleFrom9 == Idle(v9) /\ Idle(v10) /\ IdleFrom11
From9 == <<v9, v10, From11>>
IdleFrom7 == Idle(v7) /\ Idle(v8) /\ IdleFrom9
From7 == <<v7, v8, From9>>

vars == <<program, pc, v1, v2, v3, v4, v5, v6, v7, v8, v9, v10, v11, v12, v13,
           v14, v15>>

Init ==
  \/ /\ program = "batches" /\ Batches(FALSE)!Init /\ IdleFrom15
  \/ /\ program = "batches_mixed" /\ Batches(TRUE)!Init /\ IdleFrom15
  \/ /\ program = "netem" /\ Netem(FALSE)!Init /\ IdleFrom14
  \/ /\ program = "netem_overlap" /\ Netem(TRUE)!Init /\ IdleFrom14
  \/ /\ program = "publication" /\ Publication(FALSE)!Init /\ IdleFrom11
  \/ /\ program = "publication_args" /\ Publication(TRUE)!Init /\ IdleFrom11
  \/ /\ program = "aggregate" /\ Aggregate({"g1"}, 2)!Init /\ IdleFrom7
  \/ /\ program = "aggregate_race" /\ Aggregate({"g1", "g2", "g3"}, 1)!Init
     /\ IdleFrom7
  \/ /\ program = "rerun" /\ Rerun!Init /\ IdleFrom9
  \/ /\ program = "store" /\ Store({3, 5})!Init /\ Idle(pc) /\ IdleFrom13
  \/ /\ program = "store_reused" /\ Store({2})!Init /\ Idle(pc) /\ IdleFrom13

Next ==
  \/ /\ program = "batches" /\ Batches(FALSE)!Next
     /\ UNCHANGED <<program, From15>>
  \/ /\ program = "batches_mixed" /\ Batches(TRUE)!Next
     /\ UNCHANGED <<program, From15>>
  \/ /\ program = "netem" /\ Netem(FALSE)!Next
     /\ UNCHANGED <<program, From14>>
  \/ /\ program = "netem_overlap" /\ Netem(TRUE)!Next
     /\ UNCHANGED <<program, From14>>
  \/ /\ program = "publication" /\ Publication(FALSE)!Next
     /\ UNCHANGED <<program, From11>>
  \/ /\ program = "publication_args" /\ Publication(TRUE)!Next
     /\ UNCHANGED <<program, From11>>
  \/ /\ program = "aggregate" /\ Aggregate({"g1"}, 2)!Next
     /\ UNCHANGED <<program, From7>>
  \/ /\ program = "aggregate_race" /\ Aggregate({"g1", "g2", "g3"}, 1)!Next
     /\ UNCHANGED <<program, From7>>
  \/ /\ program = "rerun" /\ Rerun!Next /\ UNCHANGED <<program, From9>>
  \/ /\ program = "store" /\ Store({3, 5})!Next
     /\ UNCHANGED <<program, pc, From13>>
  \/ /\ program = "store_reused" /\ Store({2})!Next
     /\ UNCHANGED <<program, pc, From13>>

Spec == Init /\ [][Next]_vars

ASSUME \A mixed \in BOOLEAN :
         /\ Batches(mixed)!BoundAssumption /\ Batches(mixed)!MixedAssumption
         /\ Batches(mixed)!BatchAssumption
ASSUME \A overlap \in BOOLEAN :
         /\ Netem(overlap)!BoundAssumption /\ Netem(overlap)!ConditionAssumption
         /\ Netem(overlap)!OverlapAssumption
ASSUME \A all \in BOOLEAN :
         Publication(all)!PublicationAssumption /\ Publication(all)!ArgumentsAssumption
ASSUME \A n \in {1, 2} : Aggregate({"g1", "g2", "g3"}, n)!AggregateAssumption
ASSUME Rerun!RerunsAssumption
ASSUME \A intervals \in {{3, 5}, {2}} : Store(intervals)!StoreAssumption

-----------------------------------------------------------------------------
(* Properties. *)

Runs(name, P) == program = name => P

\* TypesOK: each program's variables stay in their domains; the checkpoint
\* manager's counters count what it holds.
TypesOK ==
  /\ Runs("batches", Batches(FALSE)!TypeOK)
  /\ Runs("batches_mixed", Batches(TRUE)!TypeOK)
  /\ Runs("netem", Netem(FALSE)!TypeOK)
  /\ Runs("netem_overlap", Netem(TRUE)!TypeOK)
  /\ Runs("publication", Publication(FALSE)!TypeOK)
  /\ Runs("publication_args", Publication(TRUE)!TypeOK)
  /\ Runs("aggregate", Aggregate({"g1"}, 2)!TypeOK)
  /\ Runs("aggregate_race", Aggregate({"g1", "g2", "g3"}, 1)!TypeOK)
  /\ Runs("rerun", Rerun!TypeOK)
  /\ Runs("store", Store({3, 5})!TypeOK)
  /\ Runs("store_reused", Store({2})!TypeOK)

\* FilesAreWhole: what stands under a final name is whole and of one origin: a
\* batch, an artifact, a matrix or an aggregate of one run, each row there
\* once and valid; a checkpoint that some run completed.  What a killed run
\* left behind, and what several runs do at once, never gets into it, and what
\* was written is still there under some name.
FilesAreWhole ==
  /\ Runs("batches", Batches(FALSE)!PublishedBatchIsWhole)
  /\ Runs("batches", Batches(FALSE)!JournalKeepsUp)
  /\ Runs("batches_mixed", /\ Batches(TRUE)!AggregateIsUniform
                            /\ Batches(TRUE)!AggregateValidates)
  /\ Runs("netem_overlap", Netem(TRUE)!PublishedIsArtifact)
  /\ Runs("publication", /\ Publication(FALSE)!FinalIsWhole
                         /\ Publication(FALSE)!SuccessIsPublished
                         /\ Publication(FALSE)!NothingLost)
  /\ Runs("publication_args", Publication(TRUE)!AcceptedRunsPublish)
  /\ Runs("aggregate", /\ Aggregate({"g1"}, 2)!AggregateIsUniform
                       /\ Aggregate({"g1"}, 2)!ConfigsAreBalanced)
  /\ Runs("aggregate_race", Aggregate({"g1", "g2", "g3"}, 1)!OutputIsWritten)
  /\ Runs("rerun", Rerun!PassingRowsStay /\ Rerun!TriedEnough)
  /\ Runs("store", /\ Store({3, 5})!Durable /\ Store({3, 5})!LoadedIsWhole
                   /\ Store({3, 5})!LatestIsNewest)

\* FilesStay: a published file or a failed artifact is never replaced by
\* another, whoever races for its name, and rows leave a temporary file only
\* for a name that is kept.
FilesStay ==
  [][/\ program = "batches" =>
          Batches(FALSE)!OutputsImmutable /\ Batches(FALSE)!NothingLost
     /\ program = "netem" => Netem(FALSE)!KeepsRows
     /\ program = "netem_overlap" => Netem(TRUE)!FinalImmutable
     /\ program = "publication" =>
          Publication(FALSE)!FinalImmutable /\ Publication(FALSE)!ArtifactsStay
     /\ program = "aggregate_race" =>
          Aggregate({"g1", "g2", "g3"}, 1)!OutputIsFinal
     /\ program = "rerun" => Rerun!RowsOnlyLostInWriting]_vars

\* LeftClean: a program that has come to its end leaves nothing behind: no
\* rules on the interface, unless it says so, whatever tc command failed and
\* wherever it was interrupted, and no server that listens on the port.
LeftClean ==
  /\ Runs("netem", Netem(FALSE)!LeftClean)
  /\ Runs("publication", Publication(FALSE)!ServerStopped)
  /\ Runs("publication_args", Publication(TRUE)!ServerStopped)

\* RecoveryFits: a recovery starts from the nearest checkpoint of the run's
\* own history and replays just the messages between the two, also if an
\* earlier run of the session left its checkpoints on disk.
RecoveryFits ==
  [][/\ program = "store" => Store({3, 5})!NearestCheckpoint
     /\ program = "store_reused" => Store({2})!RecoveryIsThisRun]_vars

=============================================================================
