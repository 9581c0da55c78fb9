--------------------------- MODULE CheckpointStore ---------------------------
(***************************************************************************)
(* gmcp/checkpoint_manager.py: the checkpoints of one session, in memory   *)
(* and in one file each, through crashes of the process that keeps them.   *)
(* A process that starts again builds a new manager over the same          *)
(* directory; it may load what it finds there before its first message.    *)
(* Nothing in the repository does, the servers included: the model calls   *)
(* load_checkpoints_from_disk where the class offers it.                   *)
(*                                                                         *)
(* A memory is named by the run of the process and the number it belongs   *)
(* to.  Every file is the session's own, so that its signature, session    *)
(* and epoch fit unless writing it was cut short.                          *)
(***************************************************************************)
EXTENDS Integers, Sequences, SequencesExt, FiniteSetsExt

CONSTANTS
  Intervals,     \* the checkpoint_interval a run may be given
  Width,         \* file names pad the number to this many digits (6)
  MaxSeq,        \* bound: messages of a run
  MaxCrashes     \* bound: crashes of the process

\* Of the constants; MC modules state them (ASSUME) for their instances.
StoreAssumption ==
  /\ Intervals \subseteq Nat \ {0} /\ Width \in Nat \ {0}
  /\ MaxSeq \in Nat /\ MaxCrashes \in Nat

VARIABLES
  run,               \* how often the process has crashed
  up, loaded,        \* whether it runs, whether it has loaded the files
  interval, seq,     \* of this run
  checkpoints, checkpoint_count, last_checkpoint_seq, replay_count,
  saving,            \* the checkpoint whose file is being written, or 0
  disk,              \* number -> the file of that number
  recovery           \* what the last recovery session found

manager == <<interval, checkpoints, checkpoint_count, last_checkpoint_seq,
             replay_count>>
vars == <<run, up, loaded, seq, manager, saving, disk, recovery>>

NoRecovery == [ok |-> FALSE, target |-> 0, seq |-> 0, memory |-> <<>>, replay_count |-> 0]

Memory(r, s) == <<r, s>>

\* CheckpointManager.__init__: the directory is kept as it is.
Fresh ==
  /\ interval' \in Intervals
  /\ checkpoints' = <<>> /\ checkpoint_count' = 0
  /\ last_checkpoint_seq' = 0 /\ replay_count' = 0

Init ==
  /\ run = 0 /\ up = TRUE /\ loaded = FALSE /\ seq = 0
  /\ interval \in Intervals
  /\ checkpoints = <<>> /\ checkpoint_count = 0
  /\ last_checkpoint_seq = 0 /\ replay_count = 0
  /\ saving = 0 /\ disk = <<>> /\ recovery = NoRecovery

-----------------------------------------------------------------------------
(* Creating checkpoints. *)

should_checkpoint(s) == s > 0 /\ s % interval = 0

\* A message that is not due for a checkpoint.
Message ==
  /\ up /\ saving = 0 /\ seq < MaxSeq /\ ~should_checkpoint(seq + 1)
  /\ seq' = seq + 1
  /\ UNCHANGED <<run, up, loaded, manager, saving, disk, recovery>>

\* create_checkpoint appends it to the list and opens its file, which is
\* empty from then on; _save_checkpoint_to_disk fills it.
create_checkpoint ==
  /\ up /\ saving = 0 /\ seq < MaxSeq /\ should_checkpoint(seq + 1)
  /\ seq' = seq + 1
  /\ checkpoints' = Append(checkpoints,
                           [seq |-> seq + 1, memory |-> Memory(run, seq + 1)])
  /\ checkpoint_count' = checkpoint_count + 1
  /\ last_checkpoint_seq' = seq + 1
  /\ saving' = seq + 1
  /\ disk' = [f \in DOMAIN disk \union {seq + 1} |->
                IF f = seq + 1 THEN [whole |-> FALSE, memory |-> <<>>] ELSE disk[f]]
  /\ UNCHANGED <<run, up, loaded, interval, replay_count, recovery>>

\* Mutant: every file of the session is written to the first one's name.
SavedOver ==
  /\ up /\ saving # 0
  /\ disk' = [disk EXCEPT ![saving] = [whole |-> TRUE,
                                       memory |-> Head(checkpoints).memory]]
  /\ saving' = 0
  /\ UNCHANGED <<run, up, loaded, seq, manager, recovery>>
Saved ==
  /\ up /\ saving # 0
  /\ disk' = [disk EXCEPT ![saving] = [whole |-> TRUE,
                                       memory |-> Last(checkpoints).memory]]
  /\ saving' = 0
  /\ UNCHANGED <<run, up, loaded, seq, manager, recovery>>

\* What was being written stays as it is, all of the memory is lost.
Crash ==
  /\ up /\ run < MaxCrashes
  /\ up' = FALSE /\ saving' = 0 /\ run' = run + 1
  /\ UNCHANGED <<loaded, seq, manager, disk, recovery>>

Restart ==
  /\ ~up
  /\ up' = TRUE /\ loaded' = FALSE /\ seq' = 0
  /\ Fresh
  /\ recovery' = NoRecovery
  /\ UNCHANGED <<run, saving, disk>>

-----------------------------------------------------------------------------
(* Loading: the directory's names in their order. *)

Digits[s \in Nat] == IF s < 10 THEN <<s>> ELSE Append(Digits[s \div 10], s % 10)

Name(s) == LET d == Digits[s]
           IN IF Len(d) >= Width THEN d ELSE [i \in 1..(Width - Len(d)) |-> 0] \o d

\* The point after the number sorts before every digit.
NameBefore(a, b) ==
  LET x == Name(a) y == Name(b)
  IN \/ IsStrictPrefix(x, y)
     \/ \E i \in DOMAIN x \intersect DOMAIN y :
          x[i] < y[i] /\ \A j \in 1..(i - 1) : x[j] = y[j]

Readable(f) == f \in DOMAIN disk /\ disk[f].whole

\* A name's place in the listing: the names that come before it, and itself.
Place(f, files) == Cardinality({g \in files : g = f \/ NameBefore(g, f)})
Sorted(files) ==
  [i \in 1..Cardinality(files) |-> CHOOSE f \in files : Place(f, files) = i]

\* Mutant: last_checkpoint_seq is the number of the last name.
load_checkpointsLastName ==
  /\ up /\ seq = 0 /\ ~loaded
  /\ loaded' = TRUE
  /\ LET names == Sorted({f \in DOMAIN disk : Readable(f)})
         found == [i \in DOMAIN names |->
                     [seq |-> names[i], memory |-> disk[names[i]].memory]]
     IN /\ checkpoints' = Reverse(found)
        /\ checkpoint_count' = checkpoint_count + Len(found)
        /\ last_checkpoint_seq' = IF found = <<>> THEN 0 ELSE Last(found).seq
  /\ UNCHANGED <<run, up, seq, interval, replay_count, saving, disk, recovery>>
\* Mutant: the files found before are counted once more.
load_checkpointsTwice ==
  /\ up /\ seq = 0 /\ ~loaded
  /\ loaded' = TRUE
  /\ LET names == Sorted({f \in DOMAIN disk : Readable(f)})
     IN /\ checkpoints' = [i \in DOMAIN names |->
                     [seq |-> names[i], memory |-> disk[names[i]].memory]]
        /\ checkpoint_count' = checkpoint_count + Cardinality(DOMAIN disk)
        /\ last_checkpoint_seq' = Max({last_checkpoint_seq} \union ToSet(names))
  /\ UNCHANGED <<run, up, seq, interval, replay_count, saving, disk, recovery>>
load_checkpoints_from_disk ==
  /\ up /\ seq = 0 /\ ~loaded
  /\ loaded' = TRUE
  /\ LET names == Sorted({f \in DOMAIN disk : Readable(f)})
         found == [i \in DOMAIN names |->
                     [seq |-> names[i], memory |-> disk[names[i]].memory]]
     IN /\ checkpoints' = checkpoints \o found
        /\ checkpoint_count' = checkpoint_count + Len(found)
        /\ last_checkpoint_seq' = Max({last_checkpoint_seq} \union ToSet(names))
  /\ UNCHANGED <<run, up, seq, interval, replay_count, saving, disk, recovery>>

-----------------------------------------------------------------------------
(* Recovering. *)

get_latest_checkpoint == Last(checkpoints)

\* Mutant: the list is searched from its start.
get_checkpoint_for_seqFirst(target) ==
  SelectInSeq(checkpoints, LAMBDA c : c.seq <= target)
\* The place of the last one in the list that is not after target, or 0.
get_checkpoint_for_seq(target) ==
  SelectLastInSeq(checkpoints, LAMBDA c : c.seq <= target)

\* A loaded session may be recovered up to its last checkpoint, a running one
\* up to its last message.
Targets == 0..(IF seq = 0 THEN last_checkpoint_seq ELSE seq)

\* CheckpointRecoverySession.start_recovery: without a checkpoint the replay
\* would be the whole history, and the recovery is refused (unless there is
\* nothing to recover).  The manager adds up what it had replayed.
start_recovery ==
  /\ up /\ saving = 0
  /\ \E target \in Targets :
       LET n == get_checkpoint_for_seq(target)
           found == checkpoints[n]
           replay == target - found.seq
       IN IF n = 0
          THEN /\ recovery' = [NoRecovery EXCEPT !.ok = (target = 0),
                                 !.target = target, !.replay_count = target]
               /\ UNCHANGED replay_count
          ELSE /\ recovery' = [ok |-> TRUE, target |-> target,
                               seq |-> found.seq, memory |-> found.memory,
                               replay_count |-> replay]
               /\ replay_count' = IF replay_count + replay > MaxSeq
                                  THEN replay_count ELSE replay_count + replay
  /\ UNCHANGED <<run, up, loaded, seq, interval, checkpoints, checkpoint_count,
                 last_checkpoint_seq, saving, disk>>

Next == Message \/ create_checkpoint \/ Saved \/ Crash \/ Restart
          \/ load_checkpoints_from_disk \/ start_recovery
Spec == Init /\ [][Next]_vars

-----------------------------------------------------------------------------
(* Properties. *)

Stored == Range(checkpoints)

\* TypeOK: the statistics count what the manager holds.
TypeOK ==
  /\ run \in 0..MaxCrashes /\ seq \in 0..MaxSeq /\ saving \in 0..MaxSeq
  /\ checkpoint_count = Len(checkpoints)
  /\ last_checkpoint_seq \in 0..MaxSeq
  /\ checkpoints # <<>> =>
       last_checkpoint_seq \in {c.seq : c \in Stored}

\* Durable: what this run has checkpointed is on disk with its own memory as
\* soon as the next message may come; a crash leaves at most one file that
\* cannot be read.
Durable ==
  /\ \A c \in Stored :
       c.memory[1] = run /\ saving = 0 =>
         Readable(c.seq) /\ disk[c.seq].memory = c.memory
  /\ Cardinality({f \in DOMAIN disk : ~disk[f].whole})
       <= run + (IF saving # 0 THEN 1 ELSE 0)

\* LoadedIsWhole: a checkpoint that was loaded is one some run completed, and
\* belongs to the number of its file.
LoadedIsWhole ==
  \A c \in Stored : \E r \in 0..run : c.memory = Memory(r, c.seq)

\* NearestCheckpoint: a recovery starts from a stored checkpoint not after its
\* target, no other one of the same run lies between the two, and it replays
\* the messages between them.
NearestCheckpoint ==
  recovery' # recovery /\ recovery'.ok /\ recovery'.seq > 0 =>
    /\ recovery'.seq + recovery'.replay_count = recovery'.target
    /\ \A c \in Stored : c.memory[1] = recovery'.memory[1] =>
         c.seq \notin (recovery'.seq + 1)..recovery'.target

\* LatestIsNewest: get_latest_checkpoint returns the newest checkpoint.
LatestIsNewest ==
  up /\ loaded /\ seq = 0 /\ checkpoints # <<>> =>
    get_latest_checkpoint.seq = last_checkpoint_seq

\* RecoveryIsThisRun: once it has processed messages, a recovery starts from a
\* memory of this run and not from one an earlier run left on disk, as long as
\* all runs of the session have the same interval.
RecoveryIsThisRun ==
  recovery' # recovery /\ seq > 0 /\ up' /\ recovery'.ok /\ recovery'.seq > 0
    => recovery'.memory[1] = run
=============================================================================
