------------------------- MODULE RecoveryAggregate -------------------------
(***************************************************************************)
(* aggregate_recovery_batches.py: one file per repeat is read, judged and  *)
(* merged into one output that is published under a name that is never     *)
(* overwritten.  Several aggregators may work towards the same output.     *)
(*                                                                         *)
(* The batch files are written elsewhere (no runner of the repository uses *)
(* their names): Edit changes one thing in a directory of good batches.    *)
(* The fields a row is judged by alone (V06 to V12, V17 to V20) are one    *)
(* flag, sound; what relates rows to each other is kept apart.             *)
(***************************************************************************)
EXTENDS Integers, Sequences, SequencesExt, FiniteSetsExt

CONSTANTS
  Aggregators,       \* the processes
  RepeatCount,       \* --repeat-count
  Configs,           \* protocol, disconnect point and type: the expected ones
  OtherConfigs,      \* and others a row may name
  FileNames,         \* what recovery_batch_r*.csv may match
  RepeatIdOf,        \* file name -> the number in it, or None
  FailedName,        \* the names that end with .failed.csv
  GoodName,          \* repeat -> the name of its batch
  Commits,           \* the client commits rows may carry
  None,
  MaxEdits, MaxInterrupts   \* bounds

\* Of the constants; MC modules state them (ASSUME) for their instances.
AggregateAssumption ==
  /\ RepeatCount \in Nat \ {0} /\ IsFiniteSet(Configs) /\ Configs # {}
  /\ Configs \cap OtherConfigs = {} /\ Commits # {} /\ None \notin Aggregators
  /\ GoodName \in [1..RepeatCount -> FileNames]
  /\ DOMAIN RepeatIdOf = FileNames /\ FailedName \subseteq FileNames
  /\ MaxEdits \in Nat /\ MaxInterrupts \in Nat

ROWS_PER_BATCH == Cardinality(Configs)

VARIABLES
  dir,               \* file name -> its rows
  edits, interrupts,
  pc, all_rows,      \* of each aggregator
  tmp, output        \* the aggregator whose file has the name, or None

vars == <<dir, edits, interrupts, pc, all_rows, tmp, output>>

Row(k, c) ==
  [repeat |-> k, config |-> c, sound |-> TRUE, commit |-> CHOOSE x \in Commits : TRUE,
   session |-> <<k, c>>]

GoodBatch(k) == LET s == SetToSeq(Configs) IN [i \in DOMAIN s |-> Row(k, s[i])]

Init ==
  /\ dir = [f \in {GoodName[k] : k \in 1..RepeatCount} |->
              GoodBatch(CHOOSE k \in 1..RepeatCount : GoodName[k] = f)]
  /\ edits = 0 /\ interrupts = 0
  /\ pc = [a \in Aggregators |-> "start"] /\ all_rows = [a \in Aggregators |-> <<>>]
  /\ tmp = None /\ output = None

-----------------------------------------------------------------------------
(* What the producers of the batches, or their operator, may have done. *)

RowEdits(r) ==
  {[r EXCEPT !.repeat = k] : k \in 1..RepeatCount}
    \union {[r EXCEPT !.config = c] : c \in Configs \union OtherConfigs}
    \union {[r EXCEPT !.sound = FALSE]}
    \union {[r EXCEPT !.commit = x] : x \in Commits}
    \union {[r EXCEPT !.session = <<k, c>>] : k \in 1..RepeatCount, c \in Configs}

BatchEdits(b) ==
  (UNION {{[b EXCEPT ![i] = r] : r \in RowEdits(b[i])} : i \in DOMAIN b})
    \union {RemoveAt(b, i) : i \in DOMAIN b} \union {Append(b, b[i]) : i \in DOMAIN b}

Edit ==
  /\ edits < MaxEdits /\ edits' = edits + 1
  /\ \A a \in Aggregators : pc[a] = "start"
  /\ \/ \E f \in DOMAIN dir : \E b \in BatchEdits(dir[f]) : dir' = [dir EXCEPT ![f] = b]
     \/ \E f \in DOMAIN dir : dir' = Restrict(dir, DOMAIN dir \ {f})
     \/ \E f \in DOMAIN dir, g \in FileNames \ DOMAIN dir :
          \/ dir' = [h \in (DOMAIN dir \ {f}) \union {g} |-> IF h = g THEN dir[f] ELSE dir[h]]
          \/ dir' = [h \in DOMAIN dir \union {g} |-> IF h = g THEN dir[f] ELSE dir[h]]
  /\ UNCHANGED <<interrupts, pc, all_rows, tmp, output>>

-----------------------------------------------------------------------------
(* validate_all. *)

batch_files(d) == DOMAIN d \ FailedName

\* V01 to V03: as many files as repeats, each with a number, the numbers
\* being 1 to the number of repeats.
FilesOK(d) ==
  /\ Cardinality(batch_files(d)) = RepeatCount
  /\ None \notin {RepeatIdOf[f] : f \in batch_files(d)}
  /\ {RepeatIdOf[f] : f \in batch_files(d)} = 1..RepeatCount

\* V04 to V12 and V17 to V20.
validate_batch(d, f) ==
  /\ Len(d[f]) = ROWS_PER_BATCH
  /\ \A i \in DOMAIN d[f] : d[f][i].repeat = RepeatIdOf[f] /\ d[f][i].sound

Concatenated(d) ==
  LET s == SetToSeq(batch_files(d)) IN FlattenSeq([i \in DOMAIN s |-> d[s[i]]])

Values(rs, get(_)) == {get(rs[i]) : i \in DOMAIN rs}
CountOf(rs, c) == Cardinality({i \in DOMAIN rs : rs[i].config = c})

\* V13 to V16.  V14 looks at the configurations that occur.
RelatedOKLoose(rs) ==  \* Mutant
  /\ Len(rs) = ROWS_PER_BATCH * RepeatCount
  /\ \A c \in Values(rs, LAMBDA r : r.config) : CountOf(rs, c) = RepeatCount
RelatedOKAnyCount(rs) ==  \* Mutant
  /\ Len(rs) = ROWS_PER_BATCH * RepeatCount
  /\ Cardinality(Values(rs, LAMBDA r : r.commit)) = 1
  /\ Cardinality(Values(rs, LAMBDA r : r.session)) = Len(rs)
RelatedOK(rs) ==
  /\ Len(rs) = ROWS_PER_BATCH * RepeatCount
  /\ \A c \in Values(rs, LAMBDA r : r.config) : CountOf(rs, c) = RepeatCount
  /\ Cardinality(Values(rs, LAMBDA r : r.commit)) = 1
  /\ Cardinality(Values(rs, LAMBDA r : r.session)) = Len(rs)

validate_all(d) ==
  /\ FilesOK(d)
  /\ \A f \in batch_files(d) : validate_batch(d, f)
  /\ RelatedOK(Concatenated(d))

-----------------------------------------------------------------------------
(* main. *)

Goto(a, where) == pc' = [pc EXCEPT ![a] = where]

GuardOutput(a) ==
  /\ pc[a] = "start" /\ Goto(a, IF output # None THEN "failed" ELSE "guard")
  /\ UNCHANGED <<dir, edits, interrupts, all_rows, tmp, output>>

GuardTmp(a) ==
  /\ pc[a] = "guard" /\ Goto(a, IF tmp # None THEN "failed" ELSE "validate")
  /\ UNCHANGED <<dir, edits, interrupts, all_rows, tmp, output>>

Validate(a) ==
  /\ pc[a] = "validate"
  /\ IF validate_all(dir)
       THEN Goto(a, "open") /\ all_rows' = [all_rows EXCEPT ![a] = Concatenated(dir)]
       ELSE Goto(a, "failed") /\ UNCHANGED all_rows
  /\ UNCHANGED <<dir, edits, interrupts, tmp, output>>

\* tmp_path.open("x"), whose error ends the program.
OpenTmpAnyway(a) ==  \* Mutant
  /\ pc[a] = "open" /\ Goto(a, "write") /\ tmp' = a
  /\ UNCHANGED <<dir, edits, interrupts, all_rows, output>>
OpenTmp(a) ==
  /\ pc[a] = "open"
  /\ IF tmp = None THEN Goto(a, "write") /\ tmp' = a
                   ELSE Goto(a, "failed") /\ UNCHANGED tmp
  /\ UNCHANGED <<dir, edits, interrupts, all_rows, output>>

\* The rows reach the file with the fsync.
Write(a) ==
  /\ pc[a] = "write" /\ Goto(a, "link")
  /\ UNCHANGED <<dir, edits, interrupts, all_rows, tmp, output>>

LinkReplacing(a) ==  \* Mutant
  /\ pc[a] = "link" /\ output' = tmp /\ Goto(a, "unlink")
  /\ UNCHANGED <<dir, edits, interrupts, all_rows, tmp>>
Link(a) ==
  /\ pc[a] = "link"
  /\ IF output = None THEN output' = tmp /\ Goto(a, "unlink")
                      ELSE Goto(a, "failed") /\ UNCHANGED output
  /\ UNCHANGED <<dir, edits, interrupts, all_rows, tmp>>

Unlink(a) ==
  /\ pc[a] = "unlink" /\ tmp' = None /\ Goto(a, "done")
  /\ UNCHANGED <<dir, edits, interrupts, all_rows, output>>

\* Nothing catches an exception: the program ends where it is.
Interrupt(a) ==
  /\ pc[a] \notin {"start", "done", "failed"} /\ interrupts < MaxInterrupts
  /\ interrupts' = interrupts + 1 /\ Goto(a, "failed")
  /\ UNCHANGED <<dir, edits, all_rows, tmp, output>>

Step(a) ==
  \/ GuardOutput(a) \/ GuardTmp(a) \/ Validate(a) \/ OpenTmp(a)
  \/ Write(a) \/ Link(a) \/ Unlink(a)

Done == (\A a \in Aggregators : pc[a] \in {"done", "failed"}) /\ UNCHANGED vars

Next == Edit \/ (\E a \in Aggregators : Step(a) \/ Interrupt(a)) \/ Done

Spec == Init /\ [][Next]_vars

-----------------------------------------------------------------------------
(* Properties. *)

\* TypeOK: the variables stay in their domains.
TypeOK ==
  /\ DOMAIN dir \subseteq FileNames /\ tmp \in Aggregators \union {None}
  /\ output \in Aggregators \union {None}
  /\ pc \in [Aggregators -> {"start", "guard", "validate", "open", "write", "link",
                             "unlink", "done", "failed"}]

\* OutputIsWritten: the output never refers to a file that is still being
\* written: the aggregator it belongs to is past its fsync (main).
OutputIsWritten ==
  output # None =>
    pc[output] \in {"unlink", "done"} \/ (pc[output] = "failed" /\ interrupts > 0)

\* OutputIsFinal: a published aggregate is never replaced by another
\* (main: "Formal aggregate results are immutable").
OutputIsFinal == output # None => output' = output

\* AggregateIsUniform: a published aggregate has one row of every session,
\* all of one client commit and sound, and as many rows for every repeat and
\* every configuration it has at all (V01 to V17).
AggregateIsUniform ==
  output # None =>
    LET rs == all_rows[output]
    IN /\ Cardinality(Values(rs, LAMBDA r : r.session)) = Len(rs)
       /\ Cardinality(Values(rs, LAMBDA r : r.commit)) = 1
       /\ \A i \in DOMAIN rs : rs[i].sound
       /\ \A k \in 1..RepeatCount :
            Cardinality({i \in DOMAIN rs : rs[i].repeat = k}) = Cardinality(Configs)

\* ConfigsAreBalanced: of every configuration a published aggregate has, it
\* has as many rows as there are repeats (V14).
ConfigsAreBalanced ==
  output # None =>
    \A i \in DOMAIN all_rows[output] :
       CountOf(all_rows[output], all_rows[output][i].config) = RepeatCount

=============================================================================
