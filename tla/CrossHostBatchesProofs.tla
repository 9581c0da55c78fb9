----------------------- MODULE CrossHostBatchesProofs -----------------------
(***************************************************************************)
(* Theorems about CrossHostBatches, for any number of runs, batches and    *)
(* configurations, with runs killed anywhere and aggregators restarted.    *)
(*                                                                         *)
(* Two runs of one batch never write at the same time: a run that finds    *)
(* the temporary file ends without touching it, and the operator moves it  *)
(* away only when no run of the batch is left (OneHolder).  So a temporary *)
(* file has one author, dead or alive, whose rows and journal agree with   *)
(* each other (Author), and a published one has an author that came to its *)
(* end.                                                                    *)
(***************************************************************************)
EXTENDS CrossHostBatches, CollectionLemmas, SequenceTheorems

-----------------------------------------------------------------------------
(* The inductive invariant *)

RowType ==
  [run : Runs, repeat : Batches, config : Configs, valid : BOOLEAN,
   client : Commits, server : Commits \union {"none"}]

File == Seq(RowType)

\* Where a run holds the temporary file, and where it has written its rows.
Closing == {"validate", "link", "unlink", "preserve", "rename"}
Active == {"rows", "journal"} \union Closing

Types ==
  /\ out \in [Batches -> File \union {NoFile}] /\ tmp \in [Batches -> File \union {NoFile}]
  /\ failed \in [Batches -> [Attempts -> File \union {NoFile}]]
  /\ DOMAIN conflicts = Batches
  /\ journal \in [Runs -> [start : BOOLEAN, results : 0..Cardinality(Configs), end : BOOLEAN]]
  /\ pc \in [Runs -> {"none", "ready", "open", "dead"} \union Active]
  /\ DOMAIN args = Runs /\ todo \in [Runs -> SUBSET Configs] /\ exists \in [Runs -> BOOLEAN]
  /\ \A r \in Runs : pc[r] # "none" =>
       args[r] \in [batch : Batches, attempt : Attempts, commit : Commits, mixed : BOOLEAN]
  /\ agg_errors \in BOOLEAN

\* The rows of f are r's, of batch b, one of every configuration it has been
\* through: those that are not left.
WrittenBy(r, b, left, f) ==
  /\ f \in File
  /\ \A i \in 1..Len(f) : f[i].run = r /\ f[i].repeat = b
  /\ \A i, j \in 1..Len(f) : f[i].config = f[j].config => i = j
  /\ {f[i].config : i \in 1..Len(f)} = Configs \ left

\* The journal has n events, one for each row, or lacks that of the last one.
JournalFits(at, n, f) ==
  /\ at = "journal" => Len(f) = n + 1
  /\ at \in Active \ {"journal"} => Len(f) = n
  /\ Len(f) - n \in {0, 1}

\* f is the temporary file that r has opened.
Author(r, at, b, left, n, f) ==
  /\ at \in Active \union {"dead"}
  /\ WrittenBy(r, b, left, f) /\ JournalFits(at, n, f)

Opened(r, f) == Author(r, pc[r], Batch(r), todo[r], journal[r].results, f)

OneHolder ==
  \A r, s \in Runs :
     pc[r] \in Active /\ pc[s] \in Active /\ Batch(r) = Batch(s) => r = s

RunInv(r) ==
  /\ pc[r] \in Active => Opened(r, tmp[Batch(r)])
  /\ pc[r] \in {"none", "ready", "open"} => journal[r].results = 0
  /\ pc[r] \in {"ready", "open"} => todo[r] = Configs
  /\ pc[r] \in Active \union {"open"} => journal[r].start
  /\ pc[r] \in Closing => journal[r].end /\ todo[r] = {}
  /\ pc[r] = "link" => RowsValid(r, tmp[Batch(r)])
  /\ pc[r] = "unlink" => out[Batch(r)] = tmp[Batch(r)]
  /\ pc[r] = "rename" => exists[r] = IsFile(failed[Batch(r)][args[r].attempt])

TmpAuthored ==
  \A b \in Batches : IsFile(tmp[b]) => \E r \in Runs : Batch(r) = b /\ Opened(r, tmp[b])

\* f is what r published: all its rows are there and valid, and in the journal.
Whole(r, at, b, left, events, f) ==
  /\ at \in {"unlink", "dead"} /\ WrittenBy(r, b, left, f) /\ left = {}
  /\ Len(f) = Cardinality(Configs) /\ \A i \in 1..Len(f) : f[i].valid
  /\ events.start /\ events.end /\ events.results = Cardinality(Configs)

PublishedBy(r, f) == Whole(r, pc[r], Batch(r), todo[r], journal[r], f)

OutPublished ==
  \A b \in Batches : IsFile(out[b]) => \E r \in Runs : Batch(r) = b /\ PublishedBy(r, out[b])

\* What AggregateIsUniform and AggregateValidates say of the aggregate.
Uniform(f) ==
  /\ {<<row.repeat, row.config>> : row \in RowsOfFile(f)} = Batches \X Configs
  /\ Len(f) = Cardinality(Batches \X Configs)
  /\ \A row \in RowsOfFile(f) : row.valid
  /\ Cardinality({row.client : row \in RowsOfFile(f)}
                 \union {row.server : row \in RowsOfFile(f)}) = 1
  /\ Validated(f)

AggInv ==
  /\ agg_pc = "write" => Uniform(agg_rows)
  /\ agg_pc = "link" => Uniform(agg_tmp)
  /\ IsFile(agg_out) => Uniform(agg_out)

IInv ==
  /\ Types /\ OneHolder /\ (\A r \in Runs : RunInv(r))
  /\ TmpAuthored /\ OutPublished /\ AggInv

-----------------------------------------------------------------------------
(* Files and authors *)

\* The absence of a file is not a file of rows.
LEMMA NoFileIsNone ==
  ASSUME NEW f \in File
  PROVE  IsFile(f)
<1>1. SUFFICES ASSUME f = NoFile PROVE FALSE
  BY DEF IsFile
<1>2. Len(f) = 1 /\ f[1].run = 0
  BY <1>1 DEF NoFile
<1>3. f[1] \in RowType
  BY <1>2 DEF File
<1>4. f[1].run \in Runs
  BY <1>3 DEF RowType
<1>5. QED
  BY <1>2, <1>4 DEF Runs

\* An author stays one until it writes again, dead or alive.
LEMMA AuthorStays ==
  ASSUME NEW r, NEW at, NEW b, NEW left, NEW n, NEW f, Author(r, at, b, left, n, f),
         NEW next,
         \/ next = at
         \/ next = "dead"
         \/ at \in Active \ {"journal"} /\ next \in Active \ {"journal"}
  PROVE  Author(r, next, b, left, n, f)
BY DEF Author, JournalFits, Active, Closing

\* As many rows as configurations were taken.
LEMMA WrittenLength ==
  ASSUME BatchAssumption, NEW r, NEW b, NEW left, NEW f, WrittenBy(r, b, left, f)
  PROVE  /\ Len(f) = Cardinality(Configs \ left) /\ Len(f) <= Cardinality(Configs)
         /\ Len(f) \in Nat
<1> DEFINE n == Len(f)
           g == [i \in 1..n |-> f[i].config]
<1>1. n \in Nat /\ f \in Seq(RowType)
  BY DEF WrittenBy, File
<1>2. g \in [1..n -> Configs \ left]
  BY DEF WrittenBy
<1>3. g \in Injection(1..n, Configs \ left) /\ g \in Surjection(1..n, Configs \ left)
  BY <1>2 DEF WrittenBy, Injection, IsInjective, Surjection
<1>4. IsFiniteSet(1..n) /\ Cardinality(1..n) = n
  BY <1>1, FS_Interval
<1>5. Cardinality(Configs \ left) = n
  <2>1. g \in Bijection(1..n, Configs \ left)
    BY <1>3 DEF Bijection
  <2> HIDE DEF g, n
  <2>2. ExistsBijection(1..n, Configs \ left)
    BY <2>1 DEF ExistsBijection
  <2>3. QED
    BY <1>4, <2>2, FS_Bijection
<1>6. Cardinality(Configs \ left) <= Cardinality(Configs)
  BY FS_Subset DEF BatchAssumption
<1>7. QED
  BY <1>1, <1>5, <1>6

\* An empty file is one that its author has just opened.
LEMMA JustOpened ==
  ASSUME NEW r, NEW b
  PROVE  Author(r, "rows", b, Configs, 0, <<>>)
<1>1. <<>> \in File /\ Len(<<>>) = 0
  BY DEF File
<1>2. WrittenBy(r, b, Configs, <<>>)
  BY <1>1 DEF WrittenBy
<1>3. QED
  BY <1>1, <1>2 DEF Author, JournalFits, Active

\* One more row.
LEMMA OneMoreRow ==
  ASSUME NEW r, NEW b, NEW left, NEW n \in Nat, NEW f, Author(r, "rows", b, left, n, f),
         NEW row \in RowType, row.run = r, row.repeat = b, row.config \in left
  PROVE  Author(r, "journal", b, left \ {row.config}, n, Append(f, row))
<1> DEFINE g == Append(f, row)
           L == Len(f)
<1>1. f \in Seq(RowType) /\ L \in Nat /\ L = n
  BY DEF Author, WrittenBy, JournalFits, File, Active
<1>2. g \in Seq(RowType) /\ Len(g) = L + 1
  BY <1>1
<1>3. \A i \in 1..L : g[i] = f[i]
  BY <1>1
<1>4. g[L + 1] = row
  BY <1>1
<1>5. \A i \in 1..Len(g) : i = L + 1 \/ i \in 1..L
  BY <1>1, <1>2
<1>6. \A i \in 1..L : /\ f[i].run = r /\ f[i].repeat = b /\ f[i].config \in Configs \ left
  BY DEF Author, WrittenBy
<1>7. \A i \in 1..Len(g) : g[i].run = r /\ g[i].repeat = b
  BY <1>3, <1>4, <1>5, <1>6
<1> HIDE DEF g, L
<1>8. \A i, j \in 1..Len(g) : g[i].config = g[j].config => i = j
  BY <1>3, <1>4, <1>5, <1>6 DEF Author, WrittenBy, L
<1>9. {g[i].config : i \in 1..Len(g)} = Configs \ (left \ {row.config})
  <2>1. row.config \in Configs
    BY DEF RowType
  <2>2. \A c \in Configs \ left : \E i \in 1..L : f[i].config = c
    BY DEF Author, WrittenBy, L
  <2>3. \A i \in 1..L : i \in 1..Len(g)
    BY <1>1, <1>2
  <2>4. L + 1 \in 1..Len(g)
    BY <1>1, <1>2
  <2>5. \A i \in 1..Len(g) : g[i].config \in Configs \ (left \ {row.config})
    BY <1>3, <1>4, <1>5, <1>6, <2>1
  <2>6. \A c \in Configs \ (left \ {row.config}) : \E i \in 1..Len(g) : g[i].config = c
    BY <1>3, <1>4, <2>2, <2>3, <2>4
  <2>7. QED
    BY <2>5, <2>6
<1>10. QED
  BY <1>1, <1>2, <1>7, <1>8, <1>9 DEF Author, WrittenBy, JournalFits, Active, File, g, L

-----------------------------------------------------------------------------
(* Steps *)

\* What a run's step leaves alone: the other runs, the files of other batches,
\* and its own batch's files unless it holds or is opening the temporary one.
LEMMA RunFrame ==
  ASSUME Types, NEW r \in Runs, RunStep(r)
  PROVE  /\ UNCHANGED aggregate
         /\ \A s \in Runs \ {r} :
              /\ pc'[s] = pc[s] /\ args'[s] = args[s] /\ todo'[s] = todo[s]
              /\ journal'[s] = journal[s] /\ exists'[s] = exists[s]
         /\ pc[r] # "dead" /\ (pc[r] # "none" => args' = args)
         /\ \A b \in Batches :
              b # Batch(r) \/ pc[r] \notin Active \union {"open"} =>
                tmp'[b] = tmp[b] /\ out'[b] = out[b] /\ failed'[b] = failed[b]
         /\ pc[r] = "open" => out' = out /\ failed' = failed
         /\ pc[r] = "open" /\ tmp[Batch(r)] # NoFile => tmp' = tmp
<1> USE DEF files, aggregate, Go, Active, Closing
<1>1. CASE Start(r)
  BY <1>1 DEF Start, Types
<1>2. CASE JournalStart(r)
  BY <1>2 DEF JournalStart, Types
<1>3. CASE OpenTmp(r)
  BY <1>3 DEF OpenTmp, Types
<1>4. CASE WriteRow(r)
  BY <1>4 DEF WriteRow, Types
<1>5. CASE JournalRow(r)
  BY <1>5 DEF JournalRow, Types
<1>6. CASE JournalEnd(r)
  BY <1>6 DEF JournalEnd, Types
<1>7. CASE Validate(r)
  BY <1>7 DEF Validate, Types
<1>8. CASE PublishLink(r)
  BY <1>8 DEF PublishLink, Types
<1>9. CASE PublishUnlink(r)
  BY <1>9 DEF PublishUnlink, Types
<1>10. CASE PreserveCheck(r)
  BY <1>10 DEF PreserveCheck, Types
<1>11. CASE Preserve(r)
  BY <1>11 DEF Preserve, Types
<1>12. CASE Kill(r)
  BY <1>12 DEF Kill, Types
<1>13. QED
  BY <1>1, <1>2, <1>3, <1>4, <1>5, <1>6, <1>7, <1>8, <1>9, <1>10, <1>11, <1>12
     DEF RunStep

\* A run that holds the temporary file is at work on a file of rows.
LEMMA Held ==
  ASSUME BatchAssumption, Types, NEW r \in Runs, RunInv(r), pc[r] \in Active
  PROVE  /\ args[r] \in [batch : Batches, attempt : Attempts, commit : Commits, mixed : BOOLEAN]
         /\ Batch(r) \in Batches /\ tmp[Batch(r)] \in File /\ IsFile(tmp[Batch(r)])
         /\ Opened(r, tmp[Batch(r)])
         /\ Len(tmp[Batch(r)]) \in Nat /\ Len(tmp[Batch(r)]) <= Cardinality(Configs)
<1>1. Opened(r, tmp[Batch(r)])
  BY DEF RunInv
<1>2. WrittenBy(r, Batch(r), todo[r], tmp[Batch(r)])
  BY <1>1 DEF Opened, Author
<1>3. args[r] \in [batch : Batches, attempt : Attempts, commit : Commits, mixed : BOOLEAN]
  BY DEF Types, Active, Closing
<1>4. tmp[Batch(r)] \in File
  BY <1>2 DEF WrittenBy
<1>5. QED
  BY <1>1, <1>2, <1>3, <1>4, WrittenLength, NoFileIsNone DEF Batch

\* Types, along a run's step.
LEMMA RunTypes ==
  ASSUME BatchAssumption, MixedAssumption, Types, NEW r \in Runs, RunInv(r), RunStep(r)
  PROVE  Types'
<1>0. Cardinality(Configs) \in Nat
  BY FS_CardinalityType DEF BatchAssumption
<1> USE DEF files, aggregate, Go
<1>1. CASE Start(r)
  <2>1. PICK b \in Batches, a \in Attempts, c \in Commits, m \in Mixed :
          args' = [args EXCEPT ![r] = [batch |-> b, attempt |-> a, commit |-> c, mixed |-> m]]
    BY <1>1 DEF Start
  <2>2. m \in BOOLEAN
    BY DEF MixedAssumption
  <2>3. args'[r] \in [batch : Batches, attempt : Attempts, commit : Commits, mixed : BOOLEAN]
    BY <2>1, <2>2 DEF Types
  <2>4. DOMAIN args' = Runs /\ \A s \in Runs : s # r => args'[s] = args[s]
    BY <2>1 DEF Types
  <2>5. pc' \in [Runs -> {"none", "ready", "open", "dead"} \union Active]
        /\ \A s \in Runs : s # r => pc'[s] = pc[s]
    BY <1>1 DEF Start, Types
  <2>6. todo' \in [Runs -> SUBSET Configs]
    BY <1>1 DEF Start, Types
  <2>7. QED
    BY <1>1, <2>3, <2>4, <2>5, <2>6 DEF Start, Types
<1>2. CASE JournalStart(r)
  BY <1>2 DEF JournalStart, Types, Active
<1>3. CASE OpenTmp(r)
  <2>1. <<>> \in File
    BY DEF File
  <2>5. tmp' = tmp \/ tmp' = [tmp EXCEPT ![Batch(r)] = <<>>]
    BY <1>3 DEF OpenTmp
  <2>2. tmp' \in [Batches -> File \union {NoFile}]
    BY <2>1, <2>5 DEF Types
  <2>3. pc' \in [Runs -> {"none", "ready", "open", "dead"} \union Active]
        /\ \A s \in Runs : pc'[s] # "none" => pc[s] # "none"
    BY <1>3 DEF OpenTmp, Types, Active
  <2>4. QED
    BY <1>3, <2>2, <2>3 DEF OpenTmp, Types
<1>4. CASE WriteRow(r)
  <2>1. pc[r] \in Active
    BY <1>4 DEF WriteRow, Active
  <2>2. PICK config \in todo[r], valid \in BOOLEAN, commit \in Commits :
          tmp' = [tmp EXCEPT ![Batch(r)] = Append(@,
            [run |-> r, repeat |-> Batch(r), config |-> config, valid |-> valid,
             client |-> args[r].commit, server |-> IF valid THEN commit ELSE "none"])]
          /\ todo' = [todo EXCEPT ![r] = @ \ {config}]
    BY <1>4 DEF WriteRow
  <2> DEFINE row == [run |-> r, repeat |-> Batch(r), config |-> config, valid |-> valid,
                     client |-> args[r].commit, server |-> IF valid THEN commit ELSE "none"]
  <2>3. config \in Configs
    BY DEF Types
  <2>4. row \in RowType
    BY <2>1, <2>3, Held DEF RowType
  <2> HIDE DEF row
  <2>5. Append(tmp[Batch(r)], row) \in File
    BY <2>1, <2>4, Held DEF File
  <2>6. tmp' = [tmp EXCEPT ![Batch(r)] = Append(tmp[Batch(r)], row)]
    BY <2>2 DEF row
  <2>7. tmp' \in [Batches -> File \union {NoFile}]
    BY <2>5, <2>6 DEF Types
  <2>8. todo' \in [Runs -> SUBSET Configs]
    BY <2>2 DEF Types
  <2>9. pc' \in [Runs -> {"none", "ready", "open", "dead"} \union Active]
        /\ \A s \in Runs : pc'[s] # "none" => pc[s] # "none"
    BY <1>4 DEF WriteRow, Types, Active
  <2>10. QED
    BY <1>4, <2>7, <2>8, <2>9 DEF WriteRow, Types
<1>5. CASE JournalRow(r)
  <2>1. pc[r] = "journal" /\ pc[r] \in Active
    BY <1>5 DEF JournalRow, Active
  <2>2. Len(tmp[Batch(r)]) = journal[r].results + 1
    BY <2>1, Held DEF Opened, Author, JournalFits
  <2>3. journal[r].results + 1 \in 0..Cardinality(Configs)
    BY <1>0, <2>1, <2>2, Held
  <2>4. journal' \in [Runs -> [start : BOOLEAN, results : 0..Cardinality(Configs),
                               end : BOOLEAN]]
    BY <1>5, <2>3 DEF JournalRow, Types
  <2>5. QED
    BY <1>5, <2>4 DEF JournalRow, Types, Active
<1>6. CASE JournalEnd(r)
  <2>1. journal' \in [Runs -> [start : BOOLEAN, results : 0..Cardinality(Configs),
                               end : BOOLEAN]]
    BY <1>6 DEF JournalEnd, Types
  <2>2. pc' \in [Runs -> {"none", "ready", "open", "dead"} \union Active]
        /\ \A s \in Runs : pc'[s] # "none" => pc[s] # "none"
    BY <1>6 DEF JournalEnd, Types, Active, Closing
  <2>3. QED
    BY <1>6, <2>1, <2>2 DEF JournalEnd, Types
<1>7. CASE Validate(r)
  <2>1. PICK there \in {"link", "preserve"} : pc' = [pc EXCEPT ![r] = there]
    BY <1>7 DEF Validate
  <2>2. pc[r] # "none"
    BY <1>7 DEF Validate
  <2>3. pc' \in [Runs -> {"none", "ready", "open", "dead"} \union Active]
        /\ \A s \in Runs : pc'[s] # "none" => pc[s] # "none"
    BY <2>1, <2>2 DEF Types, Active, Closing
  <2>4. QED
    BY <1>7, <2>3 DEF Validate, Types
<1>8. CASE PublishLink(r)
  <2>1. pc[r] \in Active
    BY <1>8 DEF PublishLink, Active, Closing
  <2>2. tmp[Batch(r)] \in File
    BY <2>1, Held
  <2>3. out' = out \/ out' = [out EXCEPT ![Batch(r)] = tmp[Batch(r)]]
    BY <1>8 DEF PublishLink
  <2>4. out' \in [Batches -> File \union {NoFile}]
    BY <2>2, <2>3 DEF Types
  <2>5. QED
    BY <1>8, <2>4 DEF PublishLink, Types, Active, Closing
<1>9. CASE PublishUnlink(r)
  BY <1>9 DEF PublishUnlink, Types, Active, Closing
<1>10. CASE PreserveCheck(r)
  BY <1>10 DEF PreserveCheck, Types, Active, Closing
<1>11. CASE Preserve(r)
  <2>1. pc[r] \in Active
    BY <1>11 DEF Preserve, Active, Closing
  <2>5. tmp[Batch(r)] \in File /\ Batch(r) \in Batches
    BY <2>1, Held
  <2>6. \/ failed' = failed
        \/ failed' = [failed EXCEPT ![Batch(r)][args[r].attempt] = tmp[Batch(r)]]
    BY <1>11 DEF Preserve
  <2>2. failed' \in [Batches -> [Attempts -> File \union {NoFile}]]
    <3> DEFINE of == [failed[Batch(r)] EXCEPT ![args[r].attempt] = tmp[Batch(r)]]
    <3>1. of \in [Attempts -> File \union {NoFile}]
      BY <2>5 DEF Types
    <3>2. failed' = failed \/ failed' = [failed EXCEPT ![Batch(r)] = of]
      BY <2>6
    <3> HIDE DEF of
    <3>3. QED
      BY <2>5, <3>1, <3>2 DEF Types
  <2>7. DOMAIN conflicts' = Batches
    BY <1>11 DEF Preserve, Types
  <2>3. tmp' \in [Batches -> File \union {NoFile}]
    BY <1>11 DEF Preserve, Types
  <2>4. QED
    BY <1>11, <2>2, <2>3, <2>7 DEF Preserve, Types, Active, Closing
<1>12. CASE Kill(r)
  BY <1>12 DEF Kill, Types, Active, Closing
<1>13. QED
  BY <1>1, <1>2, <1>3, <1>4, <1>5, <1>6, <1>7, <1>8, <1>9, <1>10, <1>11, <1>12
     DEF RunStep

\* A run that holds the file after its step held it before, or has created it.
LEMMA BecomesHolder ==
  ASSUME Types, NEW r \in Runs, RunStep(r), pc'[r] \in Active
  PROVE  /\ pc[r] # "none"
         /\ pc[r] \in Active \/ (pc[r] = "open" /\ tmp[Batch(r)] = NoFile)
BY DEF RunStep, Start, JournalStart, OpenTmp, WriteRow, JournalRow, JournalEnd, Validate,
       PublishLink, PublishUnlink, PreserveCheck, Preserve, Kill, Go, Types, Active, Closing

\* OneHolder, along a run's step.
LEMMA RunOneHolder ==
  ASSUME BatchAssumption, Types, OneHolder, \A s \in Runs : RunInv(s),
         NEW r \in Runs, RunStep(r)
  PROVE  OneHolder'
<1>1. SUFFICES ASSUME NEW s \in Runs, s # r, pc'[r] \in Active, pc'[s] \in Active,
                      Batch(r)' = Batch(s)'
               PROVE  FALSE
  <2>1. ASSUME NEW p \in Runs, NEW q \in Runs, p # r, q # r,
               pc'[p] \in Active, pc'[q] \in Active, Batch(p)' = Batch(q)'
        PROVE  p = q
    BY <2>1, RunFrame DEF OneHolder, Batch
  <2>2. QED
    BY <1>1, <2>1 DEF OneHolder
<1>2. pc[s] \in Active /\ Batch(s)' = Batch(s)
  BY <1>1, RunFrame DEF Batch
<1>3. pc[r] # "none" /\ (pc[r] \in Active \/ (pc[r] = "open" /\ tmp[Batch(r)] = NoFile))
  BY <1>1, BecomesHolder
<1>4. Batch(r) = Batch(s)
  BY <1>1, <1>2, <1>3, RunFrame DEF Batch
<1>5. pc[r] \notin Active
  BY <1>1, <1>2, <1>4 DEF OneHolder
<1>6. IsFile(tmp[Batch(s)])
  BY <1>2, Held
<1>7. QED
  BY <1>3, <1>4, <1>5, <1>6 DEF IsFile

\* What RunInv says of the other runs, along a run's step.
LEMMA OthersKept ==
  ASSUME BatchAssumption, Types, OneHolder, \A s \in Runs : RunInv(s),
         NEW r \in Runs, RunStep(r), NEW s \in Runs, s # r
  PROVE  RunInv(s)'
<1>1. /\ pc'[s] = pc[s] /\ args'[s] = args[s] /\ todo'[s] = todo[s]
      /\ journal'[s] = journal[s] /\ exists'[s] = exists[s]
  BY RunFrame
<1>2. ASSUME pc[s] \in Active
      PROVE  /\ tmp'[Batch(s)] = tmp[Batch(s)] /\ out'[Batch(s)] = out[Batch(s)]
             /\ failed'[Batch(s)] = failed[Batch(s)]
  <2>1. Batch(s) \in Batches /\ IsFile(tmp[Batch(s)])
    BY <1>2, Held
  <2>2. pc[r] \in Active => Batch(s) # Batch(r)
    BY <1>2 DEF OneHolder
  <2>3. CASE pc[r] = "open" /\ Batch(s) = Batch(r)
    BY <2>1, <2>3, RunFrame DEF IsFile
  <2>4. CASE pc[r] # "open" \/ Batch(s) # Batch(r)
    BY <2>1, <2>2, <2>4, RunFrame
  <2>5. QED
    BY <2>3, <2>4
<1>3. RunInv(s)
  OBVIOUS
<1>4. CASE pc[s] \in Active
  BY <1>1, <1>2, <1>3, <1>4 DEF RunInv, Opened, Batch, RowsValid
<1>5. CASE pc[s] \notin Active
  BY <1>1, <1>3, <1>5 DEF RunInv, Active, Closing
<1>6. QED
  BY <1>4, <1>5

\* What RunInv says of the run itself, along its step.
LEMMA RunKept ==
  ASSUME BatchAssumption, Types, NEW r \in Runs, RunInv(r), RunStep(r)
  PROVE  RunInv(r)'
<1> USE DEF Go, files
<1>0. pc[r] # "none" => args' = args /\ Batch(r)' = Batch(r) /\ Batch(r) \in Batches
  BY RunFrame DEF Batch, Types
<1>1. CASE Start(r)
  BY <1>1 DEF Start, RunInv, Types, Active, Closing
<1>2. CASE JournalStart(r)
  BY <1>2 DEF JournalStart, RunInv, Types, Active, Closing
<1>3. CASE OpenTmp(r)
  <2>1. CASE tmp[Batch(r)] # NoFile
    BY <1>3, <2>1 DEF OpenTmp, RunInv, Types, Active, Closing
  <2>2. CASE tmp[Batch(r)] = NoFile
    <3>1. /\ pc[r] = "open" /\ pc'[r] = "rows" /\ todo'[r] = Configs
          /\ journal'[r].results = 0 /\ journal'[r].start
      BY <1>3, <2>2 DEF OpenTmp, RunInv, Types
    <3>2. tmp'[Batch(r)] = <<>>
      BY <1>0, <1>3, <2>2, <3>1 DEF OpenTmp, Types
    <3>3. Opened(r, tmp[Batch(r)])'
      BY <1>0, <3>1, <3>2, JustOpened DEF Opened
    <3>4. QED
      BY <3>1, <3>3 DEF RunInv, Active, Closing
  <2>3. QED
    BY <2>1, <2>2
<1>4. CASE WriteRow(r)
  <2>1. pc[r] = "rows" /\ pc[r] \in Active /\ pc'[r] = "journal" /\ journal' = journal
    BY <1>4 DEF WriteRow, Active, Types
  <2>2. PICK config \in todo[r], valid \in BOOLEAN, commit \in Commits :
          tmp' = [tmp EXCEPT ![Batch(r)] = Append(@,
            [run |-> r, repeat |-> Batch(r), config |-> config, valid |-> valid,
             client |-> args[r].commit, server |-> IF valid THEN commit ELSE "none"])]
          /\ todo' = [todo EXCEPT ![r] = @ \ {config}]
    BY <1>4 DEF WriteRow
  <2> DEFINE row == [run |-> r, repeat |-> Batch(r), config |-> config, valid |-> valid,
                     client |-> args[r].commit, server |-> IF valid THEN commit ELSE "none"]
  <2>3. args[r].commit \in Commits /\ Batch(r) \in Batches /\ config \in Configs
    BY <2>1, Held DEF Types
  <2>4. row \in RowType /\ row.run = r /\ row.repeat = Batch(r) /\ row.config = config
    BY <2>3 DEF RowType
  <2> HIDE DEF row
  <2>5. tmp'[Batch(r)] = Append(tmp[Batch(r)], row) /\ todo'[r] = todo[r] \ {config}
    BY <2>2, <2>3 DEF row, Types
  <2>6. Author(r, "rows", Batch(r), todo[r], journal[r].results, tmp[Batch(r)])
    BY <2>1, Held DEF Opened
  <2>7. journal[r].results \in Nat
    BY <2>1, <2>6, FS_CardinalityType DEF Types, BatchAssumption
  <2>8. Author(r, "journal", Batch(r), todo[r] \ {config}, journal[r].results,
               Append(tmp[Batch(r)], row))
    BY <2>4, <2>6, <2>7, OneMoreRow
  <2>9. Opened(r, tmp[Batch(r)])'
    BY <1>0, <2>1, <2>5, <2>8 DEF Opened
  <2>10. QED
    BY <2>1, <2>9 DEF RunInv, Active, Closing
<1>5. CASE JournalRow(r)
  <2>1. /\ pc[r] = "journal" /\ pc[r] \in Active /\ pc'[r] = "rows"
        /\ tmp' = tmp /\ todo' = todo
        /\ journal'[r].results = journal[r].results + 1
        /\ journal'[r].start = journal[r].start
    BY <1>5 DEF JournalRow, Active, Types
  <2>2. Author(r, "journal", Batch(r), todo[r], journal[r].results, tmp[Batch(r)])
    BY <2>1, Held DEF Opened
  <2>3. Author(r, "rows", Batch(r), todo[r], journal[r].results + 1, tmp[Batch(r)])
    BY <2>2 DEF Author, JournalFits, Active
  <2>4. Opened(r, tmp[Batch(r)])'
    BY <1>0, <2>1, <2>3 DEF Opened
  <2>5. QED
    BY <2>1, <2>4 DEF RunInv, Active, Closing
<1>6. CASE JournalEnd(r) \/ Validate(r) \/ PublishLink(r) \/ PreserveCheck(r)
  <2>1. /\ pc[r] \in Active \ {"journal"} /\ pc'[r] \in Closing \union {"dead"}
        /\ tmp' = tmp /\ todo' = todo /\ todo[r] = {}
        /\ journal'[r].results = journal[r].results
        /\ journal'[r].start = journal[r].start /\ journal'[r].end
    BY <1>6 DEF JournalEnd, Validate, PublishLink, PreserveCheck, Active, Closing, Types, RunInv
  <2>2. Opened(r, tmp[Batch(r)])'
    <3>1. pc[r] \in Active \ {"journal"} /\ pc[r] \in Active
          /\ (pc'[r] = "dead" \/ pc'[r] \in Active \ {"journal"})
      BY <2>1 DEF Active, Closing
    <3>2. Author(r, pc[r], Batch(r), todo[r], journal[r].results, tmp[Batch(r)])
      BY <3>1, Held DEF Opened
    <3>3. Author(r, pc'[r], Batch(r), todo[r], journal[r].results, tmp[Batch(r)])
      BY <3>1, <3>2, AuthorStays
    <3>4. Batch(r)' = Batch(r)
      BY <1>0, <2>1 DEF Active, Closing
    <3>5. QED
      BY <2>1, <3>3, <3>4 DEF Opened
  <2>3. QED
    BY <1>0, <1>6, <2>1, <2>2
       DEF JournalEnd, Validate, PublishLink, PreserveCheck, RunInv, Active, Closing, Types,
           RowsValid, IsFile
<1>7. CASE PublishUnlink(r) \/ Preserve(r) \/ Kill(r)
  BY <1>7 DEF PublishUnlink, Preserve, Kill, RunInv, Active, Closing, Types
<1>8. QED
  BY <1>1, <1>2, <1>3, <1>4, <1>5, <1>6, <1>7 DEF RunStep

\* A run that ends, ends with the journal it has; only its temporary file may go.
LEMMA Ending ==
  ASSUME Types, NEW r \in Runs, RunStep(r), pc[r] \in Active, pc'[r] \notin Active
  PROVE  /\ pc'[r] = "dead" /\ todo' = todo /\ journal' = journal /\ out' = out
         /\ tmp' = tmp \/ tmp' = [tmp EXCEPT ![Batch(r)] = NoFile]
BY DEF RunStep, Start, JournalStart, OpenTmp, WriteRow, JournalRow, JournalEnd, Validate,
       PublishLink, PublishUnlink, PreserveCheck, Preserve, Kill, Go, Types, Active, Closing,
       files

\* TmpAuthored, along a run's step.
LEMMA RunTmpAuthored ==
  ASSUME BatchAssumption, Types, TmpAuthored, NEW r \in Runs, RunInv(r), RunStep(r)
  PROVE  TmpAuthored'
<1>1. SUFFICES ASSUME NEW b \in Batches, IsFile(tmp'[b])
               PROVE  \E s \in Runs : Batch(s)' = b /\ Opened(s, tmp[b])'
  BY DEF TmpAuthored, IsFile
<1>2. pc[r] # "none" => Batch(r)' = Batch(r)
  BY RunFrame DEF Batch
<1>3. CASE pc'[r] \in Active /\ Batch(r)' = b
  <2>1. RunInv(r)'
    BY RunKept
  <2>2. QED
    BY <1>3, <2>1 DEF RunInv
<1>4. CASE ~(pc'[r] \in Active /\ Batch(r)' = b)
  <2>1. tmp'[b] = tmp[b]
    <3>1. CASE pc[r] \in Active /\ pc'[r] \notin Active
      BY <1>1, <3>1, Ending DEF Types, IsFile
    <3>2. CASE pc[r] \in Active /\ pc'[r] \in Active
      <4>1. b # Batch(r)
        BY <1>2, <1>4, <3>2 DEF Active, Closing
      <4>2. QED
        BY <4>1, RunFrame
    <3>3. CASE pc[r] = "open" /\ pc'[r] \in Active
      <4>1. b # Batch(r)
        BY <1>2, <1>4, <3>3
      <4>2. QED
        BY <4>1, RunFrame
    <3>4. CASE pc[r] = "open" /\ pc'[r] \notin Active
      BY <3>4 DEF RunStep, Start, JournalStart, OpenTmp, WriteRow, JournalRow, JournalEnd,
                  Validate, PublishLink, PublishUnlink, PreserveCheck, Preserve, Kill, Go,
                  Types, Active, Closing, files
    <3>5. CASE pc[r] \notin Active \union {"open"}
      BY <3>5, RunFrame
    <3>6. QED
      BY <3>1, <3>2, <3>3, <3>4, <3>5
  <2>2. PICK a \in Runs : Batch(a) = b /\ Opened(a, tmp[b])
    BY <1>1, <2>1 DEF TmpAuthored
  <2>3. CASE a # r
    BY <2>1, <2>2, <2>3, RunFrame DEF Opened, Batch
  <2>4. CASE a = r
    <3>1. pc[r] \in Active
      BY <2>2, <2>4, RunFrame DEF Opened, Author
    <3>2. pc'[r] \notin Active /\ Batch(r)' = b
      BY <1>2, <1>4, <2>2, <2>4, <3>1 DEF Active, Closing
    <3>3. pc'[r] = "dead" /\ todo' = todo /\ journal' = journal
      BY <3>1, <3>2, Ending
    <3>4. Author(r, "dead", b, todo[r], journal[r].results, tmp[b])
      BY <2>2, <2>4, AuthorStays DEF Opened
    <3>5. Opened(r, tmp[b])'
      BY <2>1, <3>2, <3>3, <3>4 DEF Opened
    <3>6. QED
      BY <3>2, <3>5
  <2>5. QED
    BY <2>3, <2>4
<1>5. QED
  BY <1>3, <1>4

\* A run changes a published batch in one step only, which creates it.
LEMMA OnlyLinkPublishes ==
  ASSUME Types, NEW r \in Runs, RunStep(r)
  PROVE  \/ out' = out
         \/ /\ pc[r] = "link" /\ pc'[r] = "unlink" /\ out[Batch(r)] = NoFile
            /\ out' = [out EXCEPT ![Batch(r)] = tmp[Batch(r)]]
            /\ todo' = todo /\ journal' = journal /\ args' = args
BY DEF RunStep, Start, JournalStart, OpenTmp, WriteRow, JournalRow, JournalEnd, Validate,
       PublishLink, PublishUnlink, PreserveCheck, Preserve, Kill, Go, Types, files

\* OutPublished, along a run's step.
LEMMA RunOutPublished ==
  ASSUME BatchAssumption, Types, OutPublished, NEW r \in Runs, RunInv(r), RunStep(r)
  PROVE  OutPublished'
<1>1. SUFFICES ASSUME NEW b \in Batches, IsFile(out'[b])
               PROVE  \E s \in Runs : Batch(s)' = b /\ PublishedBy(s, out[b])'
  BY DEF OutPublished, IsFile
<1>2. CASE out'[b] = out[b]
  <2>1. PICK p \in Runs : Batch(p) = b /\ PublishedBy(p, out[b])
    BY <1>1, <1>2 DEF OutPublished
  <2>2. CASE p # r
    BY <1>2, <2>1, <2>2, RunFrame DEF PublishedBy, Batch
  <2>3. CASE p = r
    <3>1. pc[r] = "unlink"
      BY <2>1, <2>3, RunFrame DEF PublishedBy, Whole
    <3>2. pc'[r] = "dead" /\ todo' = todo /\ journal' = journal
      BY <3>1 DEF RunStep, Start, JournalStart, OpenTmp, WriteRow, JournalRow, JournalEnd,
                  Validate, PublishLink, PublishUnlink, PreserveCheck, Preserve, Kill, Go,
                  Types
    <3>3. Batch(r)' = b
      BY <2>1, <2>3, <3>1, RunFrame DEF Batch
    <3>4. PublishedBy(r, out[b])'
      BY <1>2, <2>1, <2>3, <3>2, <3>3 DEF PublishedBy, Whole
    <3>5. QED
      BY <3>3, <3>4
  <2>4. QED
    BY <2>2, <2>3
<1>3. CASE out'[b] # out[b]
  <2>1. /\ pc[r] = "link" /\ pc[r] \in Active /\ pc'[r] = "unlink" /\ b = Batch(r)
        /\ out'[b] = tmp[b] /\ todo' = todo /\ journal' = journal /\ Batch(r)' = b
    BY <1>3, OnlyLinkPublishes DEF Types, Active, Closing, Batch
  <2> DEFINE f == tmp[b]
  <2>2. /\ WrittenBy(r, b, todo[r], f) /\ Len(f) = journal[r].results
        /\ RowsValid(r, f) /\ todo[r] = {}
        /\ journal[r].start /\ journal[r].end
    BY <2>1 DEF RunInv, Opened, Author, JournalFits, Active, Closing
  <2>3. f \in Seq(RowType)
    BY <2>2 DEF WrittenBy, File
  <2> HIDE DEF f
  <2>4. Whole(r, "unlink", b, todo[r], journal[r], f)
    BY <2>2, <2>3 DEF Whole, RowsValid
  <2>5. PublishedBy(r, out[b])'
    BY <2>1, <2>4 DEF PublishedBy, f
  <2>6. QED
    BY <2>1, <2>5
<1>4. QED
  BY <1>2, <1>3

-----------------------------------------------------------------------------
(* The aggregate *)

\* One row of every configuration, and no other: as many rows as configurations,
\* and the same set of them.
LEMMA OneRowEach ==
  ASSUME BatchAssumption, NEW b \in Batches, NEW f \in File, ~BatchErrors(b, f)
  PROVE  /\ \A i \in DOMAIN f : f[i] \in RowType /\ f[i].repeat = b /\ f[i].valid
         /\ \A i, j \in DOMAIN f : f[i].config = f[j].config => i = j
         /\ \A c \in Configs : \E i \in DOMAIN f : f[i].config = c
<1> DEFINE n == Len(f)
           g == [i \in 1..n |-> f[i].config]
<1>1. f \in Seq(RowType) /\ n \in Nat /\ DOMAIN f = 1..n
  BY DEF File
<1>2. n = Cardinality(Configs) /\ {f[i].config : i \in DOMAIN f} = Configs
  BY DEF BatchErrors
<1>3. \A i \in DOMAIN f : f[i] \in RowType /\ f[i].repeat = b /\ f[i].valid
  BY <1>1 DEF BatchErrors
<1>4. g \in Surjection(1..n, Configs)
  BY <1>1, <1>2 DEF Surjection
<1>5. IsFiniteSet(1..n) /\ Cardinality(1..n) = n
  BY <1>1, FS_Interval
<1> HIDE DEF n
<1>6. g \in Injection(1..n, Configs)
  BY <1>2, <1>4, <1>5, FS_SurjSameCardinalityImpliesInj
<1>7. \A i, j \in DOMAIN f : f[i].config = f[j].config => i = j
  BY <1>1, <1>6 DEF Injection, IsInjective
<1>8. \A c \in Configs : \E i \in DOMAIN f : f[i].config = c
  BY <1>2
<1>9. QED
  BY <1>3, <1>7, <1>8

\* The rows of batches without an error are in one-to-one correspondence with
\* the batches and configurations.
LEMMA RowsAreKeys ==
  ASSUME BatchAssumption, NEW read, DOMAIN read = Batches,
         \A b \in Batches : read[b] \in File /\ ~BatchErrors(b, read[b])
  PROVE  /\ \A row \in RowsOf(read) : row \in RowType /\ row.valid
         /\ \A row, other \in RowsOf(read) :
              row.repeat = other.repeat /\ row.config = other.config => row = other
         /\ \A b \in Batches, c \in Configs : \E row \in RowsOf(read) :
              row.repeat = b /\ row.config = c
         /\ IsFiniteSet(RowsOf(read))
         /\ Cardinality(RowsOf(read)) = Cardinality(Batches \X Configs)
<1> DEFINE R == RowsOf(read)
           Keys == Batches \X Configs
           h == [row \in R |-> <<row.repeat, row.config>>]
<1>1. \A row \in R : \E b \in Batches : \E i \in DOMAIN read[b] : row = read[b][i]
  BY DEF RowsOf
<1>2. \A b \in Batches : \A i \in DOMAIN read[b] : read[b][i] \in R
  BY DEF RowsOf
<1>3. ASSUME NEW b \in Batches
      PROVE  /\ \A i \in DOMAIN read[b] :
                  read[b][i] \in RowType /\ read[b][i].repeat = b /\ read[b][i].valid
             /\ \A i, j \in DOMAIN read[b] : read[b][i].config = read[b][j].config => i = j
             /\ \A c \in Configs : \E i \in DOMAIN read[b] : read[b][i].config = c
  <2>1. read[b] \in File /\ ~BatchErrors(b, read[b])
    OBVIOUS
  <2>2. QED
    BY <2>1, OneRowEach
<1> HIDE DEF R
<1>4. \A row \in R : row \in RowType /\ row.valid
  BY <1>1, <1>3
<1>5. ASSUME NEW row \in R, NEW other \in R, row.repeat = other.repeat,
             row.config = other.config
      PROVE  row = other
  <2>1. PICK b \in Batches : \E i \in DOMAIN read[b] : row = read[b][i]
    BY <1>1
  <2>2. PICK i \in DOMAIN read[b] : row = read[b][i]
    BY <2>1
  <2>3. PICK d \in Batches : \E j \in DOMAIN read[d] : other = read[d][j]
    BY <1>1
  <2>4. PICK j \in DOMAIN read[d] : other = read[d][j]
    BY <2>3
  <2>5. b = d
    BY <1>3, <1>5, <2>2, <2>4
  <2>6. i = j
    BY <1>3, <1>5, <2>2, <2>4, <2>5
  <2>7. QED
    BY <2>2, <2>4, <2>5, <2>6
<1>6. ASSUME NEW b \in Batches, NEW c \in Configs
      PROVE  \E row \in R : row.repeat = b /\ row.config = c
  <2>1. PICK i \in DOMAIN read[b] : read[b][i].config = c
    BY <1>3
  <2>2. QED
    BY <1>2, <1>3, <2>1
<1>7. h \in [R -> Keys]
  BY <1>4 DEF RowType
<1>8. h \in Injection(R, Keys)
  BY <1>5, <1>7 DEF Injection, IsInjective
<1>9. h \in Surjection(R, Keys)
  <2>1. ASSUME NEW key \in Keys
        PROVE  \E row \in R : h[row] = key
    <3>1. PICK b \in Batches, c \in Configs : key = <<b, c>>
      OBVIOUS
    <3>2. PICK row \in R : row.repeat = b /\ row.config = c
      BY <1>6
    <3>3. QED
      BY <3>1, <3>2
  <2> HIDE DEF h, Keys
  <2>2. QED
    BY <1>7, <2>1 DEF Surjection
<1>10. IsFiniteSet(Keys)
  BY FS_Product DEF BatchAssumption
<1>11. IsFiniteSet(R) /\ Cardinality(R) = Cardinality(Keys)
  <2> HIDE DEF h, Keys
  <2>1. QED
    BY <1>8, <1>9, <1>10, FS_Injection
<1>12. QED
  BY <1>4, <1>5, <1>6, <1>11 DEF R

\* What the aggregator reads without an error is uniform.
LEMMA ReadIsUniform ==
  ASSUME BatchAssumption, NEW read, DOMAIN read = Batches,
         \A b \in Batches : read[b] \in File, ~AllErrors(read)
  PROVE  Uniform(SetToSeq(RowsOf(read)))
<1> DEFINE R == RowsOf(read)
           n == Cardinality(R)
           f == SetToSeq(R)
           Clients == {row.client : row \in R}
<1>1. /\ \A b \in Batches : read[b] \in File /\ ~BatchErrors(b, read[b])
      /\ Cardinality(Clients) = 1 /\ Clients = {row.server : row \in R}
  BY DEF AllErrors
<1>2. /\ \A row \in R : row \in RowType /\ row.valid
      /\ \A row, other \in R :
           row.repeat = other.repeat /\ row.config = other.config => row = other
      /\ \A b \in Batches, c \in Configs : \E row \in R : row.repeat = b /\ row.config = c
      /\ IsFiniteSet(R) /\ n = Cardinality(Batches \X Configs)
  BY <1>1, RowsAreKeys
<1> HIDE DEF R
<1>3. /\ f \in [1..n -> R]
      /\ \A i, j \in 1..n : f[i] = f[j] => i = j
      /\ \A row \in R : \E i \in 1..n : f[i] = row
  <2>1. IsFiniteSet(R)
    BY <1>2
  <2>2. QED
    BY <2>1, SetToSeqLists
<1>4. n \in Nat
  BY <1>2, FS_CardinalityType
<1> HIDE DEF n, f
<1>5. DOMAIN f = 1..n /\ Len(f) = n
  BY <1>3, <1>4
<1>6. RowsOfFile(f) = R
  BY <1>3, <1>5 DEF RowsOfFile
<1>7. {<<row.repeat, row.config>> : row \in R} = Batches \X Configs
  BY <1>2 DEF RowType
<1>8. Cardinality({row.client : row \in R} \union {row.server : row \in R}) = 1
  BY <1>1
<1>9. Batches # {}
  <2>1. Clients # {}
    <3>1. Cardinality(Clients) = 1
      BY <1>1
    <3> HIDE DEF Clients
    <3>2. QED
      BY <3>1, FS_EmptySet
  <2>2. PICK row \in R : TRUE
    BY <2>1
  <2>3. QED
    BY <1>2, <2>2 DEF RowType
<1>10. \A i \in DOMAIN f : f[i] \in R /\ f[i] \in RowType /\ f[i].valid
  BY <1>2, <1>3, <1>5
<1>11. ~Duplicates(f)
  <2>1. SUFFICES ASSUME NEW i \in 1..n, NEW j \in 1..n, i < j,
                        f[i].config = f[j].config, f[i].repeat = f[j].repeat
                 PROVE  FALSE
    BY <1>5 DEF Duplicates
  <2>2. f[i] = f[j]
    BY <1>2, <1>5, <1>10, <2>1
  <2>3. QED
    BY <1>3, <2>1, <2>2
<1>12. {f[i].config : i \in DOMAIN f} = Configs
  <2>1. \A c \in Configs : \E row \in R : row.config = c
    BY <1>2, <1>9
  <2>2. \A c \in Configs : \E i \in DOMAIN f : f[i].config = c
    BY <1>3, <1>5, <2>1
  <2>3. \A i \in DOMAIN f : f[i].config \in Configs
    BY <1>10 DEF RowType
  <2>4. QED
    BY <2>2, <2>3
<1>13. Batches \subseteq {f[i].repeat : i \in DOMAIN f}
  <2>1. \A b \in Batches : \E row \in R : row.repeat = b
    BY <1>2 DEF BatchAssumption
  <2>2. QED
    BY <1>3, <1>5, <2>1
<1>14. ASSUME NEW i \in DOMAIN f
       PROVE  f[i].valid /\ f[i].server # "none"
  <2>1. f[i].server \in Clients
    BY <1>1, <1>10
  <2>2. PICK row \in R : f[i].server = row.client
    BY <2>1
  <2>3. row.client \in Commits
    BY <1>2 DEF RowType
  <2>4. QED
    BY <1>10, <2>2, <2>3 DEF BatchAssumption
<1>15. Validated(f)
  BY <1>2, <1>5, <1>11, <1>12, <1>13, <1>14 DEF Validated
<1>16. Uniform(f)
  BY <1>2, <1>5, <1>6, <1>7, <1>8, <1>15 DEF Uniform
<1>17. QED
  BY <1>16 DEF f, R

\* The aggregator leaves the runs and their files alone, and publishes only what
\* it has read without an error.
LEMMA AggregateKept ==
  ASSUME BatchAssumption, IInv, Aggregate
  PROVE  /\ UNCHANGED <<files, journal, runs>> /\ agg_errors' \in BOOLEAN /\ AggInv'
<1> USE DEF AggInv
<1>1. AggInv /\ agg_errors \in BOOLEAN
  BY DEF IInv, Types
<1>2. CASE AggStart
  BY <1>1, <1>2 DEF AggStart, IsFile
<1>3. CASE AggRead
  <2> DEFINE read == [b \in Published |-> out[b]]
  <2>1. /\ agg_rows' = SetToSeq(RowsOf(read)) /\ agg_errors' = AllErrors(read)
        /\ agg_pc' = IF AllErrors(read) THEN "dead" ELSE "write"
        /\ UNCHANGED <<files, journal, runs, agg_out, agg_tmp>>
    BY <1>3 DEF AggRead
  <2>2. ASSUME agg_pc' = "write"
        PROVE  Uniform(agg_rows')
    <3>1. ~AllErrors(read)
      BY <2>1, <2>2
    <3>2. DOMAIN read = Batches
      BY <3>1 DEF AllErrors
    <3>3. \A b \in Batches : read[b] \in File
      BY <3>2 DEF Published, IInv, Types
    <3> HIDE DEF read
    <3>4. QED
      BY <2>1, <3>1, <3>2, <3>3, ReadIsUniform
  <2>3. agg_errors' \in BOOLEAN
    BY <2>1 DEF AllErrors
  <2> HIDE DEF read
  <2>4. agg_pc' # "link" /\ agg_out' = agg_out
    BY <2>1
  <2>5. AggInv'
    BY <1>1, <2>2, <2>4 DEF Uniform, Validated, Duplicates, IsFile
  <2>6. QED
    BY <2>1, <2>3, <2>5
<1>4. CASE AggWrite
  <2>1. /\ agg_pc = "write" /\ agg_tmp' = agg_rows /\ agg_pc' = "link"
        /\ UNCHANGED <<files, journal, runs, agg_out, agg_errors>>
    BY <1>4 DEF AggWrite
  <2>2. Uniform(agg_tmp)'
    BY <1>1, <2>1
  <2>3. IsFile(agg_out') => Uniform(agg_out')
    BY <1>1, <2>1
  <2>4. AggInv'
    BY <2>1, <2>2, <2>3
  <2>5. QED
    BY <1>1, <2>1, <2>4
<1>5. CASE AggLink
  <2>1. /\ agg_pc = "link" /\ agg_out' = agg_tmp /\ agg_pc' = "unlink"
        /\ UNCHANGED <<files, journal, runs, agg_tmp, agg_errors>>
    BY <1>5 DEF AggLink
  <2>2. Uniform(agg_out)'
    BY <1>1, <2>1
  <2>3. AggInv'
    BY <2>1, <2>2
  <2>4. QED
    BY <1>1, <2>1, <2>3
<1>6. CASE AggUnlink
  BY <1>1, <1>6 DEF AggUnlink, IsFile
<1>7. CASE AggKill
  BY <1>1, <1>7 DEF AggKill, IsFile
<1>8. QED
  BY <1>2, <1>3, <1>4, <1>5, <1>6, <1>7 DEF Aggregate

-----------------------------------------------------------------------------
(* The invariant holds *)

\* Its first state.
LEMMA InitInv ==
  ASSUME BatchAssumption, Init
  PROVE  IInv
<1>1. Cardinality(Configs) \in Nat
  BY FS_CardinalityType DEF BatchAssumption
<1>2. Types
  <2>1. out \in [Batches -> File \union {NoFile}] /\ tmp \in [Batches -> File \union {NoFile}]
        /\ failed \in [Batches -> [Attempts -> File \union {NoFile}]]
    BY DEF Init
  <2>2. journal \in [Runs -> [start : BOOLEAN, results : 0..Cardinality(Configs), end : BOOLEAN]]
        /\ todo \in [Runs -> SUBSET Configs] /\ exists \in [Runs -> BOOLEAN]
    BY <1>1 DEF Init
  <2>3. \A r \in Runs : pc[r] = "none"
    BY DEF Init
  <2>4. pc \in [Runs -> {"none", "ready", "open", "dead"} \union Active]
    BY DEF Init
  <2>5. DOMAIN conflicts = Batches /\ DOMAIN args = Runs /\ agg_errors \in BOOLEAN
    BY DEF Init
  <2>6. QED
    BY <2>1, <2>2, <2>3, <2>4, <2>5 DEF Types
<1>3. OneHolder /\ \A r \in Runs : RunInv(r)
  BY DEF Init, OneHolder, RunInv, Active, Closing
<1>4. TmpAuthored /\ OutPublished /\ AggInv
  BY DEF Init, TmpAuthored, OutPublished, AggInv, IsFile
<1>5. QED
  BY <1>2, <1>3, <1>4 DEF IInv

\* A step of a run.
LEMMA RunStepInv ==
  ASSUME BatchAssumption, MixedAssumption, IInv, NEW r \in Runs, RunStep(r)
  PROVE  IInv'
<1>1. /\ Types /\ OneHolder /\ (\A s \in Runs : RunInv(s)) /\ RunInv(r)
      /\ TmpAuthored /\ OutPublished /\ AggInv
  BY DEF IInv
<1>2. Types' /\ OneHolder' /\ RunInv(r)' /\ TmpAuthored' /\ OutPublished'
  BY <1>1, RunTypes, RunOneHolder, RunKept, RunTmpAuthored, RunOutPublished
<1>3. ASSUME NEW s \in Runs
      PROVE  RunInv(s)'
  BY <1>1, <1>2, OthersKept
<1>4. AggInv'
  <2>1. UNCHANGED aggregate
    BY <1>1, RunFrame
  <2>2. QED
    BY <1>1, <2>1 DEF aggregate, AggInv
<1>5. QED
  BY <1>2, <1>3, <1>4 DEF IInv

\* A step of the operator.
LEMMA MoveTmpInv ==
  ASSUME BatchAssumption, IInv, NEW b \in Batches, MoveTmp(b)
  PROVE  IInv'
<1>1. /\ tmp' = [tmp EXCEPT ![b] = NoFile]
      /\ UNCHANGED <<out, failed, conflicts, journal, runs, aggregate>>
      /\ \A r \in Runs : pc[r] \notin {"none", "dead"} => Batch(r) # b
  BY DEF MoveTmp
<1>2. Types'
  BY <1>1 DEF IInv, Types, runs, aggregate
<1>3. OneHolder' /\ AggInv'
  BY <1>1 DEF IInv, OneHolder, AggInv, Batch, runs, aggregate
<1>4. ASSUME NEW r \in Runs
      PROVE  RunInv(r)'
  <2>1. RunInv(r)
    BY DEF IInv
  <2>2. CASE pc[r] \in Active
    <3>1. Batch(r) # b
      BY <1>1, <2>2 DEF Active, Closing
    <3>2. tmp'[Batch(r)] = tmp[Batch(r)]
      BY <1>1, <2>2, <3>1, Held DEF IInv, Types
    <3>3. QED
      BY <1>1, <2>1, <3>2 DEF RunInv, Opened, Batch, RowsValid, runs
  <2>3. CASE pc[r] \notin Active
    BY <1>1, <2>1, <2>3 DEF RunInv, Active, Closing, runs
  <2>4. QED
    BY <2>2, <2>3
<1>5. TmpAuthored'
  <2>1. ASSUME NEW d \in Batches, IsFile(tmp'[d])
        PROVE  \E r \in Runs : Batch(r)' = d /\ Opened(r, tmp[d])'
    <3>1. tmp'[d] = tmp[d]
      BY <1>1, <2>1 DEF IInv, Types, IsFile
    <3>2. PICK r \in Runs : Batch(r) = d /\ Opened(r, tmp[d])
      BY <2>1, <3>1 DEF IInv, TmpAuthored
    <3>3. QED
      BY <1>1, <3>1, <3>2 DEF Opened, Batch, runs
  <2>2. QED
    BY <2>1 DEF TmpAuthored, IsFile
<1>6. OutPublished'
  BY <1>1 DEF IInv, OutPublished, PublishedBy, Batch, runs, IsFile
<1>7. QED
  BY <1>2, <1>3, <1>4, <1>5, <1>6 DEF IInv

\* When the runs' files and state stay as they are, so does what IInv says of them.
LEMMA FilesKeptInv ==
  ASSUME IInv, UNCHANGED <<files, journal, runs>>, agg_errors' \in BOOLEAN, AggInv'
  PROVE  IInv'
<1> USE DEF files, runs
<1>1. Types' /\ OneHolder'
  BY DEF IInv, Types, OneHolder, Batch
<1>2. ASSUME NEW r \in Runs
      PROVE  RunInv(r)'
  <2>1. RunInv(r)
    BY DEF IInv
  <2>2. QED
    BY <2>1 DEF RunInv, Opened, Batch, RowsValid, IsFile
<1>3. TmpAuthored'
  BY DEF IInv, TmpAuthored, Opened, Batch, IsFile
<1>4. OutPublished'
  BY DEF IInv, OutPublished, PublishedBy, Batch, IsFile
<1>5. QED
  BY <1>1, <1>2, <1>3, <1>4 DEF IInv

\* Every step.
LEMMA StepInv ==
  ASSUME BatchAssumption, MixedAssumption, IInv, [Next]_vars
  PROVE  IInv'
<1>1. CASE \E r \in Runs : RunStep(r)
  BY <1>1, RunStepInv
<1>2. CASE \E b \in Batches : MoveTmp(b)
  BY <1>2, MoveTmpInv
<1>3. CASE Aggregate
  BY <1>3, AggregateKept, FilesKeptInv
<1>4. CASE UNCHANGED vars
  <2>1. UNCHANGED <<files, journal, runs>> /\ UNCHANGED aggregate
    BY <1>4 DEF vars
  <2>2. agg_errors' \in BOOLEAN /\ AggInv'
    BY <2>1 DEF aggregate, IInv, Types, AggInv, IsFile
  <2>3. QED
    BY <2>1, <2>2, FilesKeptInv
<1>5. QED
  BY <1>1, <1>2, <1>3, <1>4 DEF Next

\* The inductive invariant holds in every reachable state: run_cross_host_validation.py
\* and aggregate_cross_host_batches.py keep the files and the journal in step.
THEOREM Invariance ==
  ASSUME BatchAssumption, MixedAssumption
  PROVE  Spec => []IInv
<1>1. Init => IInv
  BY InitInv
<1>2. IInv /\ [Next]_vars => IInv'
  BY StepInv
<1>3. QED
  BY <1>1, <1>2, PTL DEF Spec

-----------------------------------------------------------------------------
(* The theorems *)

\* The rows of a written file.
LEMMA WrittenRows ==
  ASSUME BatchAssumption, NEW r, NEW b \in Batches, NEW left, NEW f, WrittenBy(r, b, left, f)
  PROVE  /\ \A row \in RowsOfFile(f) : row \in RowType /\ row.run = r /\ row.repeat = b
         /\ {row.config : row \in RowsOfFile(f)} = Configs \ left
         /\ Cardinality(RowsOfFile(f)) = Len(f)
<1> DEFINE n == Len(f)
           R == RowsOfFile(f)
           g == [i \in 1..n |-> f[i]]
<1>1. f \in Seq(RowType) /\ n \in Nat /\ DOMAIN f = 1..n
  BY DEF WrittenBy, File
<1>2. \A row \in R : \E i \in 1..n : row = f[i]
  BY <1>1 DEF RowsOfFile
<1>3. \A i \in 1..n : f[i] \in R /\ f[i] \in RowType /\ f[i].run = r /\ f[i].repeat = b
  BY <1>1 DEF RowsOfFile, WrittenBy
<1> HIDE DEF R
<1>4. \A row \in R : row \in RowType /\ row.run = r /\ row.repeat = b
  BY <1>2, <1>3
<1>5. {row.config : row \in R} = Configs \ left
  BY <1>2, <1>3 DEF WrittenBy
<1>6. g \in Bijection(1..n, R)
  <2>1. g \in [1..n -> R] /\ \A row \in R : \E i \in 1..n : g[i] = row
    BY <1>2, <1>3
  <2>2. \A i, j \in 1..n : g[i] = g[j] => i = j
    BY DEF WrittenBy
  <2> HIDE DEF g, n
  <2>3. QED
    BY <2>1, <2>2 DEF Bijection, Injection, IsInjective, Surjection
<1>7. Cardinality(R) = n
  <2>1. IsFiniteSet(1..n) /\ Cardinality(1..n) = n
    BY <1>1, FS_Interval
  <2>2. ExistsBijection(1..n, R)
    BY <1>6 DEF ExistsBijection
  <2> HIDE DEF n
  <2>3. QED
    BY <2>1, <2>2, FS_Bijection
<1>8. QED
  BY <1>4, <1>5, <1>7 DEF R

\* TypeOK: the files of a batch hold rows of that batch, written by runs.
THEOREM TypeCorrect ==
  ASSUME BatchAssumption, MixedAssumption
  PROVE  Spec => []TypeOK
<1>1. IInv => TypeOK
  <2>1. SUFFICES ASSUME IInv PROVE TypeOK
    OBVIOUS
  <2>2. ASSUME NEW b \in Batches, NEW f \in {out[b], tmp[b]}, IsFile(f),
               NEW row \in RowsOfFile(f)
        PROVE  row.repeat = b /\ row.run \in Runs
    <3>1. PICK r \in Runs : WrittenBy(r, b, todo[r], f)
      BY <2>1, <2>2 DEF IInv, TmpAuthored, OutPublished, PublishedBy, Whole, Opened, Author
    <3>2. QED
      BY <2>2, <3>1, WrittenRows
  <2>3. /\ \A r \in Runs : todo[r] \subseteq Configs
        /\ \A r \in Runs : journal[r].results \in 0..Cardinality(Configs)
        /\ agg_errors \in BOOLEAN
    BY <2>1 DEF IInv, Types
  <2>4. QED
    BY <2>2, <2>3 DEF TypeOK
<1>2. QED
  BY <1>1, Invariance, PTL

\* PublishedBatchIsWhole: a batch that publish_tmp_csv has published is one run's,
\* with a valid row of each configuration, whatever other runs of it did or were
\* killed at.
THEOREM PublishedIsWhole ==
  ASSUME BatchAssumption, MixedAssumption
  PROVE  Spec => []PublishedBatchIsWhole
<1>1. IInv => PublishedBatchIsWhole
  <2>1. SUFFICES ASSUME IInv, NEW b \in Batches, IsFile(out[b])
                 PROVE  /\ Cardinality({row.run : row \in RowsOfFile(out[b])}) = 1
                        /\ {row.config : row \in RowsOfFile(out[b])} = Configs
                        /\ Len(out[b]) = Cardinality(Configs)
                        /\ \A row \in RowsOfFile(out[b]) : row.valid
    BY DEF PublishedBatchIsWhole
  <2>2. PICK r \in Runs : Batch(r) = b /\ PublishedBy(r, out[b])
    BY <2>1 DEF IInv, OutPublished
  <2> DEFINE f == out[b]
             R == RowsOfFile(f)
  <2>3. /\ WrittenBy(r, b, {}, f) /\ Len(f) = Cardinality(Configs)
        /\ \A i \in 1..Len(f) : f[i].valid
    BY <2>2 DEF PublishedBy, Whole
  <2>4. \A row \in R : row.valid
    BY <2>3 DEF RowsOfFile, WrittenBy, File
  <2> HIDE DEF f
  <2>5. (\A row \in R : row.run = r) /\ {row.config : row \in R} = Configs
    <3>1. WrittenBy(r, b, {}, f)
      BY <2>3
    <3>2. Configs \ {} = Configs
      OBVIOUS
    <3>3. QED
      BY <3>1, <3>2, WrittenRows
  <2>6. R # {}
    BY <2>5 DEF BatchAssumption
  <2> HIDE DEF R
  <2>7. {row.run : row \in R} = {r}
    BY <2>5, <2>6
  <2>8. Cardinality({row.run : row \in R}) = 1
    BY <2>7, FS_Singleton
  <2>9. QED
    BY <2>3, <2>4, <2>5, <2>8 DEF f, R
<1>2. QED
  BY <1>1, Invariance, PTL

\* JournalKeepsUp: write_journal has recorded every row that is in a temporary
\* file, the last one perhaps excepted, and a published batch's run as a whole.
THEOREM JournalIsComplete ==
  ASSUME BatchAssumption, MixedAssumption
  PROVE  Spec => []JournalKeepsUp
<1>1. IInv => JournalKeepsUp
  <2>1. SUFFICES ASSUME IInv PROVE JournalKeepsUp
    OBVIOUS
  <2>2. ASSUME NEW b \in Batches, IsFile(tmp[b]), NEW row \in RowsOfFile(tmp[b])
        PROVE  Cardinality({other \in RowsOfFile(tmp[b]) : other.run = row.run})
                 - journal[row.run].results \in {0, 1}
    <3>1. PICK r \in Runs : Batch(r) = b /\ Opened(r, tmp[b])
      BY <2>1, <2>2 DEF IInv, TmpAuthored
    <3>2. /\ WrittenBy(r, b, todo[r], tmp[b])
          /\ Len(tmp[b]) - journal[r].results \in {0, 1}
      BY <3>1 DEF Opened, Author, JournalFits
    <3>3. /\ \A other \in RowsOfFile(tmp[b]) : other.run = r
          /\ Cardinality(RowsOfFile(tmp[b])) = Len(tmp[b])
      BY <3>2, WrittenRows
    <3>4. {other \in RowsOfFile(tmp[b]) : other.run = row.run} = RowsOfFile(tmp[b])
      BY <2>2, <3>3
    <3>5. QED
      BY <2>2, <3>2, <3>3, <3>4
  <2>3. ASSUME NEW b \in Batches, IsFile(out[b]), NEW row \in RowsOfFile(out[b])
        PROVE  /\ journal[row.run].start /\ journal[row.run].end
               /\ journal[row.run].results = Cardinality(Configs)
    <3>1. PICK r \in Runs : PublishedBy(r, out[b]) /\ Batch(r) = b
      BY <2>1, <2>3 DEF IInv, OutPublished
    <3>2. /\ WrittenBy(r, b, todo[r], out[b])
          /\ journal[r].start /\ journal[r].end /\ journal[r].results = Cardinality(Configs)
      BY <3>1 DEF PublishedBy, Whole
    <3>3. row.run = r
      BY <2>3, <3>2, WrittenRows
    <3>4. QED
      BY <3>2, <3>3
  <2>4. QED
    BY <2>2, <2>3 DEF JournalKeepsUp
<1>2. QED
  BY <1>1, Invariance, PTL

\* AggregateIsUniform and AggregateValidates: what aggregate_cross_host_batches.py
\* publishes has each row once and one commit at both ends, and passes
\* validate_cross_host_artifact.py.
THEOREM AggregateIsSound ==
  ASSUME BatchAssumption, MixedAssumption
  PROVE  Spec => [](AggregateIsUniform /\ AggregateValidates)
<1>1. IInv => AggregateIsUniform /\ AggregateValidates
  BY DEF IInv, AggInv, Uniform, AggregateIsUniform, AggregateValidates
<1>2. QED
  BY <1>1, Invariance, PTL

\* OutputsImmutable and NothingLost: no step replaces a published batch or a failed
\* artifact, and a temporary file only disappears into a file that is kept, though
\* the checks for existing files are made long before the files are written.
THEOREM FilesAreKept ==
  ASSUME BatchAssumption, MixedAssumption
  PROVE  Spec => [][OutputsImmutable /\ NothingLost]_vars
<1>1. ASSUME IInv, Next
      PROVE  OutputsImmutable /\ NothingLost
  <2>1. ASSUME NEW r \in Runs, RunStep(r)
        PROVE  OutputsImmutable /\ NothingLost
    <3>1. Types /\ RunInv(r)
      BY <1>1 DEF IInv
    <3>2. OutputsImmutable
      BY <2>1, <3>1, OnlyLinkPublishes DEF OutputsImmutable, IsFile, Types
    <3>3. ASSUME NEW b \in Batches, IsFile(tmp[b]), ~IsFile(tmp'[b])
          PROVE  tmp[b] \in {out'[b]} \union {failed'[b][a] : a \in Attempts}
                            \union conflicts'[b] \union moved'
      <4>1. CASE PublishUnlink(r)
        <5>1. b = Batch(r)
          BY <3>1, <3>3, <4>1 DEF PublishUnlink, Types, IsFile
        <5>2. out'[b] = tmp[b]
          BY <3>1, <4>1, <5>1 DEF PublishUnlink, RunInv
        <5>3. QED
          BY <5>2
      <4>2. CASE Preserve(r)
        <5>1. b = Batch(r)
          BY <3>1, <3>3, <4>2 DEF Preserve, Types, IsFile
        <5>2. CASE exists[r]
          <6>1. conflicts' = [conflicts EXCEPT ![b] = @ \union {tmp[b]}]
            BY <4>2, <5>1, <5>2 DEF Preserve
          <6>2. tmp[b] \in conflicts'[b]
            BY <3>1, <6>1 DEF Types
          <6>3. QED
            BY <6>2
        <5>3. CASE ~exists[r]
          <6>1. pc[r] \in Active
            BY <4>2 DEF Preserve, Active, Closing
          <6>2. args[r].attempt \in Attempts
            BY <3>1, <6>1, Held
          <6>3. failed' = [failed EXCEPT ![b][args[r].attempt] = tmp[b]]
            BY <4>2, <5>1, <5>3 DEF Preserve
          <6>4. failed'[b][args[r].attempt] = tmp[b]
            BY <3>1, <6>2, <6>3 DEF Types
          <6>5. QED
            BY <6>2, <6>4
        <5>4. QED
          BY <5>2, <5>3
      <4>3. CASE ~PublishUnlink(r) /\ ~Preserve(r)
        <5>1. CASE WriteRow(r)
          <6>1. pc'[r] \in Active /\ b = Batch(r) /\ Batch(r)' = Batch(r)
            BY <3>1, <3>3, <5>1 DEF WriteRow, Go, Types, Active, IsFile, Batch
          <6>2. RunInv(r)'
            BY <2>1, <3>1, RunKept
          <6>3. tmp'[b] \in File
            BY <6>1, <6>2 DEF RunInv, Opened, Author, WrittenBy
          <6>4. QED
            BY <3>3, <6>3, NoFileIsNone
        <5>2. CASE ~WriteRow(r)
          <6>1. tmp' = tmp
                \/ (tmp[Batch(r)] = NoFile /\ tmp' = [tmp EXCEPT ![Batch(r)] = <<>>])
            BY <2>1, <4>3, <5>2
               DEF RunStep, Start, JournalStart, OpenTmp, JournalRow, JournalEnd, Validate,
                   PublishLink, PreserveCheck, Kill, files
          <6>2. tmp'[b] = tmp[b]
            BY <3>1, <3>3, <6>1 DEF Types, IsFile
          <6>3. QED
            BY <3>3, <6>2
        <5>3. QED
          BY <5>1, <5>2
      <4>4. QED
        BY <4>1, <4>2, <4>3
    <3>4. ASSUME NEW b \in Batches, NEW a \in Attempts, IsFile(failed[b][a])
          PROVE  failed'[b][a] = failed[b][a]
      <4>1. CASE Preserve(r)
        <5>1. exists[r] = IsFile(failed[Batch(r)][args[r].attempt])
          BY <3>1, <4>1 DEF Preserve, RunInv
        <5>2. \/ failed' = failed
              \/ /\ ~exists[r]
                 /\ failed' = [failed EXCEPT ![Batch(r)][args[r].attempt] = tmp[Batch(r)]]
          BY <4>1 DEF Preserve
        <5>3. QED
          BY <3>1, <3>4, <5>1, <5>2 DEF Types
      <4>2. CASE ~Preserve(r)
        BY <2>1, <4>2
           DEF RunStep, Start, JournalStart, OpenTmp, WriteRow, JournalRow, JournalEnd,
               Validate, PublishLink, PublishUnlink, PreserveCheck, Kill, files
      <4>3. QED
        BY <4>1, <4>2
    <3>5. QED
      BY <3>2, <3>3, <3>4 DEF NothingLost
  <2>2. ASSUME NEW d \in Batches, MoveTmp(d)
        PROVE  OutputsImmutable /\ NothingLost
    BY <1>1, <2>2 DEF MoveTmp, OutputsImmutable, NothingLost, IInv, Types, IsFile
  <2>3. ASSUME Aggregate
        PROVE  OutputsImmutable /\ NothingLost
    BY <1>1, <2>3, AggregateKept DEF OutputsImmutable, NothingLost, files
  <2>4. QED
    BY <1>1, <2>1, <2>2, <2>3 DEF Next
<1>2. IInv /\ [Next]_vars => [OutputsImmutable /\ NothingLost]_vars
  BY <1>1
<1>3. QED
  BY <1>2, Invariance, PTL DEF Spec

=============================================================================
