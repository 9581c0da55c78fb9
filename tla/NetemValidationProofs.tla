----------------------- MODULE NetemValidationProofs -----------------------
(***************************************************************************)
(* Theorems about NetemValidation, for any number of runners, conditions,  *)
(* experiments and messages, and for any number of failing commands,       *)
(* interrupts and kills.                                                   *)
(*                                                                         *)
(* open(tmp_csv, "x") lets one runner at a time hold the temporary file,   *)
(* and one that raises or is killed never touches it again, so the rows    *)
(* in it are those of the experiments its runner has done (RowsBy): a      *)
(* published file is one runner's and whole.  Runners that do not overlap  *)
(* leave the interface clean or say that it is not (LeavesClean).          *)
(***************************************************************************)
EXTENDS NetemValidation, CollectionLemmas

-----------------------------------------------------------------------------
(* The inductive invariant *)

Conds == {Conditions[k] : k \in DOMAIN Conditions}

\* What may be set on an interface.
Rules == {Clean} \union Conds

Result ==
  [accepted : Nat, rejected : Nat, timeouts : Nat, errors : Nat,
   under : SUBSET Rules]

RowType ==
  [by : Runners, cond : Conds, cell : 1..RunsPer, execution_valid : BOOLEAN,
   result_success : BOOLEAN, result : Result]

File == Seq(RowType)

\* Where a runner measures, and where it has measured everything.
Measuring == {"clear", "check", "add", "snapshot", "connect", "exchange", "row"}
Closing == {"validate", "link", "unlink"}
Cleaning == {"cleanup_del", "cleanup_show"}
Places == Ended \union {"open"} \union Measuring \union Closing \union Cleaning

Types ==
  /\ qdisc \in {Clean} \union (Conds \ {"control"})
  /\ tmp \in File \union {NoFile} /\ final \in File \union {NoFile}
  /\ pc \in [Runners -> Places]
  /\ cond \in [Runners -> DOMAIN Conditions] /\ cell \in [Runners -> 1..RunsPer]
  /\ snap \in [Runners -> Rules] /\ raising \in [Runners -> BOOLEAN]
  /\ ret \in [Runners -> {"none", "exit", "condition", "publish"}]
  /\ result \in [Runners -> Result]
  /\ exec_failure \in [Runners -> BOOLEAN] /\ reported \in [Runners -> BOOLEAN]

\* The runner may still write, link or unlink the temporary file.
Holds(r) ==
  \/ pc[r] \in Measuring \union Closing
  \/ pc[r] \in Cleaning /\ ~raising[r] /\ ret[r] \in {"condition", "publish"}

OneHolder == \A r, s \in Runners : Holds(r) /\ Holds(s) => r = s

\* Experiment d under the condition k has a row, when the runner is at experiment
\* c under the condition n.
Done(at, n, c, k, d) == k < n \/ (k = n /\ (d < c \/ at \notin Measuring))

\* f holds r's rows, those of the experiments that it has done.
RowsBy(r, at, n, c, f) ==
  /\ f \in File
  /\ \A i \in 1..Len(f) : f[i].by = r
  /\ \A i \in 1..Len(f) : \E k \in DOMAIN Conditions :
       f[i].cond = Conditions[k] /\ Done(at, n, c, k, f[i].cell)
  /\ \A k \in DOMAIN Conditions, d \in 1..RunsPer : Done(at, n, c, k, d) =>
       \E i \in 1..Len(f) : f[i].cond = Conditions[k] /\ f[i].cell = d

Checked(f) == Complete(f) /\ RowsOK(f)

\* An experiment has no more outcomes than messages.
Outcomes(res) == res.accepted + res.rejected + res.timeouts + res.errors

Counted(at, res) ==
  /\ Outcomes(res) <= Messages
  /\ at = "exchange" =>
       res.timeouts = 0 /\ res.errors = 0 /\ res.accepted + res.rejected < Messages

\* Where an exception goes, and where cleanup_tc_and_verify was called.
Raised(r) ==
  /\ raising[r] => pc[r] \in Cleaning \union {"end", "killed"}
  /\ raising[r] => ret[r] \in {"condition", "exit"}
  /\ pc[r] \in Cleaning => ret[r] # "none"
  /\ pc[r] = "add" => Condition(r) # "control"

\* What the holder of the temporary file has done.
Kept(r) ==
  /\ RowsBy(r, pc[r], cond[r], cell[r], tmp)
  /\ pc[r] \notin {"connect", "exchange", "row"} => cell[r] = 1
  /\ pc[r] \in Closing \/ (pc[r] \in Cleaning /\ ret[r] = "publish") =>
       cond[r] = Len(Conditions)
  /\ pc[r] \in {"link", "unlink"} \/ (pc[r] \in Cleaning /\ ret[r] = "publish") =>
       Checked(tmp)
  /\ pc[r] = "unlink" => final = tmp

\* A runner that has not opened its file is at its first experiment.
Fresh(r) == pc[r] \in {"none", "open"} => cond[r] = 1 /\ cell[r] = 1

RunInv(r) ==
  Counted(pc[r], result[r]) /\ Raised(r) /\ Fresh(r) /\ (Holds(r) => Kept(r))

\* A published file is an artifact, and one runner's.
FinalWhole ==
  final # NoFile =>
    ArtifactOK(final) /\ \E r \in Runners : \A i \in 1..Len(final) : final[i].by = r

IInv ==
  Types /\ OneHolder /\ (\A r \in Runners : RunInv(r)) /\ FinalWhole

\* Without overlap, one runner at a time ...
OneAtATime ==
  \A r, s \in Runners : r < s =>
    /\ pc[r] = "none" => pc[s] = "none"
    /\ pc[r] \notin Ended => pc[s] = "none"
\* ... which leaves the interface clean, or says that it is not.
LeavesClean(r) ==
  /\ pc[r] \in {"link", "unlink"} => qdisc = Clean
  /\ pc[r] = "end" /\ (\A s \in Runners : s > r => pc[s] = "none") =>
       qdisc = Clean \/ reported[r]

AInv == OneAtATime /\ \A r \in Runners : LeavesClean(r)

-----------------------------------------------------------------------------
(* Files *)

\* The absence of a file is not a file of rows.
LEMMA NoFileIsNone ==
  ASSUME NEW f \in File
  PROVE  f # NoFile
<1>1. SUFFICES ASSUME f = NoFile PROVE FALSE
  OBVIOUS
<1>2. Len(f) = 1 /\ f[1].by = 0
  BY <1>1 DEF NoFile
<1>3. f[1] \in RowType
  BY <1>2 DEF File
<1>4. f[1].by \in Runners
  BY <1>3 DEF RowType
<1>5. QED
  BY <1>2, <1>4 DEF Runners

LEMMA RowOfFile ==
  ASSUME NEW f \in File, NEW i \in 1..Len(f)
  PROVE  /\ f[i].by \in Runners /\ f[i].cond \in Conds /\ f[i].cell \in 1..RunsPer
         /\ f[i].execution_valid \in BOOLEAN
<1>1. f[i] \in RowType
  BY DEF File
<1>2. QED
  BY <1>1 DEF RowType

\* A runner that has just opened its file has done nothing.
LEMMA JustOpened ==
  ASSUME BoundAssumption, ConditionAssumption, NEW r
  PROVE  RowsBy(r, "clear", 1, 1, <<>>)
<1>1. <<>> \in File /\ Len(<<>>) = 0
  BY DEF File
<1>2. ASSUME NEW k \in DOMAIN Conditions, NEW d \in 1..RunsPer
      PROVE  ~Done("clear", 1, 1, k, d)
  BY DEF Done, Measuring, ConditionAssumption, BoundAssumption
<1>3. QED
  BY <1>1, <1>2 DEF RowsBy

\* A runner that moves on without measuring has done the same experiments.
LEMMA SameRows ==
  ASSUME NEW r, NEW at, NEW n, NEW c, NEW f, RowsBy(r, at, n, c, f),
         NEW at2, NEW n2, NEW c2,
         \A k \in DOMAIN Conditions, d \in 1..RunsPer :
           Done(at2, n2, c2, k, d) <=> Done(at, n, c, k, d)
  PROVE  RowsBy(r, at2, n2, c2, f)
<1>1. \A i \in 1..Len(f) : f[i].cell \in 1..RunsPer
  BY RowOfFile DEF RowsBy
<1>2. QED
  BY <1>1 DEF RowsBy

\* One more row.
LEMMA OneMoreRow ==
  ASSUME NEW r, NEW n \in DOMAIN Conditions, NEW c \in 1..RunsPer,
         NEW f, RowsBy(r, "row", n, c, f), NEW at2, NEW c2,
         NEW row \in RowType, row.by = r, row.cond = Conditions[n], row.cell = c,
         \A k \in DOMAIN Conditions, d \in 1..RunsPer :
           Done(at2, n, c2, k, d) <=> Done("row", n, c, k, d) \/ (k = n /\ d = c)
  PROVE  RowsBy(r, at2, n, c2, Append(f, row))
<1> DEFINE g == Append(f, row)
           L == Len(f)
<1>1. f \in Seq(RowType) /\ L \in Nat
  BY DEF RowsBy, File
<1>2. g \in Seq(RowType) /\ Len(g) = L + 1
  BY <1>1
<1>3. (\A i \in 1..L : g[i] = f[i]) /\ g[L + 1] = row
  BY <1>1
<1>4. \A i \in 1..Len(g) : i = L + 1 \/ i \in 1..L
  BY <1>1, <1>2
<1>5. (\A i \in 1..L : i \in 1..Len(g)) /\ L + 1 \in 1..Len(g)
  BY <1>1, <1>2
<1>6. \A i \in 1..L : f[i].cell \in 1..RunsPer
  BY RowOfFile DEF RowsBy
<1> HIDE DEF g
<1>7. \A i \in 1..L : f[i].by = r /\ \E k \in DOMAIN Conditions :
        f[i].cond = Conditions[k] /\ Done(at2, n, c2, k, f[i].cell)
  BY <1>6 DEF RowsBy
<1>8. Done(at2, n, c2, n, c)
  OBVIOUS
<1>9. \A i \in 1..Len(g) : g[i].by = r /\ \E k \in DOMAIN Conditions :
        g[i].cond = Conditions[k] /\ Done(at2, n, c2, k, g[i].cell)
  BY <1>3, <1>4, <1>7, <1>8
<1>10. ASSUME NEW k \in DOMAIN Conditions, NEW d \in 1..RunsPer, Done(at2, n, c2, k, d)
       PROVE  \E i \in 1..Len(g) : g[i].cond = Conditions[k] /\ g[i].cell = d
  <2>1. CASE k = n /\ d = c
    BY <1>3, <1>5, <2>1
  <2>2. CASE Done("row", n, c, k, d)
    <3>1. PICK i \in 1..L : f[i].cond = Conditions[k] /\ f[i].cell = d
      BY <2>2 DEF RowsBy
    <3>2. QED
      BY <1>3, <1>5, <3>1
  <2>3. QED
    BY <1>10, <2>1, <2>2
<1>11. QED
  BY <1>2, <1>9, <1>10 DEF RowsBy, File, g

\* All experiments under all conditions.
LEMMA AllDone ==
  ASSUME ConditionAssumption, NEW r, NEW at, at \notin Measuring, NEW c, NEW f,
         RowsBy(r, at, Len(Conditions), c, f), Checked(f)
  PROVE  ArtifactOK(f) /\ \A i \in 1..Len(f) : f[i].by = r
<1>1. f \in Seq(RowType) /\ DOMAIN f = 1..Len(f) /\ DOMAIN Conditions = 1..Len(Conditions)
      /\ Len(Conditions) \in Nat
  BY DEF RowsBy, File, ConditionAssumption
<1>2. \A k \in DOMAIN Conditions, d \in 1..RunsPer : Done(at, Len(Conditions), c, k, d)
  BY <1>1 DEF Done
<1>3. \A k \in DOMAIN Conditions, d \in 1..RunsPer :
        \E i \in DOMAIN f : f[i].cond = Conditions[k] /\ f[i].cell = d
  <2>1. \A k \in DOMAIN Conditions, d \in 1..RunsPer :
          \E i \in 1..Len(f) : f[i].cond = Conditions[k] /\ f[i].cell = d
    BY <1>2 DEF RowsBy
  <2>2. QED
    BY <1>1, <2>1
<1>4. \A i \in DOMAIN f : f[i].cond \in Conds /\ f[i].cell \in 1..RunsPer
  BY <1>1, RowOfFile DEF RowsBy
<1>5. {<<f[i].cond, f[i].cell>> : i \in DOMAIN f} = Conds \X (1..RunsPer)
  BY <1>3, <1>4 DEF Conds
<1>6. QED
  BY <1>5 DEF ArtifactOK, Checked, Conds, RowsBy

-----------------------------------------------------------------------------
(* Steps *)

Step(r) == RunnerStep(r) \/ Interrupt(r) \/ Kill(r)

\* What follows a cleanup, ok if the interface was read and is clean.
LEMMA CleanupOutcomes ==
  ASSUME Types, NEW r \in Runners, Raised(r), CleanupShow(r)
  PROVE  \E ok \in BOOLEAN : (ok => qdisc = Clean) /\
           \/ /\ ret[r] = "exit" /\ Go(r, "end") /\ reported' = [reported EXCEPT ![r] = ~ok]
              /\ UNCHANGED <<cond, raising, ret>>
           \/ /\ ret[r] = "condition" /\ Go(r, "cleanup_del")
              /\ ret' = [ret EXCEPT ![r] = "exit"] /\ UNCHANGED <<cond, raising, reported>>
           \/ /\ ret[r] = "condition" /\ ~raising[r] /\ cond[r] < Len(Conditions)
              /\ cond' = [cond EXCEPT ![r] = @ + 1] /\ Go(r, "clear")
              /\ UNCHANGED <<raising, ret, reported>>
           \/ /\ ret[r] = "condition" /\ ~raising[r] /\ ~(cond[r] < Len(Conditions))
              /\ Go(r, "validate") /\ UNCHANGED <<cond, raising, ret, reported>>
           \/ /\ ret[r] = "publish" /\ Go(r, IF ok THEN "link" ELSE "end")
              /\ reported' = [reported EXCEPT ![r] = ~ok]
              /\ UNCHANGED <<cond, raising, ret>>
<1>1. ret[r] \in {"exit", "condition", "publish"} /\ raising[r] \in BOOLEAN
  BY DEF CleanupShow, Raised, Cleaning, Types
<1>2. PICK ok \in BOOLEAN : (ok => qdisc = Clean) /\ Cleaned(r, ok)
  BY DEF CleanupShow, Show
<1>3. CASE ret[r] = "exit"
  BY <1>2, <1>3 DEF Cleaned
<1>4. CASE ret[r] = "condition" /\ (raising[r] \/ ~ok)
  BY <1>2, <1>4 DEF Cleaned, RaiseInMain, CleanUp
<1>5. CASE ret[r] = "condition" /\ ~raising[r] /\ ok
  BY <1>2, <1>5 DEF Cleaned
<1>6. CASE ret[r] = "publish"
  BY <1>2, <1>6 DEF Cleaned
<1>7. QED
  BY <1>1, <1>2, <1>3, <1>4, <1>5, <1>6

\* What a runner's step leaves alone: the other runners, and the files, unless
\* it opens, writes or unlinks the temporary one or links the final one.
LEMMA Frame ==
  ASSUME Types, NEW r \in Runners, Raised(r), Step(r)
  PROVE  /\ \A s \in Runners \ {r} :
              /\ pc'[s] = pc[s] /\ cond'[s] = cond[s] /\ cell'[s] = cell[s]
              /\ raising'[s] = raising[s] /\ ret'[s] = ret[s] /\ result'[s] = result[s]
              /\ reported'[s] = reported[s]
         /\ tmp' = tmp \/ (OpenTmp(r) /\ tmp = NoFile /\ tmp' = <<>>)
              \/ WriteRow(r) \/ Unlink(r)
         /\ final' = final \/ (Link(r) /\ final = NoFile /\ final' = tmp)
<1> USE DEF file_vars, run_vars, bounds, Go, CleanUp, Types, RaiseInMain, RaiseInCondition
<1>1. CASE Start(r)
  BY <1>1 DEF Start, Refuse
<1>2. CASE OpenTmp(r)
  BY <1>2 DEF OpenTmp
<1>3. CASE Clear(r)
  BY <1>3 DEF Clear
<1>4. CASE Check(r)
  BY <1>4 DEF Check, Show
<1>5. CASE Add(r)
  BY <1>5 DEF Add
<1>6. CASE Snapshot(r)
  BY <1>6 DEF Snapshot, Show
<1>7. CASE Connect(r)
  BY <1>7 DEF Connect, HelloAnswered
<1>8. CASE Exchange(r)
  BY <1>8 DEF Exchange
<1>9. CASE WriteRow(r)
  BY <1>9 DEF WriteRow
<1>10. CASE CleanupDelete(r)
  BY <1>10 DEF CleanupDelete
<1>11. CASE CleanupShow(r)
  <2>1. UNCHANGED <<tmp, final, cell, result>>
    BY <1>11 DEF CleanupShow
  <2>2. \A s \in Runners \ {r} : pc'[s] = pc[s] /\ cond'[s] = cond[s]
    BY <1>11, CleanupOutcomes
  <2>3. \A s \in Runners \ {r} : raising'[s] = raising[s] /\ ret'[s] = ret[s]
    BY <1>11, CleanupOutcomes
  <2>4. \A s \in Runners \ {r} : reported'[s] = reported[s]
    BY <1>11, CleanupOutcomes
  <2>5. QED
    BY <2>1, <2>2, <2>3, <2>4
<1>12. CASE Validate(r)
  BY <1>12 DEF Validate
<1>13. CASE Link(r)
  BY <1>13 DEF Link
<1>14. CASE Unlink(r)
  BY <1>14 DEF Unlink
<1>15. CASE Interrupt(r)
  BY <1>15 DEF Interrupt
<1>16. CASE Kill(r)
  BY <1>16 DEF Kill
<1>17. QED
  BY <1>1, <1>2, <1>3, <1>4, <1>5, <1>6, <1>7, <1>8, <1>9, <1>10, <1>11, <1>12,
     <1>13, <1>14, <1>15, <1>16 DEF Step, RunnerStep

\* A row that is written is one of the file's.
LEMMA RowWritten ==
  ASSUME Types, NEW r \in Runners
  PROVE  [by |-> r, cond |-> Condition(r), cell |-> cell[r],
          execution_valid |-> ExecValid(r, result[r]),
          result_success |-> ResultSuccess(result[r]), result |-> result[r]] \in RowType
<1>1. Condition(r) \in Conds /\ cell[r] \in 1..RunsPer /\ result[r] \in Result
  BY DEF Types, Condition, Conds
<1>2. ExecValid(r, result[r]) \in BOOLEAN
  BY DEF ExecValid
<1>3. ResultSuccess(result[r]) \in BOOLEAN
  BY DEF ResultSuccess
<1>4. QED
  BY <1>1, <1>2, <1>3 DEF RowType

\* Types, along a runner's step.
LEMMA StepTypes ==
  ASSUME BoundAssumption, ConditionAssumption, Types, NEW r \in Runners, RunInv(r), Step(r)
  PROVE  Types'
<1>1. RunsPer \in Nat \ {0} /\ DOMAIN Conditions = 1..Len(Conditions)
      /\ Len(Conditions) \in Nat /\ Raised(r) /\ NoResult \in Result
  BY DEF BoundAssumption, ConditionAssumption, RunInv, NoResult, Result
<1>2. qdisc \in Rules
  BY DEF Types, Rules
<1>3. <<>> \in File
  BY DEF File
<1> USE DEF file_vars, run_vars, bounds, Go, CleanUp, RaiseInMain, RaiseInCondition,
            Places, Measuring, Closing, Cleaning, Ended
<1>11. CASE Start(r)
  BY <1>11 DEF Start, Refuse, Types
<1>12. CASE OpenTmp(r)
  BY <1>3, <1>12 DEF OpenTmp, Types
<1>13. CASE Clear(r)
  BY <1>13 DEF Clear, Delete, Types
<1>14. CASE Check(r)
  BY <1>14 DEF Check, Show, Types
<1>15. CASE Add(r)
  <2>1. Condition(r) \in Conds \ {"control"}
    BY <1>15 DEF Add, RunInv, Raised, Types, Condition, Conds
  <2>2. QED
    BY <1>15, <2>1 DEF Add, Types
<1>16. CASE Snapshot(r)
  BY <1>2, <1>16 DEF Snapshot, Show, Types
<1>17. CASE Connect(r)
  <2>1. [NoResult EXCEPT !.under = {qdisc}] \in Result
    BY <1>1, <1>2 DEF Result
  <2>2. QED
    BY <1>17, <2>1 DEF Connect, HelloAnswered, Types
<1>18. CASE Exchange(r)
  <2> DEFINE res == [result[r] EXCEPT !.under = @ \union {qdisc}]
  <2>1. res \in Result
    BY <1>2 DEF Types, Result
  <2>2. /\ [res EXCEPT !.accepted = @ + 1] \in Result /\ [res EXCEPT !.rejected = @ + 1] \in Result
        /\ [res EXCEPT !.timeouts = 1] \in Result /\ [res EXCEPT !.errors = 1] \in Result
    <3> HIDE DEF res
    <3>1. QED
      BY <2>1 DEF Result
  <2>3. \E now \in Result : result' = [result EXCEPT ![r] = now]
    BY <1>18, <2>1, <2>2 DEF Exchange, DataAnswers
  <2>4. result' \in [Runners -> Result]
    BY <2>3 DEF Types
  <2>5. pc' = pc \/ pc' = [pc EXCEPT ![r] = "row"]
    BY <1>18 DEF Exchange
  <2>6. pc' \in [Runners -> Places]
    BY <2>5 DEF Types
  <2>7. QED
    BY <1>18, <2>4, <2>6 DEF Exchange, Types
<1>19. CASE WriteRow(r)
  <2>1. RowsBy(r, pc[r], cond[r], cell[r], tmp)
    BY <1>19 DEF WriteRow, RunInv, Kept, Holds
  <2>2. tmp' \in File
    BY <1>19, <2>1, RowWritten DEF WriteRow, RowsBy, File
  <2>3. cell' \in [Runners -> 1..RunsPer]
    BY <1>1, <1>19 DEF WriteRow, Types
  <2>4. exec_failure' \in [Runners -> BOOLEAN]
    BY <1>19 DEF WriteRow, Types
  <2>5. pc' \in [Runners -> Places] /\ ret' \in [Runners -> {"none", "exit", "condition", "publish"}]
    BY <1>19 DEF WriteRow, Types
  <2>6. result' \in [Runners -> Result]
    BY <1>1, <1>19 DEF WriteRow, Types
  <2>7. UNCHANGED <<qdisc, final, cond, snap, raising, reported>>
    BY <1>19 DEF WriteRow
  <2>8. QED
    BY <2>2, <2>3, <2>4, <2>5, <2>6, <2>7 DEF Types
<1>20. CASE CleanupDelete(r)
  BY <1>20 DEF CleanupDelete, Delete, Types
<1>21. CASE CleanupShow(r)
  <2>1. cond' \in [Runners -> DOMAIN Conditions]
    <3>1. UNCHANGED cond \/ (cond[r] < Len(Conditions) /\ cond' = [cond EXCEPT ![r] = @ + 1])
      BY <1>1, <1>21, CleanupOutcomes
    <3>2. CASE cond[r] < Len(Conditions) /\ cond' = [cond EXCEPT ![r] = @ + 1]
      <4>1. cond[r] + 1 \in DOMAIN Conditions
        BY <1>1, <3>2 DEF Types
      <4>2. QED
        BY <3>2, <4>1 DEF Types
    <3>3. QED
      BY <3>1, <3>2 DEF Types
  <2>2. pc' \in [Runners -> Places]
    BY <1>1, <1>21, CleanupOutcomes DEF Types
  <2>3. ret' \in [Runners -> {"none", "exit", "condition", "publish"}] /\ raising' = raising
    BY <1>1, <1>21, CleanupOutcomes DEF Types
  <2>4. reported' \in [Runners -> BOOLEAN]
    BY <1>1, <1>21, CleanupOutcomes DEF Types
  <2>5. UNCHANGED <<qdisc, tmp, final, cell, snap, exec_failure, result>>
    BY <1>21 DEF CleanupShow
  <2>6. QED
    BY <2>1, <2>2, <2>3, <2>4, <2>5 DEF Types
<1>22. CASE Validate(r)
  BY <1>22 DEF Validate, Types
<1>23. CASE Link(r)
  BY <1>23 DEF Link, Types
<1>24. CASE Unlink(r)
  BY <1>24 DEF Unlink, Types
<1>25. CASE Interrupt(r)
  BY <1>25 DEF Interrupt, Types
<1>26. CASE Kill(r)
  BY <1>26 DEF Kill, Types
<1>30. QED
  BY <1>11, <1>12, <1>13, <1>14, <1>15, <1>16, <1>17, <1>18, <1>19, <1>20, <1>21,
     <1>22, <1>23, <1>24, <1>25, <1>26 DEF Step, RunnerStep

\* The holder has a file, so there is one to be found by another runner.
LEMMA HolderHasFile ==
  ASSUME NEW r \in Runners, RunInv(r), Holds(r)
  PROVE  tmp \in File /\ tmp # NoFile
BY NoFileIsNone DEF RunInv, Kept, RowsBy

\* A runner comes to hold the temporary file by opening it.
LEMMA BecomesHolder ==
  ASSUME Types, NEW r \in Runners, RunInv(r), Step(r), Holds(r)'
  PROVE  Holds(r) \/ (OpenTmp(r) /\ tmp = NoFile /\ tmp' = <<>> /\ pc' = [pc EXCEPT ![r] = "clear"])
<1>1. Raised(r)
  BY DEF RunInv
<1> USE DEF Go, CleanUp, RaiseInMain, RaiseInCondition, Holds, Measuring, Closing, Cleaning
<1>11. CASE Start(r)
  BY <1>11 DEF Start, Refuse, Types
<1>12. CASE OpenTmp(r)
  BY <1>12 DEF OpenTmp, Types
<1>13. CASE Clear(r) \/ Check(r) \/ Add(r) \/ Snapshot(r)
  BY <1>13 DEF Clear, Check, Add, Snapshot
<1>17. CASE Connect(r) \/ Exchange(r) \/ WriteRow(r)
  BY <1>17 DEF Connect, Exchange, WriteRow
<1>20. CASE CleanupDelete(r)
  BY <1>20 DEF CleanupDelete, Types, run_vars
<1>21. CASE CleanupShow(r)
  <2>1. pc[r] = "cleanup_show" /\ raising' = raising
    BY <1>1, <1>21, CleanupOutcomes DEF CleanupShow
  <2>2. ret[r] = "exit" => pc'[r] = "end"
    BY <1>1, <1>21, CleanupOutcomes DEF Types
  <2>3. ret[r] = "condition" /\ raising[r] => pc'[r] = "cleanup_del" /\ ret'[r] = "exit"
    BY <1>1, <1>21, CleanupOutcomes DEF Types
  <2>4. ret[r] = "publish" => pc'[r] \in {"link", "end"}
    BY <1>1, <1>21, CleanupOutcomes DEF Types
  <2>5. ret[r] = "publish" => ~raising[r]
    BY <1>1 DEF Raised
  <2>6. ret[r] \in {"exit", "condition", "publish"}
    BY <1>1, <2>1 DEF Raised, Types
  <2>7. QED
    BY <2>1, <2>2, <2>3, <2>4, <2>5, <2>6
<1>22. CASE Validate(r) \/ Link(r) \/ Unlink(r)
  BY <1>22 DEF Validate, Link, Unlink
<1>25. CASE Interrupt(r)
  BY <1>25 DEF Interrupt, Types
<1>26. CASE Kill(r)
  BY <1>26 DEF Kill, Types
<1>30. QED
  BY <1>11, <1>12, <1>13, <1>17, <1>20, <1>21, <1>22, <1>25, <1>26 DEF Step, RunnerStep

\* OneHolder: a runner that opens the file finds none, so nobody holds one.
LEMMA StepOneHolder ==
  ASSUME IInv, NEW r \in Runners, Step(r)
  PROVE  OneHolder'
<1>1. Types /\ OneHolder /\ \A s \in Runners : RunInv(s)
  BY DEF IInv
<1>2. \A s \in Runners \ {r} : Holds(s)' <=> Holds(s)
  BY <1>1, Frame DEF Holds, RunInv
<1>3. ASSUME Holds(r)', NEW s \in Runners, Holds(s)
      PROVE  s = r
  <2>1. CASE Holds(r)
    BY <1>1, <1>3, <2>1 DEF OneHolder
  <2>2. CASE tmp = NoFile
    BY <1>1, <1>3, <2>2, HolderHasFile
  <2>3. QED
    BY <1>1, <1>3, <2>1, <2>2, BecomesHolder
<1>4. SUFFICES ASSUME NEW s \in Runners, NEW t \in Runners, Holds(s)', Holds(t)'
               PROVE  s = t
  BY DEF OneHolder
<1>5. QED
  BY <1>1, <1>2, <1>3, <1>4 DEF OneHolder

\* RunInv of the other runners: the files change only by the holder, or by one
\* that opens the temporary file, which it can only while there is no holder.
LEMMA OthersKept ==
  ASSUME IInv, NEW r \in Runners, Step(r), NEW s \in Runners, s # r
  PROVE  RunInv(s)'
<1>1. Types /\ OneHolder /\ RunInv(r) /\ RunInv(s) /\ Raised(r)
  BY DEF IInv, RunInv
<1>2. /\ pc'[s] = pc[s] /\ cond'[s] = cond[s] /\ cell'[s] = cell[s]
      /\ raising'[s] = raising[s] /\ ret'[s] = ret[s] /\ result'[s] = result[s]
  BY <1>1, Frame
<1>3. Holds(s)' <=> Holds(s)
  BY <1>2 DEF Holds
<1>4. ASSUME Holds(s)
      PROVE  tmp' = tmp /\ (pc[s] = "unlink" => final' = final)
  <2>1. ~Holds(r) /\ tmp # NoFile
    BY <1>1, <1>4, HolderHasFile DEF OneHolder
  <2>2. ~WriteRow(r) /\ ~Unlink(r) /\ ~Link(r)
    BY <2>1 DEF WriteRow, Unlink, Link, Holds, Measuring, Closing
  <2>3. QED
    BY <1>1, <2>1, <2>2, Frame
<1>5. Holds(s) => Kept(s)'
  BY <1>1, <1>2, <1>4 DEF RunInv, Kept
<1>6. Counted(pc[s], result[s])' /\ Raised(s)' /\ Fresh(s)'
  BY <1>1, <1>2 DEF RunInv, Counted, Raised, Fresh, Condition
<1>7. QED
  BY <1>3, <1>5, <1>6 DEF RunInv

\* Counted: a message has one outcome, and an experiment stops at its last.
LEMMA StepCounted ==
  ASSUME BoundAssumption, Types, NEW r \in Runners, RunInv(r), Step(r)
  PROVE  Counted(pc[r], result[r])'
<1>1. /\ Counted(pc[r], result[r]) /\ Messages \in Nat \ {0} /\ result[r] \in Result
      /\ Raised(r)
  BY DEF RunInv, BoundAssumption, Types
<1>2. Outcomes(NoResult) = 0
  BY DEF NoResult, Outcomes
<1> USE DEF Go, CleanUp, RaiseInMain, RaiseInCondition, run_vars
<1>3. CASE Connect(r)
  <2>1. result'[r] = [NoResult EXCEPT !.under = {qdisc}]
    BY <1>3 DEF Connect, Types
  <2>2. QED
    BY <1>1, <2>1 DEF Counted, Outcomes, NoResult
<1>4. CASE Exchange(r)
  <2> DEFINE res == [result[r] EXCEPT !.under = @ \union {qdisc}]
             a == result[r].accepted
             j == result[r].rejected
  <2>1. /\ pc[r] = "exchange" /\ result[r].timeouts = 0 /\ result[r].errors = 0
        /\ a + j < Messages /\ a \in Nat /\ j \in Nat
    BY <1>1, <1>4 DEF Exchange, Counted, Result
  <2>2. /\ res \in Result
        /\ res.accepted = a /\ res.rejected = j /\ res.timeouts = 0 /\ res.errors = 0
    BY <1>1, <2>1 DEF Result, Types, Rules
  <2>3. CASE /\ result' = [result EXCEPT ![r] = [res EXCEPT !.accepted = @ + 1]]
                \/ result' = [result EXCEPT ![r] = [res EXCEPT !.rejected = @ + 1]]
             /\ IF a + j = Messages - 1 THEN Go(r, "row") ELSE UNCHANGED pc
    <3>1. result'[r] = [res EXCEPT !.accepted = @ + 1]
          \/ result'[r] = [res EXCEPT !.rejected = @ + 1]
      BY <2>3 DEF Types
    <3>2. a + j # Messages - 1 => a + j + 1 < Messages
      BY <1>1, <2>1
    <3>3. pc'[r] = IF a + j = Messages - 1 THEN "row" ELSE "exchange"
      BY <2>1, <2>3 DEF Types
    <3> HIDE DEF a, j, res
    <3>4. result'[r].timeouts = 0 /\ result'[r].errors = 0
          /\ result'[r].accepted + result'[r].rejected = a + j + 1
      BY <2>1, <2>2, <3>1 DEF Result
    <3>5. QED
      BY <1>1, <2>1, <3>2, <3>3, <3>4 DEF Counted, Outcomes
  <2>4. CASE /\ \/ result' = [result EXCEPT ![r] = [res EXCEPT !.timeouts = 1]]
                \/ result' = [result EXCEPT ![r] = [res EXCEPT !.errors = 1]]
                \/ result' = [result EXCEPT ![r] = res]
             /\ Go(r, "row")
    <3>1. \/ result'[r] = [res EXCEPT !.timeouts = 1]
          \/ result'[r] = [res EXCEPT !.errors = 1]
          \/ result'[r] = res
      BY <2>4 DEF Types
    <3>2. pc'[r] = "row"
      BY <2>4 DEF Types
    <3> HIDE DEF a, j, res
    <3>3. Outcomes(result'[r]) <= a + j + 1
      BY <2>1, <2>2, <3>1 DEF Outcomes, Result
    <3>4. Outcomes(result'[r]) \in Nat
      BY <2>1, <2>2, <3>1 DEF Outcomes, Result
    <3>5. QED
      BY <1>1, <2>1, <3>2, <3>3, <3>4 DEF Counted
  <2>5. QED
    <3>1. res.accepted + res.rejected = a + j
      BY <2>2
    <3>2. QED
      BY <1>4, <2>3, <2>4, <3>1 DEF Exchange, DataAnswers
<1>5. CASE WriteRow(r)
  <2>1. result'[r] = NoResult /\ pc'[r] # "exchange"
    BY <1>5 DEF WriteRow, Types
  <2>2. QED
    BY <1>1, <1>2, <2>1 DEF Counted
<1>6. CASE ~Connect(r) /\ ~Exchange(r) /\ ~WriteRow(r)
  <2>1. result'[r] = result[r]
    BY <1>6 DEF Step, RunnerStep, Start, OpenTmp, Clear, Check, Add, Snapshot, CleanupDelete,
                CleanupShow, Validate, Link, Unlink, Interrupt, Kill
  <2>2. pc'[r] # "exchange"
    <3>1. CASE CleanupShow(r)
      BY <1>1, <3>1, CleanupOutcomes DEF Types
    <3>2. CASE Interrupt(r) \/ Kill(r)
      BY <3>2 DEF Interrupt, Kill, Types
    <3>3. CASE Start(r) \/ OpenTmp(r) \/ Clear(r) \/ Check(r)
      BY <3>3 DEF Start, Refuse, OpenTmp, Clear, Check, Show, Types
    <3>4. CASE Add(r) \/ Snapshot(r) \/ CleanupDelete(r)
      BY <3>4 DEF Add, Snapshot, Show, CleanupDelete, Types
    <3>5. CASE Validate(r) \/ Link(r) \/ Unlink(r)
      BY <3>5 DEF Validate, Link, Unlink, Types
    <3>6. QED
      BY <1>6, <3>1, <3>2, <3>3, <3>4, <3>5 DEF Step, RunnerStep
  <2>3. QED
    BY <1>1, <2>1, <2>2 DEF Counted
<1>7. QED
  BY <1>3, <1>4, <1>5, <1>6

\* Raised: an exception ends in a cleanup.
LEMMA StepRaised ==
  ASSUME Types, NEW r \in Runners, RunInv(r), Step(r)
  PROVE  Raised(r)'
<1>1. Raised(r)
  BY DEF RunInv
<1> USE DEF Go, CleanUp, RaiseInMain, RaiseInCondition, run_vars, Cleaning, Raised
<1>2. CASE CleanupShow(r)
  <2>1. /\ pc'[r] # "add" /\ raising'[r] = raising[r]
        /\ pc'[r] \in Cleaning => ret'[r] = "exit"
    BY <1>1, <1>2, CleanupOutcomes DEF Types
  <2>2. raising[r] => ret'[r] \in {"condition", "exit"} /\ pc'[r] \in Cleaning \union {"end"}
    BY <1>1, <1>2, CleanupOutcomes DEF Types
  <2>3. QED
    BY <2>1, <2>2
<1>3. CASE Interrupt(r)
  BY <1>1, <1>3 DEF Interrupt, Types
<1>4. CASE Kill(r)
  BY <1>1, <1>4 DEF Kill, Types
<1>5. CASE Start(r) \/ OpenTmp(r) \/ Clear(r)
  BY <1>1, <1>5 DEF Start, Refuse, OpenTmp, Clear, Types
<1>6. CASE Check(r)
  <2>1. Condition(r)' = Condition(r)
    BY <1>6 DEF Check, Condition
  <2>2. pc'[r] = "add" => Condition(r) # "control"
    BY <1>6 DEF Check, Show, Types
  <2>3. QED
    BY <1>1, <1>6, <2>1, <2>2 DEF Check, Show, Types
<1>7. CASE Add(r) \/ Snapshot(r)
  BY <1>1, <1>7 DEF Add, Snapshot, Show, Types
<1>8. CASE Connect(r) \/ Exchange(r)
  BY <1>1, <1>8 DEF Connect, HelloAnswered, Exchange, Types
<1>9. CASE WriteRow(r)
  BY <1>1, <1>9 DEF WriteRow, Types
<1>10. CASE CleanupDelete(r)
  BY <1>1, <1>10 DEF CleanupDelete, Types
<1>11. CASE Validate(r) \/ Link(r) \/ Unlink(r)
  BY <1>1, <1>11 DEF Validate, Link, Unlink, Types
<1>12. QED
  BY <1>2, <1>3, <1>4, <1>5, <1>6, <1>7, <1>8, <1>9, <1>10, <1>11 DEF Step, RunnerStep

LEMMA StepFresh ==
  ASSUME Types, NEW r \in Runners, RunInv(r), Step(r)
  PROVE  Fresh(r)'
<1>1. Raised(r) /\ Fresh(r)
  BY DEF RunInv
<1> USE DEF Go, CleanUp, RaiseInMain, RaiseInCondition, run_vars, Fresh
<1>2. CASE Start(r)
  BY <1>1, <1>2 DEF Start, Refuse, Types
<1>3. CASE CleanupShow(r)
  BY <1>1, <1>3, CleanupOutcomes DEF Types
<1>4. CASE ~Start(r) /\ ~CleanupShow(r)
  <2>1. pc'[r] \notin {"none", "open"}
    BY <1>4
       DEF Step, RunnerStep, OpenTmp, Clear, Check, Add, Snapshot, Show, Connect, HelloAnswered,
           Exchange, WriteRow, CleanupDelete, Validate, Link, Unlink, Interrupt, Kill, Types
  <2>2. QED
    BY <2>1
<1>5. QED
  BY <1>2, <1>3, <1>4

\* Kept: the holder's rows, along each of its steps.
LEMMA StepRows ==
  ASSUME BoundAssumption, ConditionAssumption, Types, NEW r \in Runners, RunInv(r), Step(r),
         Holds(r)'
  PROVE  Kept(r)'
<1>1. /\ Raised(r) /\ Fresh(r) /\ (Holds(r) => Kept(r))
      /\ RunsPer \in Nat \ {0} /\ DOMAIN Conditions = 1..Len(Conditions)
      /\ Len(Conditions) \in Nat
      /\ cond[r] \in DOMAIN Conditions /\ cell[r] \in 1..RunsPer
  BY DEF RunInv, BoundAssumption, ConditionAssumption, Types
<1> USE DEF Go, CleanUp, RaiseInMain, RaiseInCondition, run_vars, file_vars, Measuring,
            Closing, Cleaning
\* A step that neither measures nor goes on to the next condition.
<1>2. ASSUME Holds(r), tmp' = tmp, cond'[r] = cond[r], cell'[r] = cell[r],
             pc'[r] \in Measuring <=> pc[r] \in Measuring
      PROVE  RowsBy(r, pc[r], cond[r], cell[r], tmp)'
  <2>1. RowsBy(r, pc[r], cond[r], cell[r], tmp)
    BY <1>1, <1>2 DEF Kept
  <2>2. \A k, d : Done(pc'[r], cond[r], cell[r], k, d) <=> Done(pc[r], cond[r], cell[r], k, d)
    BY <1>2 DEF Done
  <2>3. RowsBy(r, pc'[r], cond[r], cell[r], tmp)
    BY <2>1, <2>2, SameRows
  <2>4. QED
    BY <1>2, <2>3
<1>3. CASE OpenTmp(r)
  <2>1. /\ pc[r] = "open" /\ cond[r] = 1 /\ cell[r] = 1 /\ ~Holds(r)
        /\ cond'[r] = 1 /\ cell'[r] = 1
    BY <1>1, <1>3 DEF OpenTmp, Fresh, Holds
  <2>2. tmp' = <<>> /\ pc'[r] = "clear"
    BY <2>1, BecomesHolder DEF Types
  <2>3. QED
    BY <2>1, <2>2, JustOpened DEF Kept
<1>4. CASE Clear(r) \/ Check(r)
  <2>1. /\ pc[r] \in {"clear", "check"} /\ Holds(r)
        /\ tmp' = tmp /\ UNCHANGED <<cond, cell>>
    BY <1>4 DEF Clear, Check, Holds
  <2>2. pc'[r] \in {"check", "add", "snapshot"}
    BY <1>4, <2>1 DEF Clear, Check, Show, Holds, Types
  <2>3. QED
    BY <1>1, <1>2, <2>1, <2>2 DEF Kept
<1>5. CASE Add(r)
  <2>1. /\ pc[r] = "add" /\ Holds(r) /\ tmp' = tmp /\ UNCHANGED <<cond, cell>>
    BY <1>5 DEF Add, Holds
  <2>2. pc'[r] = "snapshot"
    BY <1>5, <2>1 DEF Add, Holds, Types
  <2>3. QED
    BY <1>1, <1>2, <2>1, <2>2 DEF Kept
<1>6. CASE Snapshot(r)
  <2>1. /\ pc[r] = "snapshot" /\ Holds(r) /\ tmp' = tmp /\ UNCHANGED <<cond, cell>>
    BY <1>6 DEF Snapshot, Show, Holds
  <2>2. pc'[r] = "connect"
    BY <1>6, <2>1 DEF Snapshot, Show, Holds, Types
  <2>3. QED
    BY <1>1, <1>2, <2>1, <2>2 DEF Kept
<1>7. CASE Connect(r) \/ Exchange(r)
  <2>1. /\ pc[r] \in {"connect", "exchange"} /\ Holds(r)
        /\ tmp' = tmp /\ UNCHANGED <<cond, cell>>
    BY <1>7 DEF Connect, Exchange, Holds
  <2>2. pc'[r] \in {"exchange", "row"}
    BY <1>7, <2>1 DEF Connect, HelloAnswered, Exchange, Types
  <2>3. QED
    BY <1>1, <1>2, <2>1, <2>2 DEF Kept
<1>8. CASE WriteRow(r)
  <2> DEFINE row == [by |-> r, cond |-> Condition(r), cell |-> cell[r],
                     execution_valid |-> ExecValid(r, result[r]),
                     result_success |-> ResultSuccess(result[r]), result |-> result[r]]
  <2>1. pc[r] = "row" /\ RowsBy(r, "row", cond[r], cell[r], tmp) /\ cond' = cond
    BY <1>1, <1>8 DEF WriteRow, Holds, Kept
  <2>2. tmp' = Append(tmp, row)
    BY <1>8 DEF WriteRow
  <2>3. row \in RowType /\ row.by = r /\ row.cond = Conditions[cond[r]] /\ row.cell = cell[r]
    BY RowWritten DEF Condition
  <2> HIDE DEF row
  <2>4. CASE cell[r] < RunsPer
    <3>1. pc'[r] = "connect" /\ cell'[r] = cell[r] + 1
      BY <1>8, <2>4 DEF WriteRow, Types
    <3>2. \A k \in DOMAIN Conditions, d \in 1..RunsPer :
            Done("connect", cond[r], cell[r] + 1, k, d)
              <=> Done("row", cond[r], cell[r], k, d) \/ (k = cond[r] /\ d = cell[r])
      BY <1>1 DEF Done
    <3>3. RowsBy(r, "connect", cond[r], cell[r] + 1, Append(tmp, row))
      BY <1>1, <2>1, <2>3, <3>2, OneMoreRow
    <3>4. QED
      BY <2>1, <2>2, <3>1, <3>3 DEF Kept
  <2>5. CASE ~(cell[r] < RunsPer)
    <3>1. pc'[r] = "cleanup_del" /\ cell'[r] = 1 /\ ret'[r] = "condition"
      BY <1>8, <2>5 DEF WriteRow, Types
    <3>2. \A k \in DOMAIN Conditions, d \in 1..RunsPer :
            Done("cleanup_del", cond[r], 1, k, d)
              <=> Done("row", cond[r], cell[r], k, d) \/ (k = cond[r] /\ d = cell[r])
      BY <1>1, <2>5 DEF Done
    <3>3. RowsBy(r, "cleanup_del", cond[r], 1, Append(tmp, row))
      BY <1>1, <2>1, <2>3, <3>2, OneMoreRow
    <3>4. QED
      BY <2>1, <2>2, <3>1, <3>3 DEF Kept
  <2>6. QED
    BY <2>4, <2>5
<1>9. CASE CleanupDelete(r)
  <2>1. /\ pc[r] = "cleanup_del" /\ pc'[r] = "cleanup_show" /\ tmp' = tmp
        /\ UNCHANGED <<cond, cell, raising, ret>>
    BY <1>9 DEF CleanupDelete, Types
  <2>2. Holds(r)
    BY <2>1 DEF Holds
  <2>3. QED
    BY <1>1, <1>2, <2>1, <2>2 DEF Kept
<1>10. CASE CleanupShow(r)
  <2>1. pc[r] = "cleanup_show" /\ tmp' = tmp /\ cell' = cell
    BY <1>10 DEF CleanupShow
  <2>2. Holds(r)
    BY <2>1, BecomesHolder DEF OpenTmp
  <2>3. CASE /\ ret[r] = "condition" /\ cond[r] < Len(Conditions)
             /\ cond' = [cond EXCEPT ![r] = @ + 1] /\ Go(r, "clear")
    <3>1. pc'[r] = "clear" /\ cond'[r] = cond[r] + 1 /\ cell[r] = 1
      BY <1>1, <2>1, <2>2, <2>3 DEF Kept, Types
    <3>2. \A k \in DOMAIN Conditions, d \in 1..RunsPer :
            Done("clear", cond[r] + 1, 1, k, d) <=> Done("cleanup_show", cond[r], 1, k, d)
      BY <1>1 DEF Done
    <3>3. RowsBy(r, "cleanup_show", cond[r], 1, tmp)
      BY <1>1, <2>1, <2>2, <3>1 DEF Kept
    <3>4. RowsBy(r, "clear", cond[r] + 1, 1, tmp)
      BY <3>2, <3>3, SameRows
    <3>5. QED
      BY <2>1, <3>1, <3>4 DEF Kept
  <2>4. CASE /\ ret[r] = "condition" /\ ~(cond[r] < Len(Conditions))
             /\ Go(r, "validate") /\ UNCHANGED cond
    <3>1. pc'[r] = "validate" /\ cond[r] = Len(Conditions)
      BY <1>1, <2>4 DEF Types
    <3>2. QED
      BY <1>1, <1>2, <2>1, <2>2, <2>4, <3>1 DEF Kept
  <2>5. CASE ret[r] = "publish" /\ Go(r, "link") /\ UNCHANGED cond
    <3>1. pc'[r] = "link" /\ cond[r] = Len(Conditions) /\ Checked(tmp)
      BY <1>1, <2>1, <2>2, <2>5 DEF Kept, Types
    <3>2. Checked(tmp)'
      BY <2>1, <3>1
    <3>3. QED
      BY <1>1, <1>2, <2>1, <2>2, <2>5, <3>1, <3>2 DEF Kept
  <2>6. QED
    <3>1. \/ pc'[r] = "end" \/ (pc'[r] = "cleanup_del" /\ ret'[r] = "exit")
          \/ /\ ret[r] = "condition" /\ cond[r] < Len(Conditions)
             /\ cond' = [cond EXCEPT ![r] = @ + 1] /\ Go(r, "clear")
          \/ /\ ret[r] = "condition" /\ ~(cond[r] < Len(Conditions))
             /\ Go(r, "validate") /\ UNCHANGED cond
          \/ ret[r] = "publish" /\ Go(r, "link") /\ UNCHANGED cond
      BY <1>1, <1>10, CleanupOutcomes DEF Types
    <3>2. QED
      BY <2>3, <2>4, <2>5, <3>1 DEF Holds
<1>11. CASE Validate(r)
  <2>1. /\ pc[r] = "validate" /\ Holds(r) /\ tmp' = tmp /\ UNCHANGED <<cond, cell>>
        /\ pc'[r] = "cleanup_del"
    BY <1>11 DEF Validate, Holds, Types
  <2>2. ret'[r] = "publish" => Checked(tmp)
    BY <1>11 DEF Validate, Checked, Types
  <2>3. cond[r] = Len(Conditions) /\ cell[r] = 1
    BY <1>1, <2>1 DEF Kept
  <2>4. ret'[r] = "publish" => Checked(tmp)'
    BY <2>1, <2>2
  <2>5. QED
    BY <1>1, <1>2, <2>1, <2>3, <2>4 DEF Kept
<1>12. CASE Link(r)
  <2>1. /\ pc[r] = "link" /\ Holds(r) /\ tmp' = tmp /\ UNCHANGED <<cond, cell>>
        /\ final' = tmp /\ pc'[r] = "unlink"
    BY <1>12 DEF Link, Holds, Types
  <2>2. cond[r] = Len(Conditions) /\ Checked(tmp)'
    BY <1>1, <2>1 DEF Kept
  <2>3. QED
    BY <1>1, <1>2, <2>1, <2>2 DEF Kept
<1>13. CASE Start(r) \/ Unlink(r) \/ Kill(r) \/ Interrupt(r)
  <2>1. CASE Interrupt(r) /\ Holds(r)
    <3>1. pc[r] = "cleanup_del" /\ Go(r, "cleanup_show")
          /\ UNCHANGED <<raising, ret, tmp, final, cond, cell>>
      BY <2>1 DEF Interrupt, Holds, Types
    <3>2. pc'[r] = "cleanup_show"
      BY <3>1 DEF Types
    <3>3. QED
      BY <1>1, <1>2, <2>1, <3>1, <3>2 DEF Kept
  <2>2. CASE ~(Interrupt(r) /\ Holds(r))
    <3>1. ~Interrupt(r)
      BY <2>2, BecomesHolder DEF OpenTmp, Interrupt, Types
    <3>2. QED
      BY <1>13, <3>1 DEF Start, Refuse, Unlink, Kill, Holds, Types
  <2>3. QED
    BY <2>1, <2>2
<1>14. QED
  BY <1>3, <1>4, <1>5, <1>6, <1>7, <1>8, <1>9, <1>10, <1>11, <1>12, <1>13
     DEF Step, RunnerStep

\* FinalWhole: what is linked is the holder's file, checked and complete.
LEMMA StepFinal ==
  ASSUME ConditionAssumption, IInv, NEW r \in Runners, Step(r)
  PROVE  FinalWhole'
<1>1. Types /\ RunInv(r) /\ Raised(r) /\ FinalWhole
  BY DEF IInv, RunInv
<1>2. CASE final' = final
  BY <1>1, <1>2 DEF FinalWhole
<1>3. CASE Link(r) /\ final' = tmp
  <2>1. pc[r] = "link" /\ Kept(r)
    BY <1>1, <1>3 DEF Link, RunInv, Holds, Closing
  <2>2. RowsBy(r, "link", Len(Conditions), cell[r], tmp) /\ Checked(tmp)
    BY <2>1 DEF Kept, Closing
  <2>3. "link" \notin Measuring
    BY DEF Measuring
  <2>4. ArtifactOK(tmp) /\ \A i \in 1..Len(tmp) : tmp[i].by = r
    <3>1. \A c, f : RowsBy(r, "link", Len(Conditions), c, f) /\ Checked(f) =>
            ArtifactOK(f) /\ \A i \in 1..Len(f) : f[i].by = r
      BY <2>3, AllDone
    <3>2. QED
      BY <2>2, <3>1
  <2>5. ArtifactOK(final')
    BY <1>3, <2>4
  <2>6. QED
    BY <1>3, <2>4, <2>5 DEF FinalWhole
<1>4. QED
  BY <1>1, <1>2, <1>3, Frame

LEMMA StepKeeps ==
  ASSUME BoundAssumption, ConditionAssumption, IInv, NEW r \in Runners, Step(r)
  PROVE  IInv'
<1>1. Types /\ RunInv(r)
  BY DEF IInv
<1>2. RunInv(r)'
  BY <1>1, StepCounted, StepRaised, StepFresh, StepRows DEF RunInv
<1>3. QED
  BY <1>1, <1>2, StepTypes, StepOneHolder, OthersKept, StepFinal DEF IInv

\* The operator moves files that nobody holds.
LEMMA MoveKeeps ==
  ASSUME IInv, MoveFiles
  PROVE  IInv'
<1>1. \A r \in Runners : ~Holds(r)
  BY DEF MoveFiles, Running, Ended, Holds, Measuring, Closing, Cleaning
<1>2. UNCHANGED <<qdisc, pc, run_vars, raising, ret, result, reported, bounds>>
      /\ tmp' = NoFile /\ final' = NoFile
  BY DEF MoveFiles
<1>3. Types' /\ FinalWhole'
  BY <1>2 DEF IInv, Types, FinalWhole, run_vars
<1>4. \A r \in Runners : ~Holds(r)'
  BY <1>1, <1>2 DEF Holds
<1>5. \A r \in Runners : Counted(pc[r], result[r])' /\ Raised(r)' /\ Fresh(r)'
  BY <1>2 DEF IInv, RunInv, Counted, Raised, Fresh, Condition, run_vars
<1>6. QED
  BY <1>3, <1>4, <1>5 DEF IInv, OneHolder, RunInv

LEMMA InitIInv ==
  ASSUME BoundAssumption, ConditionAssumption, Init
  PROVE  IInv
<1>1. /\ RunsPer \in Nat \ {0} /\ Messages \in Nat \ {0}
      /\ 1 \in DOMAIN Conditions /\ NoResult \in Result
  BY DEF BoundAssumption, ConditionAssumption, NoResult, Result
<1>2. Types
  BY <1>1 DEF Init, Types, Rules, Places, Ended
<1>3. \A r \in Runners : ~Holds(r)
  BY DEF Init, Holds, Measuring, Closing, Cleaning
<1>4. Outcomes(NoResult) = 0
  BY DEF NoResult, Outcomes
<1>5. \A r \in Runners : Counted(pc[r], result[r]) /\ Raised(r) /\ Fresh(r)
  BY <1>1, <1>4 DEF Init, Counted, Raised, Fresh, Cleaning
<1>6. QED
  BY <1>2, <1>3, <1>5 DEF Init, IInv, OneHolder, RunInv, FinalWhole

-----------------------------------------------------------------------------
(* Theorems *)

LEMMA Invariance ==
  ASSUME BoundAssumption, ConditionAssumption
  PROVE  Spec => []IInv
<1>1. Init => IInv
  BY InitIInv
<1>2. IInv /\ [Next]_vars => IInv'
  <2>1. SUFFICES ASSUME IInv, [Next]_vars PROVE IInv'
    OBVIOUS
  <2>2. CASE Next
    BY <2>1, <2>2, StepKeeps, MoveKeeps DEF Next, Step
  <2>3. CASE UNCHANGED vars
    <3>1. UNCHANGED <<qdisc, tmp, final, pc, cond, cell, snap, raising, ret, result,
                      exec_failure, reported>>
      BY <2>3 DEF vars, file_vars, run_vars
    <3>2. Types' /\ OneHolder' /\ FinalWhole'
      BY <2>1, <3>1 DEF IInv, Types, OneHolder, Holds, FinalWhole
    <3>3. \A r \in Runners : RunInv(r)'
      BY <2>1, <3>1 DEF IInv, RunInv, Counted, Raised, Fresh, Condition, Holds, Kept
    <3>4. QED
      BY <3>2, <3>3 DEF IInv
  <2>4. QED
    BY <2>1, <2>2, <2>3
<1>3. QED
  BY <1>1, <1>2, PTL DEF Spec

\* TypeOK: an experiment never has more outcomes than messages, and an exception
\* in tc_condition always finds its way to a cleanup or to the end.
THEOREM TypeCorrect ==
  ASSUME BoundAssumption, ConditionAssumption
  PROVE  Spec => []TypeOK
<1>1. IInv => TypeOK
  <2>1. SUFFICES ASSUME IInv PROVE TypeOK
    OBVIOUS
  <2>2. qdisc \in {Clean} \union ({Conditions[i] : i \in DOMAIN Conditions} \ {"control"})
    BY <2>1 DEF IInv, Types, Conds
  <2>3. ASSUME NEW r \in Runners
        PROVE  /\ cond[r] \in DOMAIN Conditions /\ cell[r] \in 1..RunsPer
               /\ result[r].accepted + result[r].rejected + result[r].timeouts
                    + result[r].errors \in 0..Messages
               /\ raising[r] => pc[r] \in {"cleanup_del", "cleanup_show", "end", "killed"}
    <3>1. Counted(pc[r], result[r]) /\ Raised(r) /\ result[r] \in Result /\ Types
      BY <2>1 DEF IInv, RunInv, Types
    <3>2. Messages \in Nat
      BY DEF BoundAssumption
    <3>3. QED
      BY <3>1, <3>2 DEF Counted, Outcomes, Raised, Cleaning, Types, Result
  <2>4. QED
    BY <2>2, <2>3 DEF TypeOK
<1>2. QED
  BY <1>1, Invariance, PTL

\* PublishedIsArtifact: the file that publish_tmp_no_clobber links is the work of
\* one runner and passes the checks of validate_netem_artifact.py, however many
\* runners are started beside it, fail, or are interrupted or killed.
THEOREM Published ==
  ASSUME BoundAssumption, ConditionAssumption
  PROVE  Spec => []PublishedIsArtifact
<1>1. IInv => PublishedIsArtifact
  <2>1. SUFFICES ASSUME IInv, final # NoFile
                 PROVE  ArtifactOK(final) /\ Cardinality({row.by : row \in RowsOf(final)}) = 1
    BY DEF PublishedIsArtifact
  <2>2. ArtifactOK(final) /\ final \in File
    BY <2>1 DEF IInv, FinalWhole, Types
  <2>3. PICK r \in Runners : \A i \in 1..Len(final) : final[i].by = r
    BY <2>1 DEF IInv, FinalWhole
  <2>4. DOMAIN final = 1..Len(final)
    BY <2>2 DEF File
  <2>5. \A row \in RowsOf(final) : row.by = r
    BY <2>3, <2>4 DEF RowsOf
  <2>6. RowsOf(final) # {}
    <3>1. Len(Conditions) \in Nat \ {0} /\ RunsPer \in Nat \ {0}
      BY DEF ConditionAssumption, BoundAssumption
    <3>2. <<Conditions[1], 1>> \in {Conditions[i] : i \in DOMAIN Conditions} \X (1..RunsPer)
      BY <3>1 DEF ConditionAssumption
    <3>3. DOMAIN final # {}
      BY <2>2, <3>2 DEF ArtifactOK
    <3>4. QED
      BY <2>1, <3>3 DEF RowsOf
  <2>7. {row.by : row \in RowsOf(final)} = {r}
    BY <2>5, <2>6
  <2>8. QED
    BY <2>2, <2>7, FS_Singleton
<1>2. QED
  BY <1>1, Invariance, PTL

\* KeepsRows and FinalImmutable: rows leave the temporary file only for the final
\* one or by the operator's hand, and a published file is not replaced, though
\* the guard that looks for it comes long before the link.
THEOREM FilesAreKept ==
  ASSUME BoundAssumption, ConditionAssumption
  PROVE  Spec => [][KeepsRows /\ FinalImmutable]_vars
<1>1. ASSUME IInv, Next
      PROVE  KeepsRows /\ FinalImmutable
  <2>1. ASSUME NEW r \in Runners, Step(r)
        PROVE  KeepsRows /\ FinalImmutable
    <3>1. Types /\ RunInv(r) /\ Raised(r)
      BY <1>1 DEF IInv, RunInv
    <3>2. final # NoFile => final' = final
      BY <2>1, <3>1, Frame
    <3>3. ASSUME tmp # NoFile, tmp' = NoFile
          PROVE  final' = tmp
      <4>1. CASE Unlink(r)
        BY <3>1, <4>1 DEF Unlink, RunInv, Kept, Holds, Closing
      <4>2. CASE WriteRow(r)
        <5>1. Holds(r)
          BY <4>2 DEF WriteRow, Holds, Measuring
        <5>2. tmp \in File /\ tmp' = Append(tmp,
                [by |-> r, cond |-> Condition(r), cell |-> cell[r],
                 execution_valid |-> ExecValid(r, result[r]),
                 result_success |-> ResultSuccess(result[r]), result |-> result[r]])
          BY <3>1, <4>2, <5>1, HolderHasFile DEF WriteRow
        <5>3. tmp' \in File
          BY <3>1, <5>2, RowWritten DEF File
        <5>4. QED
          BY <3>3, <5>3, NoFileIsNone
      <4>3. QED
        BY <2>1, <3>1, <3>3, <4>1, <4>2, Frame
    <3>4. QED
      BY <3>2, <3>3 DEF KeepsRows, FinalImmutable
  <2>2. ASSUME MoveFiles
        PROVE  KeepsRows /\ FinalImmutable
    BY <2>2 DEF MoveFiles, KeepsRows, FinalImmutable
  <2>3. QED
    BY <1>1, <2>1, <2>2 DEF Next, Step
<1>2. IInv /\ [Next]_vars => [KeepsRows /\ FinalImmutable]_vars
  BY <1>1
<1>3. QED
  BY <1>2, Invariance, PTL DEF Spec

\* A runner that takes a step is alone: the earlier ones have ended, the later
\* ones are not started.
LEMMA Alone ==
  ASSUME Overlap = FALSE, Types, OneAtATime, NEW r \in Runners, Step(r)
  PROVE  \A s \in Runners : /\ s < r => pc[s] \in Ended \ {"none"}
                            /\ s > r => pc[s] = "none"
<1>1. \A s, t \in Runners : s < t => /\ pc[s] = "none" => pc[t] = "none"
                                     /\ pc[s] \notin Ended => pc[t] = "none"
  BY DEF OneAtATime
<1>2. CASE Start(r)
  <2>1. pc[r] = "none" /\ (\A s \in Runners : s < r => pc[s] # "none") /\ Running = {}
    BY <1>2 DEF Start
  <2>2. QED
    BY <1>1, <2>1 DEF Running
<1>3. CASE ~Start(r)
  <2>1. pc[r] \notin Ended
    BY <1>3
       DEF Step, RunnerStep, OpenTmp, Clear, Check, Add, Snapshot, Connect, Exchange, WriteRow,
           CleanupDelete, CleanupShow, Validate, Link, Unlink, Interrupt, Kill, Running, Ended
  <2>2. pc[r] # "none"
    BY <2>1 DEF Ended
  <2>3. QED
    BY <1>1, <2>1, <2>2 DEF Runners
<1>4. QED
  BY <1>2, <1>3

\* LeavesClean: a runner comes to its end by a cleanup, which reads the interface,
\* or by unlink, after one that found it clean.
LEMMA StepLeavesClean ==
  ASSUME Types, NEW r \in Runners, RunInv(r), LeavesClean(r), Step(r)
  PROVE  /\ pc'[r] # "none"
         /\ pc'[r] \in {"link", "unlink"} => qdisc' = Clean
         /\ pc'[r] = "end" => qdisc' = Clean \/ reported'[r]
<1>1. Raised(r)
  BY DEF RunInv
<1> USE DEF Go, CleanUp, RaiseInMain, RaiseInCondition
<1>2. CASE CleanupShow(r)
  <2>1. qdisc' = qdisc
    BY <1>2 DEF CleanupShow
  <2>2. pc'[r] \in {"link", "unlink"} => qdisc = Clean
    BY <1>1, <1>2, CleanupOutcomes DEF Types
  <2>3. pc'[r] = "end" => qdisc = Clean \/ reported'[r]
    BY <1>1, <1>2, CleanupOutcomes DEF Types
  <2>4. pc'[r] # "none"
    BY <1>1, <1>2, CleanupOutcomes DEF Types
  <2>5. QED
    BY <2>1, <2>2, <2>3, <2>4
<1>3. CASE Link(r)
  BY <1>3 DEF Link, LeavesClean, Types
<1>4. CASE Unlink(r)
  BY <1>4 DEF Unlink, LeavesClean, Types
<1>5. CASE ~CleanupShow(r) /\ ~Link(r) /\ ~Unlink(r)
  <2>1. pc'[r] \notin {"none", "link", "unlink", "end"}
    BY <1>5
       DEF Step, RunnerStep, Start, Refuse, OpenTmp, Clear, Check, Add, Snapshot, Show, Connect,
           HelloAnswered, Exchange, WriteRow, CleanupDelete, Validate, Interrupt, Kill, Types
  <2>2. QED
    BY <2>1
<1>6. QED
  BY <1>2, <1>3, <1>4, <1>5

LEMMA StepAlone ==
  ASSUME Overlap = FALSE, IInv, AInv, NEW r \in Runners, Step(r)
  PROVE  AInv'
<1>1. Types /\ OneAtATime /\ RunInv(r) /\ Raised(r) /\ LeavesClean(r)
  BY DEF IInv, AInv, RunInv
<1>2. \A s \in Runners : /\ s < r => pc[s] \in Ended \ {"none"}
                         /\ s > r => pc[s] = "none"
  BY <1>1, Alone
<1>3. \A s \in Runners \ {r} : pc'[s] = pc[s] /\ reported'[s] = reported[s]
  BY <1>1, Frame
<1>4. /\ pc'[r] # "none"
      /\ pc'[r] \in {"link", "unlink"} => qdisc' = Clean
      /\ pc'[r] = "end" => qdisc' = Clean \/ reported'[r]
  BY <1>1, StepLeavesClean
<1>5. OneAtATime'
  BY <1>2, <1>3, <1>4 DEF OneAtATime, Runners
<1>6. ASSUME NEW s \in Runners
      PROVE  LeavesClean(s)'
  <2>1. CASE s = r
    BY <1>4, <2>1 DEF LeavesClean
  <2>2. CASE s < r
    BY <1>2, <1>3, <1>4, <2>2 DEF LeavesClean, Ended
  <2>3. CASE s > r
    BY <1>2, <1>3, <2>3 DEF LeavesClean
  <2>4. QED
    BY <2>1, <2>2, <2>3 DEF Runners
<1>7. QED
  BY <1>5, <1>6 DEF AInv

\* LeftClean: of runners that do not overlap, the last one that came to its end has
\* left the interface clean or says that it is not (cleanup_or_report), whichever
\* tc command failed, wherever it was interrupted, and whatever earlier runners
\* that were killed left on the interface.
THEOREM InterfaceLeftClean ==
  ASSUME BoundAssumption, ConditionAssumption, Overlap = FALSE
  PROVE  Spec => []LeftClean
<1>1. Init => AInv
  BY DEF Init, AInv, OneAtATime, LeavesClean, Ended
<1>2. IInv /\ AInv /\ [Next]_vars => AInv'
  <2>1. SUFFICES ASSUME IInv, AInv, [Next]_vars PROVE AInv'
    OBVIOUS
  <2>2. CASE MoveFiles
    BY <2>1, <2>2 DEF MoveFiles, AInv, OneAtATime, LeavesClean
  <2>3. CASE UNCHANGED vars
    BY <2>1, <2>3 DEF vars, AInv, OneAtATime, LeavesClean
  <2>4. QED
    BY <2>1, <2>2, <2>3, StepAlone DEF Next, Step
<1>3. AInv => LeftClean
  BY DEF AInv, LeavesClean, LeftClean
<1>4. QED
  BY <1>1, <1>2, <1>3, Invariance, PTL DEF Spec

=============================================================================
