------------------------ MODULE RecoveryFilesProofs ------------------------
(***************************************************************************)
(* Theorems about what the recovery experiments leave on disk and find     *)
(* there: the files of three programs, RecoveryAggregate, which this       *)
(* module extends, RecoveryPublication and Reruns, which it instantiates,  *)
(* and the checkpoints of a session, CheckpointStore, likewise.            *)
(*                                                                         *)
(* aggregate_recovery_batches.py, for any number of aggregators, of        *)
(* repeats, of configurations and of edits of the batches: no other        *)
(* aggregator touches a published aggregate, because the temporary name    *)
(* belongs to one aggregator from its open to its link (TmpIsOwned), and   *)
(* the aggregate is what validate_all promises, although validate_all      *)
(* counts files, rows of a file and rows of a configuration, and never the *)
(* rows of a repeat.                                                       *)
(*                                                                         *)
(* run_recovery_validation.py, for any arguments and any number of         *)
(* runners: accepted arguments make the matrix that the gate expects, and  *)
(* a final name stays.  For two runners of a directory: the files are      *)
(* whole and none is lost, because the other runner can take the temporary *)
(* file away only on its way out (Owned).                                  *)
(*                                                                         *)
(* rerun_failed_real_recovery.py, for any number of rows and of runs that  *)
(* are killed or not: a row that passed stays as the experiment wrote it.  *)
(*                                                                         *)
(* gmcp/checkpoint_manager.py, for any number of crashes: what a run has   *)
(* checkpointed is in its file (OwnSaved), what a later run loads is whole *)
(* (FilesMade) and listed in the order of the names, which is that of the  *)
(* numbers while they fit the padding, and with one interval a recovery is *)
(* from this run, because its first checkpoint stands behind every one     *)
(* that was loaded (OneInterval).                                          *)
(***************************************************************************)
EXTENDS RecoveryAggregate, CollectionLemmas, SequenceTheorems

-----------------------------------------------------------------------------
(* aggregate_recovery_batches.py: RecoveryAggregate *)

(* FlattenSeq *)

\* g is what FlattenSeq computes on the first n sequences of q.
IsFlat(g, q, n) ==
  g = [i \in 1..n |-> IF i = 1 THEN q[i] ELSE g[i - 1] \o q[i]]

LEMMA FlatExists ==
  ASSUME NEW q, NEW n \in Nat
  PROVE  \E g : IsFlat(g, q, n)
<1> DEFINE B == {k \in 0..n : ~\E g : IsFlat(g, q, k)}
<1>1. SUFFICES ASSUME B # {} PROVE FALSE
  OBVIOUS
<1>2. PICK m \in B : \A k \in B : m <= k
  <2>1. B \subseteq 0..n
    OBVIOUS
  <2> HIDE DEF B
  <2>2. QED
    BY <1>1, <2>1, LeastNumber
<1>3. CASE m = 0
  <2> DEFINE g == [i \in 1..0 |-> q[i]]
  <2>1. IsFlat(g, q, 0)
    BY DEF IsFlat
  <2>2. QED
    BY <1>3, <2>1
<1>4. CASE m # 0
  <2>1. m - 1 \in 0..n /\ m - 1 \notin B /\ m \in Nat
    BY <1>2, <1>4
  <2>2. PICK g : IsFlat(g, q, m - 1)
    BY <2>1
  <2> DEFINE h == [i \in 1..m |-> IF i = m
                                    THEN IF i = 1 THEN q[i] ELSE g[i - 1] \o q[i]
                                    ELSE g[i]]
  <2>3. ASSUME NEW i \in 1..m
        PROVE  h[i] = IF i = 1 THEN q[i] ELSE h[i - 1] \o q[i]
    <3>1. CASE i = m
      <4>1. i # 1 => i - 1 \in 1..m /\ i - 1 # m
        BY <2>1, <3>1
      <4>2. QED
        BY <3>1, <4>1
    <3>2. CASE i # m
      <4>1. i \in 1..(m - 1)
        BY <2>1, <3>2
      <4>2. g[i] = IF i = 1 THEN q[i] ELSE g[i - 1] \o q[i]
        BY <2>2, <4>1 DEF IsFlat
      <4>3. i # 1 => i - 1 \in 1..m /\ i - 1 # m
        BY <2>1, <4>1
      <4>4. QED
        BY <3>2, <4>2, <4>3
    <3>3. QED
      BY <3>1, <3>2
  <2>4. IsFlat(h, q, m)
    <3>1. h = [i \in 1..m |-> h[i]]
      OBVIOUS
    <3> HIDE DEF h
    <3>2. QED
      BY <3>1, <2>3 DEF IsFlat
  <2>5. QED
    BY <2>4
<1>5. QED
  BY <1>3, <1>4

LEMMA FlattenSeqIs ==
  ASSUME NEW q, NEW n \in Nat, n # 0, Len(q) = n
  PROVE  \E g : IsFlat(g, q, n) /\ FlattenSeq(q) = g[n]
<1>1. PICK g : g = CHOOSE h : IsFlat(h, q, n)
  OBVIOUS
<1>2. IsFlat(g, q, n)
  BY <1>1, FlatExists
<1>3. FlattenSeq(q) = g[n]
  BY <1>1 DEF FlattenSeq, IsFlat
<1>4. QED
  BY <1>2, <1>3

-----------------------------------------------------------------------------
(* Batches one after the other *)

\* The rows of repeat k.
OfRepeat(rs, k) == {i \in DOMAIN rs : rs[i].repeat = k}

AllSound(rs) == \A i \in 1..Len(rs) : rs[i].sound

\* A batch of repeat k.
BatchOf(b, k) == \A i \in 1..Len(b) : b[i].repeat = k /\ b[i].sound

\* Appending a batch of N rows, all of repeat k and sound, adds N rows of k
\* and none of another repeat.
LEMMA OneMoreBatch ==
  ASSUME NEW X, NEW rs \in Seq(X), NEW b \in Seq(X), NEW k,
         BatchOf(b, k), AllSound(rs), NEW j, IsFiniteSet(OfRepeat(rs, j))
  PROVE  /\ rs \o b \in Seq(X) /\ AllSound(rs \o b)
         /\ IsFiniteSet(OfRepeat(rs \o b, j))
         /\ Cardinality(OfRepeat(rs \o b, j)) =
              Cardinality(OfRepeat(rs, j)) + (IF j = k THEN Len(b) ELSE 0)
<1> DEFINE L == Len(rs)
           new == (L + 1)..(L + Len(b))
<1>1. L \in Nat /\ Len(b) \in Nat
  OBVIOUS
<1>2. /\ rs \o b \in Seq(X)
      /\ Len(rs \o b) = L + Len(b)
      /\ \A i \in 1..(L + Len(b)) :
           (rs \o b)[i] = IF i <= L THEN rs[i] ELSE b[i - L]
  BY ConcatProperties
<1>3. DOMAIN (rs \o b) = 1..(L + Len(b)) /\ DOMAIN rs = 1..L
  BY <1>2
<1>4. \A i \in new : i - L \in 1..Len(b) /\ ~(i <= L)
  BY <1>1
<1>5. \A i \in 1..(L + Len(b)) : IF i <= L THEN i \in 1..L ELSE i \in new
  BY <1>1
<1>6. AllSound(rs \o b)
  BY <1>2, <1>4, <1>5 DEF AllSound, BatchOf
<1>7. OfRepeat(rs \o b, j) = OfRepeat(rs, j) \union (IF j = k THEN new ELSE {})
  <2>1. \A i \in 1..L : i \in 1..(L + Len(b)) /\ i <= L
    BY <1>1
  <2>2. \A i \in new : i \in 1..(L + Len(b))
    BY <1>1
  <2>3. \A i \in 1..L : (rs \o b)[i] = rs[i]
    BY <1>2, <2>1
  <2>4. \A i \in new : (rs \o b)[i].repeat = k
    BY <1>2, <1>4, <2>2 DEF BatchOf
  <2> HIDE DEF new, L
  <2>5. QED
    BY <1>3, <1>5, <2>1, <2>2, <2>3, <2>4 DEF OfRepeat
<1>8. IsFiniteSet(new) /\ Cardinality(new) = Len(b)
  <2> HIDE DEF L
  <2>1. L + 1 \in Int /\ L + Len(b) \in Int
    BY <1>1
  <2>2. /\ IsFiniteSet(new)
        /\ Cardinality(new) = IF L + 1 > L + Len(b) THEN 0
                              ELSE (L + Len(b)) - (L + 1) + 1
    BY <2>1, FS_Interval
  <2>3. QED
    BY <1>1, <2>2
<1>9. OfRepeat(rs, j) \cap new = {}
  BY <1>1, <1>3 DEF OfRepeat
<1>10. Cardinality(OfRepeat(rs, j)) \in Nat
  BY FS_CardinalityType
<1>11. CASE j = k
  <2> HIDE DEF new, L
  <2>1. OfRepeat(rs \o b, j) = OfRepeat(rs, j) \union new
    BY <1>7, <1>11
  <2>2. /\ IsFiniteSet(OfRepeat(rs, j) \union new)
        /\ Cardinality(OfRepeat(rs, j) \union new) =
             Cardinality(OfRepeat(rs, j)) + Cardinality(new)
    BY <1>8, <1>9, DisjointUnion
  <2>3. QED
    BY <1>1, <1>2, <1>6, <1>8, <1>10, <1>11, <2>1, <2>2
<1>12. CASE j # k
  <2>1. OfRepeat(rs \o b, j) = OfRepeat(rs, j)
    BY <1>7, <1>12
  <2>2. QED
    BY <1>2, <1>6, <1>10, <1>12, <2>1
<1>13. QED
  BY <1>11, <1>12

\* After n of the R batches of N rows, whose repeats differ.
Merged(X, g, id, N, R, n) ==
  /\ g[n] \in Seq(X) /\ AllSound(g[n])
  /\ \A k \in 1..R : /\ IsFiniteSet(OfRepeat(g[n], id[k]))
                     /\ Cardinality(OfRepeat(g[n], id[k])) = IF k <= n THEN N ELSE 0

\* Sound batches of N rows, each of a repeat of its own, merge into N sound
\* rows of each repeat.
LEMMA BatchesMerge ==
  ASSUME NEW X, NEW N \in Nat, NEW R \in Nat, R # 0, NEW id, NEW q, NEW g,
         IsFlat(g, q, R),
         \A k \in 1..R : q[k] \in Seq(X) /\ Len(q[k]) = N /\ BatchOf(q[k], id[k]),
         \A k, l \in 1..R : id[k] = id[l] => k = l
  PROVE  Merged(X, g, id, N, R, R)
<1>1. \A n \in 1..R : g[n] = IF n = 1 THEN q[n] ELSE g[n - 1] \o q[n]
  BY DEF IsFlat
<1>2. Merged(X, g, id, N, R, 1)
  <2>1. 1 \in 1..R /\ g[1] = q[1]
    BY <1>1
  <2>2. q[1] \in Seq(X) /\ Len(q[1]) = N /\ DOMAIN q[1] = 1..N
    BY <2>1
  <2>3. \A i \in 1..N : q[1][i].repeat = id[1] /\ q[1][i].sound
    BY <2>1, <2>2 DEF BatchOf
  <2>4. ASSUME NEW k \in 1..R
        PROVE  /\ IsFiniteSet(OfRepeat(q[1], id[k]))
               /\ Cardinality(OfRepeat(q[1], id[k])) = IF k <= 1 THEN N ELSE 0
    <3>1. CASE k = 1
      <4>1. OfRepeat(q[1], id[k]) = 1..N
        BY <2>2, <2>3, <3>1 DEF OfRepeat
      <4>2. QED
        BY <3>1, <4>1, FS_Interval
    <3>2. CASE k # 1
      <4>1. id[k] # id[1] /\ ~(k <= 1)
        BY <2>1, <3>2
      <4>2. OfRepeat(q[1], id[k]) = {}
        BY <2>2, <2>3, <4>1 DEF OfRepeat
      <4>3. QED
        BY <4>1, <4>2, FS_EmptySet
    <3>3. QED
      BY <3>1, <3>2
  <2>5. QED
    BY <2>1, <2>2, <2>3, <2>4 DEF Merged, AllSound
<1>3. ASSUME NEW n \in 1..R, n # 1, Merged(X, g, id, N, R, n - 1)
      PROVE  Merged(X, g, id, N, R, n)
  <2> DEFINE rs == g[n - 1]
             b == q[n]
  <2>1. g[n] = rs \o b
    BY <1>1, <1>3
  <2>2. /\ rs \in Seq(X) /\ b \in Seq(X) /\ Len(b) = N
        /\ BatchOf(b, id[n]) /\ AllSound(rs)
    BY <1>3 DEF Merged
  <2>3. ASSUME NEW k \in 1..R
        PROVE  /\ g[n] \in Seq(X) /\ AllSound(g[n])
               /\ IsFiniteSet(OfRepeat(g[n], id[k]))
               /\ Cardinality(OfRepeat(g[n], id[k])) = IF k <= n THEN N ELSE 0
    <3>1. /\ IsFiniteSet(OfRepeat(rs, id[k]))
          /\ Cardinality(OfRepeat(rs, id[k])) = IF k <= n - 1 THEN N ELSE 0
      BY <1>3 DEF Merged
    <3>2. /\ rs \o b \in Seq(X) /\ AllSound(rs \o b)
          /\ IsFiniteSet(OfRepeat(rs \o b, id[k]))
          /\ Cardinality(OfRepeat(rs \o b, id[k])) =
               Cardinality(OfRepeat(rs, id[k])) + (IF id[k] = id[n] THEN Len(b) ELSE 0)
      <4> HIDE DEF rs, b
      <4>1. QED
        BY <2>2, <3>1, OneMoreBatch
    <3>3. id[k] = id[n] <=> k = n
      OBVIOUS
    <3> HIDE DEF rs, b
    <3>4. QED
      BY <2>1, <2>2, <3>1, <3>2, <3>3
  <2>4. QED
    BY <1>3, <2>3 DEF Merged
<1> DEFINE B == {n \in 1..R : ~Merged(X, g, id, N, R, n)}
<1>4. B = {}
  <2>1. SUFFICES ASSUME B # {} PROVE FALSE
    OBVIOUS
  <2>2. PICK m \in B : \A k \in B : m <= k
    <3>1. B \subseteq 0..R
      OBVIOUS
    <3> HIDE DEF B
    <3>2. QED
      BY <2>1, <3>1, LeastNumber
  <2>3. m \in 1..R /\ m # 1 /\ ~Merged(X, g, id, N, R, m)
    BY <1>2
  <2>4. m - 1 \in 1..R /\ ~(m <= m - 1)
    BY <2>3
  <2>5. Merged(X, g, id, N, R, m - 1)
    BY <2>2, <2>4
  <2>6. QED
    BY <1>3, <2>3, <2>5
<1>5. QED
  BY <1>4

-----------------------------------------------------------------------------
(* validate_all *)

RowType ==
  [repeat : 1..RepeatCount, config : Configs \union OtherConfigs, sound : BOOLEAN,
   commit : Commits, session : (1..RepeatCount) \X Configs]

\* What the two properties of a published aggregate say of its rows.
Judged(rs) ==
  /\ Cardinality(Values(rs, LAMBDA r : r.session)) = Len(rs)
  /\ Cardinality(Values(rs, LAMBDA r : r.commit)) = 1
  /\ \A i \in DOMAIN rs : rs[i].sound
  /\ \A k \in 1..RepeatCount : Cardinality(OfRepeat(rs, k)) = Cardinality(Configs)
  /\ \A i \in DOMAIN rs : CountOf(rs, rs[i].config) = RepeatCount

\* The rows of batches that pass are judged as they are to be.
LEMMA ValidatedIsJudged ==
  ASSUME AggregateAssumption, NEW d, IsFiniteSet(DOMAIN d),
         \A f \in DOMAIN d : d[f] \in Seq(RowType), validate_all(d)
  PROVE  Concatenated(d) \in Seq(RowType) /\ Judged(Concatenated(d))
<1> DEFINE R == RepeatCount
           N == Cardinality(Configs)
           S == batch_files(d)
           s == SetToSeq(S)
           q == [i \in DOMAIN s |-> d[s[i]]]
           id == [i \in 1..R |-> RepeatIdOf[s[i]]]
<1>1. R \in Nat /\ R # 0 /\ N \in Nat
  BY FS_CardinalityType DEF AggregateAssumption
<1>2. /\ Cardinality(S) = R /\ {RepeatIdOf[f] : f \in S} = 1..R
      /\ \A f \in S : /\ Len(d[f]) = N
                      /\ \A i \in DOMAIN d[f] : d[f][i].repeat = RepeatIdOf[f] /\ d[f][i].sound
      /\ RelatedOK(Concatenated(d))
  BY DEF validate_all, FilesOK, validate_batch, ROWS_PER_BATCH
<1>3. IsFiniteSet(S) /\ S \subseteq DOMAIN d
  <2>1. S \subseteq DOMAIN d
    BY DEF batch_files
  <2>2. QED
    BY <2>1, FS_Subset
<1>4. /\ s \in [1..R -> S]
      /\ \A x \in S : \E i \in 1..R : s[i] = x
  <2> HIDE DEF S
  <2>1. QED
    BY <1>2, <1>3, SetToSeqLists
<1>5. \A k \in 1..R : q[k] \in Seq(RowType) /\ Len(q[k]) = N /\ BatchOf(q[k], id[k])
  <2>1. SUFFICES ASSUME NEW k \in 1..R
                 PROVE  q[k] \in Seq(RowType) /\ Len(q[k]) = N /\ BatchOf(q[k], id[k])
    OBVIOUS
  <2>2. s[k] \in S /\ s[k] \in DOMAIN d /\ k \in DOMAIN s
    BY <1>3, <1>4
  <2> HIDE DEF s, S
  <2>3. q[k] = d[s[k]] /\ id[k] = RepeatIdOf[s[k]]
    BY <2>2
  <2>4. q[k] \in Seq(RowType) /\ Len(q[k]) = N
    BY <1>2, <2>2, <2>3
  <2> HIDE DEF q, id, N
  <2>5. DOMAIN q[k] = 1..Len(q[k])
    BY <2>4
  <2>6. QED
    BY <1>2, <2>2, <2>3, <2>4, <2>5 DEF BatchOf
<1>6. \A k \in 1..R : \E i \in 1..R : id[i] = k
  <2>1. SUFFICES ASSUME NEW k \in 1..R PROVE \E i \in 1..R : id[i] = k
    OBVIOUS
  <2> HIDE DEF s, S
  <2>2. PICK f \in S : RepeatIdOf[f] = k
    BY <1>2
  <2>3. PICK i \in 1..R : s[i] = f
    BY <1>4
  <2>4. QED
    BY <2>2, <2>3
<1>7. id \in [1..R -> 1..R]
  <2> HIDE DEF s, S
  <2>1. QED
    BY <1>2, <1>4
<1>8. Len(q) = R
  <2> HIDE DEF s, S
  <2>1. DOMAIN q = 1..R
    BY <1>4
  <2>2. q \in Seq(Seq(RowType))
    BY <1>1, <1>5, <2>1
  <2>3. QED
    BY <1>1, <2>1, <2>2
<1>9. Concatenated(d) = FlattenSeq(q)
  BY DEF Concatenated
<1> HIDE DEF q, id, s, S, R, N
<1>10. PICK g : IsFlat(g, q, R) /\ FlattenSeq(q) = g[R]
  BY <1>1, <1>8, FlattenSeqIs
<1>11. \A i, j \in 1..R : id[i] = id[j] => i = j
  BY <1>1, <1>6, <1>7, NumbersDiffer
<1>12. Merged(RowType, g, id, N, R, R)
  BY <1>1, <1>5, <1>10, <1>11, BatchesMerge
<1> DEFINE c == Concatenated(d)
<1>13. c \in Seq(RowType) /\ AllSound(c) /\ DOMAIN c = 1..Len(c)
  <2>1. c = g[R]
    BY <1>9, <1>10
  <2> HIDE DEF c
  <2>2. c \in Seq(RowType) /\ AllSound(c)
    BY <1>12, <2>1 DEF Merged
  <2>3. QED
    BY <2>2
<1>14. \A k \in 1..R : Cardinality(OfRepeat(c, k)) = N
  <2>1. c = g[R]
    BY <1>9, <1>10
  <2> HIDE DEF c
  <2>2. \A i \in 1..R : Cardinality(OfRepeat(c, id[i])) = N
    BY <1>1, <1>12, <2>1 DEF Merged
  <2>3. QED
    BY <1>6, <2>2
<1>15. /\ Cardinality(Values(c, LAMBDA r : r.session)) = Len(c)
       /\ Cardinality(Values(c, LAMBDA r : r.commit)) = 1
       /\ \A i \in DOMAIN c : CountOf(c, c[i].config) = RepeatCount
  <2>1. RelatedOK(c)
    BY <1>2
  <2> HIDE DEF c
  <2>2. QED
    BY <2>1 DEF RelatedOK, Values
<1>16. QED
  <2> HIDE DEF c
  <2>1. Judged(c)
    BY <1>13, <1>14, <1>15 DEF Judged, AllSound, R, N
  <2>2. QED
    BY <1>13, <2>1 DEF c

-----------------------------------------------------------------------------
(* The inductive invariant *)

Types ==
  /\ TypeOK
  /\ IsFiniteSet(DOMAIN dir) /\ \A f \in DOMAIN dir : dir[f] \in Seq(RowType)
  /\ all_rows \in [Aggregators -> Seq(RowType)] /\ interrupts \in Nat

\* Until there is an output, the temporary file is that of the aggregator
\* that writes or links it.
TmpIsOwned ==
  \A a \in Aggregators : output = None /\ pc[a] \in {"write", "link"} => tmp = a

\* The temporary name is only taken away after the output has appeared.
UnlinkedIsPublished ==
  \A a \in Aggregators : pc[a] \in {"unlink", "done"} => output # None

RowsAreJudged ==
  \A a \in Aggregators :
     pc[a] \in {"open", "write", "link"} \/ output = a => Judged(all_rows[a])

IInv ==
  /\ Types /\ TmpIsOwned /\ UnlinkedIsPublished /\ OutputIsWritten /\ RowsAreJudged

-----------------------------------------------------------------------------
(* Types *)

\* The batches that are good are sequences of rows.
LEMMA GoodBatchType ==
  ASSUME AggregateAssumption, NEW k \in 1..RepeatCount
  PROVE  GoodBatch(k) \in Seq(RowType)
<1> DEFINE s == SetToSeq(Configs)
           n == Cardinality(Configs)
<1>1. n \in Nat /\ s \in [1..n -> Configs]
  BY FS_CardinalityType, SetToSeqLists DEF AggregateAssumption
<1>2. \A c \in Configs : Row(k, c) \in RowType
  <2>1. (CHOOSE x \in Commits : TRUE) \in Commits
    BY DEF AggregateAssumption
  <2>2. QED
    BY <2>1 DEF Row, RowType
<1>3. GoodBatch(k) = [i \in DOMAIN s |-> Row(k, s[i])]
  BY DEF GoodBatch
<1> HIDE DEF s, n
<1>4. GoodBatch(k) \in [1..n -> RowType]
  BY <1>1, <1>2, <1>3
<1>5. QED
  BY <1>1, <1>4

LEMMA EditedRow ==
  ASSUME NEW r \in RowType, NEW e \in RowEdits(r)
  PROVE  e \in RowType
<1>1. CASE \E k \in 1..RepeatCount : e = [r EXCEPT !.repeat = k]
  BY <1>1 DEF RowType
<1>2. CASE \E c \in Configs \union OtherConfigs : e = [r EXCEPT !.config = c]
  BY <1>2 DEF RowType
<1>3. CASE e = [r EXCEPT !.sound = FALSE]
  BY <1>3 DEF RowType
<1>4. CASE \E x \in Commits : e = [r EXCEPT !.commit = x]
  BY <1>4 DEF RowType
<1>5. CASE \E k \in 1..RepeatCount, c \in Configs : e = [r EXCEPT !.session = <<k, c>>]
  BY <1>5 DEF RowType
<1>6. QED
  BY <1>1, <1>2, <1>3, <1>4, <1>5 DEF RowEdits

\* An edit of a batch makes another sequence of rows.
LEMMA EditedType ==
  ASSUME AggregateAssumption, NEW b \in Seq(RowType), NEW e \in BatchEdits(b)
  PROVE  e \in Seq(RowType)
<1>1. \A i \in DOMAIN b : b[i] \in RowType
  OBVIOUS
<1>2. CASE \E i \in DOMAIN b : \E r \in RowEdits(b[i]) : e = [b EXCEPT ![i] = r]
  <2>1. PICK i \in DOMAIN b : \E r \in RowEdits(b[i]) : e = [b EXCEPT ![i] = r]
    BY <1>2
  <2>2. PICK r \in RowEdits(b[i]) : e = [b EXCEPT ![i] = r]
    BY <2>1
  <2>3. r \in RowType
    BY <1>1, <2>2, EditedRow
  <2>4. QED
    BY <2>2, <2>3
<1>3. CASE \E i \in DOMAIN b : e = RemoveAt(b, i)
  <2>1. PICK i \in DOMAIN b : e = RemoveAt(b, i)
    BY <1>3
  <2>2. i \in 1..Len(b) /\ Len(b) \in Nat
    OBVIOUS
  <2>3. /\ \A j \in 1..(i - 1) : b[j] \in RowType
        /\ \A j \in (i + 1)..Len(b) : b[j] \in RowType
    BY <1>1, <2>2
  <2>4. SubSeq(b, 1, i - 1) \in Seq(RowType) /\ SubSeq(b, i + 1, Len(b)) \in Seq(RowType)
    BY <2>2, <2>3, SubSeqProperties
  <2>5. QED
    BY <2>1, <2>4, ConcatProperties DEF RemoveAt
<1>4. CASE \E i \in DOMAIN b : e = Append(b, b[i])
  BY <1>1, <1>4
<1>5. QED
  BY <1>2, <1>3, <1>4 DEF BatchEdits

LEMMA InitTypes ==
  ASSUME AggregateAssumption, Init
  PROVE  Types
<1> DEFINE R == RepeatCount
           D == {GoodName[k] : k \in 1..R}
<1>1. R \in Nat /\ GoodName \in [1..R -> FileNames]
  BY DEF AggregateAssumption
<1>2. IsFiniteSet(D) /\ D \subseteq FileNames
  <2>1. D \subseteq FileNames
    BY <1>1
  <2>2. GoodName \in Surjection(1..R, D)
    BY <1>1 DEF Surjection
  <2>3. IsFiniteSet(1..R)
    BY <1>1, FS_Interval
  <2>4. QED
    BY <2>1, <2>2, <2>3, FS_Surjection
<1>3. /\ DOMAIN dir = D
      /\ \A f \in D : dir[f] = GoodBatch(CHOOSE k \in 1..R : GoodName[k] = f)
  BY DEF Init
<1>4. ASSUME NEW f \in D
      PROVE  dir[f] \in Seq(RowType)
  <2>1. (CHOOSE k \in 1..R : GoodName[k] = f) \in 1..R
    OBVIOUS
  <2>2. QED
    BY <1>3, <2>1, GoodBatchType
<1>5. all_rows \in [Aggregators -> Seq(RowType)] /\ interrupts \in Nat
  BY DEF Init
<1>6. TypeOK
  BY <1>2, <1>3 DEF Init, TypeOK
<1>7. QED
  BY <1>2, <1>3, <1>4, <1>5, <1>6 DEF Types

LEMMA EditTypes ==
  ASSUME AggregateAssumption, Types, Edit
  PROVE  Types'
<1> DEFINE Good(d) == /\ DOMAIN d \subseteq FileNames /\ IsFiniteSet(DOMAIN d)
                      /\ \A f \in DOMAIN d : d[f] \in Seq(RowType)
<1>0. SUFFICES Good(dir')
  BY DEF Edit, Types, TypeOK
<1>1. Good(dir)
  BY DEF Types, TypeOK
<1>2. CASE \E f \in DOMAIN dir : \E b \in BatchEdits(dir[f]) : dir' = [dir EXCEPT ![f] = b]
  <2>1. PICK f \in DOMAIN dir : \E b \in BatchEdits(dir[f]) : dir' = [dir EXCEPT ![f] = b]
    BY <1>2
  <2>2. PICK b \in BatchEdits(dir[f]) : dir' = [dir EXCEPT ![f] = b]
    BY <2>1
  <2>3. b \in Seq(RowType)
    BY <1>1, EditedType
  <2>4. QED
    BY <1>1, <2>2, <2>3
<1>3. CASE \E f \in DOMAIN dir : dir' = Restrict(dir, DOMAIN dir \ {f})
  <2>1. PICK f \in DOMAIN dir : dir' = Restrict(dir, DOMAIN dir \ {f})
    BY <1>3
  <2>2. DOMAIN dir' = DOMAIN dir \ {f}
    BY <2>1 DEF Restrict
  <2>3. IsFiniteSet(DOMAIN dir \ {f})
    BY <1>1, FS_RemoveElement
  <2>4. QED
    BY <1>1, <2>1, <2>2, <2>3 DEF Restrict
<1>4. CASE \E f \in DOMAIN dir, g \in FileNames \ DOMAIN dir :
             \/ dir' = [h \in (DOMAIN dir \ {f}) \union {g} |-> IF h = g THEN dir[f] ELSE dir[h]]
             \/ dir' = [h \in DOMAIN dir \union {g} |-> IF h = g THEN dir[f] ELSE dir[h]]
  <2>1. PICK f \in DOMAIN dir, g \in FileNames \ DOMAIN dir :
             \/ dir' = [h \in (DOMAIN dir \ {f}) \union {g} |-> IF h = g THEN dir[f] ELSE dir[h]]
             \/ dir' = [h \in DOMAIN dir \union {g} |-> IF h = g THEN dir[f] ELSE dir[h]]
    BY <1>4
  <2>2. /\ IsFiniteSet((DOMAIN dir \ {f}) \union {g})
        /\ IsFiniteSet(DOMAIN dir \union {g})
    BY <1>1, FS_RemoveElement, FS_AddElement
  <2>3. CASE dir' = [h \in (DOMAIN dir \ {f}) \union {g} |-> IF h = g THEN dir[f] ELSE dir[h]]
    BY <1>1, <2>1, <2>2, <2>3
  <2>4. CASE dir' = [h \in DOMAIN dir \union {g} |-> IF h = g THEN dir[f] ELSE dir[h]]
    BY <1>1, <2>1, <2>2, <2>4
  <2>5. QED
    BY <2>1, <2>3, <2>4
<1>5. QED
  <2> HIDE DEF Good
  <2>1. QED
    BY <1>2, <1>3, <1>4 DEF Edit

-----------------------------------------------------------------------------
(* The steps *)

\* Steps that leave the batches, the rows, the names and the count of the
\* interrupts alone.
LEMMA MoveTypes ==
  ASSUME Types, NEW a \in Aggregators,
         NEW w \in {"start", "guard", "validate", "open", "write", "link", "unlink",
                    "done", "failed"},
         Goto(a, w), UNCHANGED <<dir, all_rows>>,
         tmp' \in Aggregators \union {None}, output' \in Aggregators \union {None},
         interrupts' \in Nat
  PROVE  Types'
BY DEF Types, TypeOK, Goto

\* A step that does not touch the names, and takes its aggregator neither to
\* one of the phases the invariant speaks of nor away from one.
LEMMA MoveKeeps ==
  ASSUME IInv, NEW a \in Aggregators, NEW w, Goto(a, w),
         pc[a] \notin {"unlink", "done"}, w \notin {"open", "write", "link", "unlink", "done"},
         interrupts' \in Nat, interrupts' >= interrupts,
         pc[a] = "failed" => w = "failed",
         UNCHANGED <<all_rows, tmp, output>>
  PROVE  (TmpIsOwned /\ UnlinkedIsPublished /\ OutputIsWritten /\ RowsAreJudged)'
<1>1. \A b \in Aggregators : pc'[b] = IF b = a THEN w ELSE pc[b]
  BY DEF IInv, Types, TypeOK, Goto
<1>2. TmpIsOwned'
  BY <1>1 DEF IInv, TmpIsOwned
<1>3. UnlinkedIsPublished'
  BY <1>1 DEF IInv, UnlinkedIsPublished
<1>4. OutputIsWritten'
  BY <1>1 DEF IInv, Types, TypeOK, OutputIsWritten
<1>5. RowsAreJudged'
  BY <1>1 DEF IInv, RowsAreJudged
<1>6. QED
  BY <1>2, <1>3, <1>4, <1>5

LEMMA InitIInv ==
  ASSUME AggregateAssumption, Init
  PROVE  IInv
<1>1. Types
  BY InitTypes
<1>2. TmpIsOwned /\ UnlinkedIsPublished /\ OutputIsWritten /\ RowsAreJudged
  BY DEF AggregateAssumption, Init, TmpIsOwned, UnlinkedIsPublished, OutputIsWritten,
         RowsAreJudged
<1>3. QED
  BY <1>1, <1>2 DEF IInv

LEMMA NextIInv ==
  ASSUME AggregateAssumption, IInv, [Next]_vars
  PROVE  IInv'
<1> USE DEF IInv
<1>0. None \notin Aggregators
  BY DEF AggregateAssumption
<1>1. CASE Edit
  <2>1. Types'
    BY <1>1, EditTypes
  <2>2. UNCHANGED <<interrupts, pc, all_rows, tmp, output>>
    BY <1>1 DEF Edit
  <2>3. TmpIsOwned' /\ UnlinkedIsPublished' /\ OutputIsWritten' /\ RowsAreJudged'
    BY <2>2 DEF TmpIsOwned, UnlinkedIsPublished, OutputIsWritten, RowsAreJudged
  <2>4. QED
    BY <2>1, <2>3
<1>2. ASSUME NEW a \in Aggregators, GuardOutput(a)
      PROVE  IInv'
  <2>1. PICK w \in {"guard", "failed"} : pc[a] = "start" /\ Goto(a, w)
    BY <1>2 DEF GuardOutput
  <2>2. Types'
    BY <1>2, <2>1, MoveTypes DEF GuardOutput, Types, TypeOK
  <2>3. (TmpIsOwned /\ UnlinkedIsPublished /\ OutputIsWritten /\ RowsAreJudged)'
    BY <1>2, <2>1, MoveKeeps DEF GuardOutput, Types
  <2>4. QED
    BY <2>2, <2>3
<1>3. ASSUME NEW a \in Aggregators, GuardTmp(a)
      PROVE  IInv'
  <2>1. PICK w \in {"validate", "failed"} : pc[a] = "guard" /\ Goto(a, w)
    BY <1>3 DEF GuardTmp
  <2>2. Types'
    BY <1>3, <2>1, MoveTypes DEF GuardTmp, Types, TypeOK
  <2>3. (TmpIsOwned /\ UnlinkedIsPublished /\ OutputIsWritten /\ RowsAreJudged)'
    BY <1>3, <2>1, MoveKeeps DEF GuardTmp, Types
  <2>4. QED
    BY <2>2, <2>3
<1>4. ASSUME NEW a \in Aggregators, Validate(a)
      PROVE  IInv'
  <2>1. CASE ~validate_all(dir)
    <3>1. pc[a] = "validate" /\ Goto(a, "failed")
          /\ UNCHANGED <<dir, edits, interrupts, all_rows, tmp, output>>
      BY <1>4, <2>1 DEF Validate
    <3>2. Types'
      BY <3>1, MoveTypes DEF Types, TypeOK
    <3>3. (TmpIsOwned /\ UnlinkedIsPublished /\ OutputIsWritten /\ RowsAreJudged)'
      BY <3>1, MoveKeeps DEF Types
    <3>4. QED
      BY <3>2, <3>3
  <2>2. CASE validate_all(dir)
    <3> DEFINE c == Concatenated(dir)
    <3>1. c \in Seq(RowType) /\ Judged(c)
      BY <2>2, ValidatedIsJudged DEF Types
    <3>2. /\ pc[a] = "validate" /\ Goto(a, "open")
          /\ all_rows' = [all_rows EXCEPT ![a] = c]
          /\ UNCHANGED <<dir, edits, interrupts, tmp, output>>
      BY <1>4, <2>2 DEF Validate
    <3> HIDE DEF c
    <3>3. Types'
      BY <3>1, <3>2 DEF Types, TypeOK, Goto
    <3>4. \A b \in Aggregators : /\ pc'[b] = IF b = a THEN "open" ELSE pc[b]
                                 /\ all_rows'[b] = IF b = a THEN c ELSE all_rows[b]
      BY <3>2 DEF Types, TypeOK, Goto
    <3>5. TmpIsOwned' /\ UnlinkedIsPublished'
      BY <3>2, <3>4 DEF TmpIsOwned, UnlinkedIsPublished
    <3>6. OutputIsWritten'
      BY <3>2, <3>4 DEF OutputIsWritten, Types, TypeOK
    <3>7. RowsAreJudged'
      BY <3>1, <3>2, <3>4 DEF RowsAreJudged
    <3>8. QED
      BY <3>3, <3>5, <3>6, <3>7
  <2>3. QED
    BY <2>1, <2>2
<1>5. ASSUME NEW a \in Aggregators, OpenTmp(a)
      PROVE  IInv'
  <2>1. CASE tmp # None
    <3>1. pc[a] = "open" /\ Goto(a, "failed")
          /\ UNCHANGED <<dir, edits, interrupts, all_rows, tmp, output>>
      BY <1>5, <2>1 DEF OpenTmp
    <3>2. Types'
      BY <3>1, MoveTypes DEF Types, TypeOK
    <3>3. (TmpIsOwned /\ UnlinkedIsPublished /\ OutputIsWritten /\ RowsAreJudged)'
      BY <3>1, MoveKeeps DEF Types
    <3>4. QED
      BY <3>2, <3>3
  <2>2. CASE tmp = None
    <3>1. /\ pc[a] = "open" /\ Goto(a, "write") /\ tmp' = a
          /\ UNCHANGED <<dir, edits, interrupts, all_rows, output>>
      BY <1>5, <2>2 DEF OpenTmp
    <3>2. Types'
      BY <3>1, MoveTypes DEF Types, TypeOK
    <3>3. \A b \in Aggregators : pc'[b] = IF b = a THEN "write" ELSE pc[b]
      BY <3>1 DEF Types, TypeOK, Goto
    <3>4. TmpIsOwned'
      BY <1>0, <2>2, <3>1, <3>3 DEF TmpIsOwned
    <3>5. UnlinkedIsPublished' /\ RowsAreJudged'
      BY <3>1, <3>3 DEF UnlinkedIsPublished, RowsAreJudged
    <3>6. OutputIsWritten'
      BY <3>1, <3>3 DEF OutputIsWritten, Types, TypeOK
    <3>7. QED
      BY <3>2, <3>4, <3>5, <3>6
  <2>3. QED
    BY <2>1, <2>2
<1>6. ASSUME NEW a \in Aggregators, Write(a)
      PROVE  IInv'
  <2>1. pc[a] = "write" /\ Goto(a, "link")
        /\ UNCHANGED <<dir, edits, interrupts, all_rows, tmp, output>>
    BY <1>6 DEF Write
  <2>2. Types'
    BY <2>1, MoveTypes DEF Types, TypeOK
  <2>3. \A b \in Aggregators : pc'[b] = IF b = a THEN "link" ELSE pc[b]
    BY <2>1 DEF Types, TypeOK, Goto
  <2>4. TmpIsOwned' /\ UnlinkedIsPublished' /\ RowsAreJudged'
    BY <2>1, <2>3 DEF TmpIsOwned, UnlinkedIsPublished, RowsAreJudged
  <2>5. OutputIsWritten'
    BY <2>1, <2>3 DEF OutputIsWritten, Types, TypeOK
  <2>6. QED
    BY <2>2, <2>4, <2>5
<1>7. ASSUME NEW a \in Aggregators, Link(a)
      PROVE  IInv'
  <2>1. CASE output # None
    <3>1. pc[a] = "link" /\ Goto(a, "failed")
          /\ UNCHANGED <<dir, edits, interrupts, all_rows, tmp, output>>
      BY <1>7, <2>1 DEF Link
    <3>2. Types'
      BY <3>1, MoveTypes DEF Types, TypeOK
    <3>3. (TmpIsOwned /\ UnlinkedIsPublished /\ OutputIsWritten /\ RowsAreJudged)'
      BY <3>1, MoveKeeps DEF Types
    <3>4. QED
      BY <3>2, <3>3
  <2>2. CASE output = None
    <3>1. /\ pc[a] = "link" /\ Goto(a, "unlink") /\ output' = tmp
          /\ UNCHANGED <<dir, edits, interrupts, all_rows, tmp>>
      BY <1>7, <2>2 DEF Link
    <3>2. output' = a /\ output' # None
      BY <1>0, <2>2, <3>1 DEF TmpIsOwned
    <3>3. Types'
      BY <3>1, MoveTypes DEF Types, TypeOK
    <3>4. \A b \in Aggregators : pc'[b] = IF b = a THEN "unlink" ELSE pc[b]
      BY <3>1 DEF Types, TypeOK, Goto
    <3>5. TmpIsOwned' /\ UnlinkedIsPublished'
      BY <3>2 DEF TmpIsOwned, UnlinkedIsPublished
    <3>6. OutputIsWritten'
      BY <3>2, <3>4 DEF OutputIsWritten
    <3>7. RowsAreJudged'
      BY <3>1, <3>2, <3>4 DEF RowsAreJudged
    <3>8. QED
      BY <3>3, <3>5, <3>6, <3>7
  <2>3. QED
    BY <2>1, <2>2
<1>8. ASSUME NEW a \in Aggregators, Unlink(a)
      PROVE  IInv'
  <2>1. /\ pc[a] = "unlink" /\ tmp' = None /\ Goto(a, "done")
        /\ UNCHANGED <<dir, edits, interrupts, all_rows, output>>
    BY <1>8 DEF Unlink
  <2>2. output # None
    BY <2>1 DEF UnlinkedIsPublished
  <2>3. Types'
    BY <2>1, MoveTypes DEF Types, TypeOK
  <2>4. \A b \in Aggregators : pc'[b] = IF b = a THEN "done" ELSE pc[b]
    BY <2>1 DEF Types, TypeOK, Goto
  <2>5. TmpIsOwned' /\ UnlinkedIsPublished' /\ RowsAreJudged'
    BY <2>1, <2>2, <2>4 DEF TmpIsOwned, UnlinkedIsPublished, RowsAreJudged
  <2>6. OutputIsWritten'
    BY <2>1, <2>4 DEF OutputIsWritten, Types, TypeOK
  <2>7. QED
    BY <2>3, <2>5, <2>6
<1>9. ASSUME NEW a \in Aggregators, Interrupt(a)
      PROVE  IInv'
  <2>1. /\ pc[a] \notin {"start", "done", "failed"} /\ Goto(a, "failed")
        /\ interrupts' = interrupts + 1
        /\ UNCHANGED <<dir, edits, all_rows, tmp, output>>
    BY <1>9 DEF Interrupt
  <2>2. interrupts' \in Nat /\ interrupts' > 0
    BY <2>1 DEF Types
  <2>3. Types'
    BY <2>1, <2>2, MoveTypes DEF Types, TypeOK
  <2>4. \A b \in Aggregators : pc'[b] = IF b = a THEN "failed" ELSE pc[b]
    BY <2>1 DEF Types, TypeOK, Goto
  <2>5. TmpIsOwned' /\ UnlinkedIsPublished' /\ RowsAreJudged'
    BY <2>1, <2>4 DEF TmpIsOwned, UnlinkedIsPublished, RowsAreJudged
  <2>6. OutputIsWritten'
    BY <2>1, <2>2, <2>4 DEF OutputIsWritten, Types, TypeOK
  <2>7. QED
    BY <2>3, <2>5, <2>6
<1>10. CASE UNCHANGED vars
  <2>1. UNCHANGED <<dir, interrupts, pc, all_rows, tmp, output>>
    BY <1>10 DEF vars
  <2>2. Types'
    BY <2>1 DEF Types, TypeOK
  <2>3. TmpIsOwned' /\ UnlinkedIsPublished' /\ OutputIsWritten' /\ RowsAreJudged'
    BY <2>1 DEF TmpIsOwned, UnlinkedIsPublished, OutputIsWritten, RowsAreJudged
  <2>4. QED
    BY <2>2, <2>3
<1>11. QED
  <2> USE DEF Next, Step, Done
  <2> HIDE DEF IInv
  <2>1. QED
    BY <1>1, <1>2, <1>3, <1>4, <1>5, <1>6, <1>7, <1>8, <1>9, <1>10

-----------------------------------------------------------------------------
(* Theorems *)

\* IInv is an invariant of the aggregation (main).
THEOREM Invariance ==
  ASSUME AggregateAssumption
  PROVE  Spec => []IInv
<1>1. Init => IInv
  BY InitIInv
<1>2. IInv /\ [Next]_vars => IInv'
  BY NextIInv
<1>3. QED
  BY <1>1, <1>2, PTL DEF Spec

\* The output never refers to a file that is still being written, however many
\* aggregators race for it and wherever they are interrupted (main).
THEOREM Written ==
  ASSUME AggregateAssumption
  PROVE  Spec => [](TypeOK /\ OutputIsWritten)
<1>1. IInv => TypeOK /\ OutputIsWritten
  BY DEF IInv, Types
<1>2. QED
  BY <1>1, Invariance, PTL

\* A published aggregate is never replaced by another, and the program that
\* published it does not come back to its rows (main).
RowsStay == output # None => all_rows'[output] = all_rows[output]

THEOREM Final ==
  ASSUME AggregateAssumption
  PROVE  Spec => [][OutputIsFinal /\ RowsStay]_vars
<1>1. [Next]_vars => [OutputIsFinal]_vars
  BY DEF Next, Step, Edit, GuardOutput, GuardTmp, Validate, OpenTmp, Write, Link, Unlink,
         Interrupt, Done, OutputIsFinal, vars
<1>2. ASSUME IInv, [Next]_vars, output # None
      PROVE  all_rows'[output] = all_rows[output]
  <2>1. ASSUME NEW a \in Aggregators, Validate(a)
        PROVE  all_rows'[output] = all_rows[output]
    <3>1. output # a
      BY <1>2, <2>1 DEF Validate, IInv, OutputIsWritten
    <3>2. QED
      BY <1>2, <2>1, <3>1 DEF Validate, IInv, Types, TypeOK
  <2>2. QED
    BY <1>2, <2>1 DEF Next, Step, Edit, GuardOutput, GuardTmp, OpenTmp, Write, Link,
                      Unlink, Interrupt, Done, vars
<1>3. IInv /\ [Next]_vars => [OutputIsFinal /\ RowsStay]_vars
  BY <1>1, <1>2 DEF RowsStay
<1>4. QED
  BY <1>3, Invariance, PTL DEF Spec

\* Whatever was edited in the batches, the rows of a published aggregate are
\* sound, of one commit and of different sessions, as many of every repeat as
\* there are configurations, and every configuration that occurs does so once
\* per repeat (validate_all).
THEOREM Uniform ==
  ASSUME AggregateAssumption
  PROVE  Spec => [](AggregateIsUniform /\ ConfigsAreBalanced)
<1>1. IInv => AggregateIsUniform /\ ConfigsAreBalanced
  <2>1. SUFFICES ASSUME IInv, output # None
                 PROVE  AggregateIsUniform /\ ConfigsAreBalanced
    BY DEF AggregateIsUniform, ConfigsAreBalanced
  <2>2. Judged(all_rows[output])
    BY <2>1 DEF IInv, Types, TypeOK, RowsAreJudged
  <2>3. QED
    BY <2>2 DEF Judged, OfRepeat, AggregateIsUniform, ConfigsAreBalanced
<1>2. QED
  BY <1>1, Invariance, PTL

-----------------------------------------------------------------------------
(* run_recovery_validation.py: RecoveryPublication *)

CONSTANTS Runners, Old, Invocations, PROTOCOLS, DISCONNECT_POINTS,
          DISCONNECT_TYPES, REPEAT_COUNT, FIXED_MESSAGE_COUNT,
          FIXED_PAYLOAD_SIZE, Leftovers, MaxCrashes
VARIABLES args, pub_pc, code, final, pub_tmp, failed, conflicts, pub_rows,
          server, crashes, raised

Pub == INSTANCE RecoveryPublication
  WITH pc <- pub_pc, tmp <- pub_tmp, rows <- pub_rows, interrupts <- raised

(* The matrix and the loops that go through it *)

MatrixType ==
  [protocols : Seq(STRING), points : Seq(Int), types : Seq(STRING), repeats : Int]

LEMMA MatrixIsTyped ==
  ASSUME Pub!PublicationAssumption, Pub!ArgumentsAssumption,
         NEW a \in Invocations, NEW r \in Runners
  PROVE  Pub!Matrix(a[r]) \in MatrixType
<1> DEFINE b == a[r]
<1>1. /\ PROTOCOLS \in Seq(STRING) /\ DISCONNECT_TYPES \in Seq(STRING)
      /\ DISCONNECT_POINTS \in Seq(Int) /\ Len(DISCONNECT_POINTS) >= 2
      /\ REPEAT_COUNT \in Int
  BY DEF Pub!PublicationAssumption, Pub!ArgumentsAssumption
<1>2. b.mode \in Pub!Modes
  BY DEF Pub!ArgumentsAssumption
<1>3. /\ Pub!Given(b.protocols, PROTOCOLS) \in Seq(STRING)
      /\ Pub!Given(b.points, DISCONNECT_POINTS) \in Seq(Int)
      /\ Pub!Given(b.types, DISCONNECT_TYPES) \in Seq(STRING)
      /\ Pub!Given(b.repeats, REPEAT_COUNT) \in Int
  BY <1>1 DEF Pub!Given, Pub!ArgumentsAssumption
<1>4. SubSeq(DISCONNECT_POINTS, 1, 2) \in Seq(Int)
  BY <1>1, SubSeqProperties
<1> HIDE DEF b
<1>5. CASE b.mode = "formal"
  BY <1>1, <1>5 DEF Pub!Matrix, MatrixType, b
<1>6. CASE b.mode = "quick"
  BY <1>1, <1>4, <1>6 DEF Pub!Matrix, MatrixType, b
<1>7. CASE b.mode = "development"
  BY <1>3, <1>7 DEF Pub!Matrix, MatrixType, b
<1>8. QED
  BY <1>2, <1>5, <1>6, <1>7 DEF Pub!Modes

\* RecoveryPublication's own instance of the library's operator.
LEMMA SameCardinality == \A S : Pub!Cardinality(S) = Cardinality(S)
BY Zenon DEF Pub!Cardinality, Cardinality

\* A list without repetitions has every element of its set at one place.
LEMMA UniqueList ==
  ASSUME NEW S, NEW s \in Seq(S), Pub!IsUnique(s)
  PROVE  /\ Len(s) \in Nat \ {0}
         /\ \A x \in ToSet(s) : \E i \in 1..Len(s) : s[i] = x
         /\ \A i \in 1..Len(s) : s[i] \in ToSet(s)
         /\ \A i, j \in 1..Len(s) : s[i] = s[j] => i = j
<1>1. s # <<>> /\ Len(s) = Cardinality(ToSet(s))
  BY SameCardinality DEF Pub!IsUnique, Pub!ToSet, ToSet
<1>2. Len(s) \in Nat /\ Len(s) # 0 /\ DOMAIN s = 1..Len(s)
  BY <1>1
<1>3. s \in Surjection(1..Len(s), ToSet(s))
  BY <1>2 DEF Surjection, ToSet
<1>4. IsFiniteSet(1..Len(s)) /\ Cardinality(1..Len(s)) = Len(s)
  BY <1>2, FS_Interval
<1>5. s \in Injection(1..Len(s), ToSet(s))
  BY <1>1, <1>3, <1>4, FS_Surjection
<1>6. QED
  BY <1>2, <1>3, <1>5 DEF Injection, IsInjective, Surjection

\* The loops of main go through the matrix the gate expects, once each.
LEMMA LoopsCoverMatrix ==
  ASSUME NEW a, Pub!Matrix(a) \in MatrixType, Pub!Accepts(a)
  PROVE  /\ Pub!Total(a) \in Nat \ {0}
         /\ Pub!Expected(a) = {Pub!Cell(a, n) : n \in 1..Pub!Total(a)}
         /\ Pub!Cardinality(Pub!Expected(a)) = Pub!Total(a)
<1> DEFINE m == Pub!Matrix(a)
           A == Len(m.protocols)
           B == Len(m.points)
           C == Len(m.types)
           R == m.repeats
           t == R * C
           p == t * B
           N == Pub!Total(a)
           f == [n \in 1..N |-> Pub!Cell(a, n)]
<1>1. /\ m.protocols \in Seq(STRING) /\ m.points \in Seq(Int) /\ m.types \in Seq(STRING)
      /\ m.repeats \in Nat \ {0} /\ Pub!IsUnique(m.protocols) /\ Pub!IsUnique(m.points)
      /\ Pub!IsUnique(m.types)
  <2>1. m \in MatrixType
    OBVIOUS
  <2>2. Pub!IsUnique(m.protocols) /\ Pub!IsUnique(m.points) /\ Pub!IsUnique(m.types)
        /\ m.repeats > 0
    BY DEF Pub!Accepts
  <2> HIDE DEF m
  <2>3. QED
    BY <2>1, <2>2 DEF MatrixType
<1>2. Pub!Total(a) = ((A * B) * C) * R
  BY DEF Pub!Total
<1>3. ASSUME NEW n
      PROVE  Pub!Cell(a, n) =
               <<m.protocols[((n - 1) \div p) + 1], m.points[(((n - 1) % p) \div t) + 1],
                 m.types[(((n - 1) % t) \div R) + 1], ((n - 1) % R) + 1>>
  BY DEF Pub!Cell
<1>4. Pub!Expected(a) = Pub!ToSet(m.protocols) \X Pub!ToSet(m.points)
                          \X Pub!ToSet(m.types) \X (1..R)
  BY DEF Pub!Expected
<1> HIDE DEF m
<1>5. A \in Nat \ {0} /\ B \in Nat \ {0} /\ C \in Nat \ {0} /\ R \in Nat \ {0}
  BY <1>1, UniqueList
<1> HIDE DEF A, B, C, R
<1>6. p * A = N
  BY <1>2, <1>5, SMTT(60)
<1> HIDE DEF N
<1>t. t = R * C /\ p = t * B
  OBVIOUS
<1> HIDE DEF t, p
<1>a. t \in Nat \ {0}
  BY <1>5, <1>t, InnerRemainder, 0 \in Nat
<1>b. p \in Nat \ {0}
  BY <1>5, <1>t, <1>a, InnerRemainder, 0 \in Nat
<1>c. N \in Nat \ {0} /\ N = p * A
  BY <1>5, <1>6, <1>b, InnerRemainder, 0 \in Nat
<1>f. FourLoops(A, B, C, R, t, p, N)
  BY <1>5, <1>t, <1>a, <1>b, <1>c DEF FourLoops
<1>d. \A i \in 0..(N - 1) :
           /\ i \div p \in 0..(A - 1) /\ (i % p) \div t \in 0..(B - 1)
           /\ (i % t) \div R \in 0..(C - 1) /\ i % R \in 0..(R - 1)
  BY <1>f, LoopsStay
<1>e. \A x \in 0..(A - 1), y \in 0..(B - 1), z \in 0..(C - 1), w \in 0..(R - 1) :
           \E i \in 0..(N - 1) : Loops(i, p, t, R) = <<x, y, z, w>>
  BY <1>f, LoopsReach
<1>7. t \in Nat \ {0} /\ p \in Nat \ {0} /\ N \in Nat \ {0}
  BY <1>a, <1>b, <1>c
<1>8. \A i, j \in Nat : Loops(i, p, t, R) = Loops(j, p, t, R) => i = j
  BY <1>f, LoopsDiffer
<1>9. /\ \A x \in Pub!ToSet(m.protocols) : \E i \in 1..A : m.protocols[i] = x
      /\ \A i \in 1..A : m.protocols[i] \in Pub!ToSet(m.protocols)
      /\ \A i, j \in 1..A : m.protocols[i] = m.protocols[j] => i = j
  BY <1>1, UniqueList DEF A, Pub!ToSet, ToSet
<1>10. /\ \A x \in Pub!ToSet(m.points) : \E i \in 1..B : m.points[i] = x
       /\ \A i \in 1..B : m.points[i] \in Pub!ToSet(m.points)
       /\ \A i, j \in 1..B : m.points[i] = m.points[j] => i = j
  BY <1>1, UniqueList DEF B, Pub!ToSet, ToSet
<1>11. /\ \A x \in Pub!ToSet(m.types) : \E i \in 1..C : m.types[i] = x
       /\ \A i \in 1..C : m.types[i] \in Pub!ToSet(m.types)
       /\ \A i, j \in 1..C : m.types[i] = m.types[j] => i = j
  BY <1>1, UniqueList DEF C, Pub!ToSet, ToSet
<1>12. ASSUME NEW n \in 1..N
       PROVE  Pub!Cell(a, n) \in Pub!Expected(a)
  <2>1. n - 1 \in 0..(N - 1)
    BY <1>7
  <2> DEFINE i == n - 1
             x == i \div p
             y == (i % p) \div t
             z == (i % t) \div R
             w == i % R
  <2>2. x \in 0..(A - 1) /\ y \in 0..(B - 1) /\ z \in 0..(C - 1) /\ w \in 0..(R - 1)
    BY <1>d, <2>1
  <2>3. Pub!Cell(a, n) = <<m.protocols[x + 1], m.points[y + 1], m.types[z + 1], w + 1>>
    BY <1>3
  <2> HIDE DEF x, y, z, w
  <2>4. x + 1 \in 1..A /\ y + 1 \in 1..B /\ z + 1 \in 1..C /\ w + 1 \in 1..R
    BY <1>5, <2>2
  <2>5. /\ m.protocols[x + 1] \in Pub!ToSet(m.protocols)
        /\ m.points[y + 1] \in Pub!ToSet(m.points)
        /\ m.types[z + 1] \in Pub!ToSet(m.types)
    BY <1>9, <1>10, <1>11, <2>4
  <2>6. QED
    BY <1>4, <2>3, <2>4, <2>5
<1>13. ASSUME NEW e \in Pub!Expected(a)
       PROVE  \E n \in 1..N : Pub!Cell(a, n) = e
  <2>1. PICK x \in 1..A, y \in 1..B, z \in 1..C, w \in 1..R :
          e = <<m.protocols[x], m.points[y], m.types[z], w>>
    <3>1. /\ e = <<e[1], e[2], e[3], e[4]>>
          /\ e[1] \in Pub!ToSet(m.protocols) /\ e[2] \in Pub!ToSet(m.points)
          /\ e[3] \in Pub!ToSet(m.types) /\ e[4] \in 1..R
      BY <1>4
    <3>2. QED
      BY <1>9, <1>10, <1>11, <3>1
  <2>2. x - 1 \in 0..(A - 1) /\ y - 1 \in 0..(B - 1) /\ z - 1 \in 0..(C - 1)
        /\ w - 1 \in 0..(R - 1)
    BY <1>5
  <2>3. PICK i \in 0..(N - 1) : Loops(i, p, t, R) = <<x - 1, y - 1, z - 1, w - 1>>
    BY <1>e, <2>2
  <2>4. /\ i \div p = x - 1 /\ (i % p) \div t = y - 1 /\ (i % t) \div R = z - 1
        /\ i % R = w - 1
    BY <2>3 DEF Loops
  <2>5. i + 1 \in 1..N /\ (i + 1) - 1 = i
    BY <1>7
  <2>6. Pub!Cell(a, i + 1) =
          <<m.protocols[(x - 1) + 1], m.points[(y - 1) + 1], m.types[(z - 1) + 1], (w - 1) + 1>>
    BY <1>3, <2>4, <2>5
  <2>7. (x - 1) + 1 = x /\ (y - 1) + 1 = y /\ (z - 1) + 1 = z /\ (w - 1) + 1 = w
    BY <1>5
  <2>8. QED
    BY <2>1, <2>5, <2>6, <2>7
<1>14. ASSUME NEW n \in 1..N, NEW k \in 1..N, Pub!Cell(a, n) = Pub!Cell(a, k)
       PROVE  n = k
  <2> DEFINE i == n - 1
             j == k - 1
  <2>1. i \in 0..(N - 1) /\ j \in 0..(N - 1) /\ i \in Nat /\ j \in Nat
    BY <1>7
  <2> DEFINE x1 == i \div p
             y1 == (i % p) \div t
             z1 == (i % t) \div R
             w1 == i % R
             x2 == j \div p
             y2 == (j % p) \div t
             z2 == (j % t) \div R
             w2 == j % R
  <2>2. /\ Pub!Cell(a, n) = <<m.protocols[x1 + 1], m.points[y1 + 1], m.types[z1 + 1], w1 + 1>>
        /\ Pub!Cell(a, k) = <<m.protocols[x2 + 1], m.points[y2 + 1], m.types[z2 + 1], w2 + 1>>
    BY <1>3
  <2>3. /\ x1 \in 0..(A - 1) /\ y1 \in 0..(B - 1) /\ z1 \in 0..(C - 1) /\ w1 \in 0..(R - 1)
        /\ x2 \in 0..(A - 1) /\ y2 \in 0..(B - 1) /\ z2 \in 0..(C - 1) /\ w2 \in 0..(R - 1)
    BY <1>d, <2>1
  <2> HIDE DEF i, j, x1, y1, z1, w1, x2, y2, z2, w2
  <2>q. <<m.protocols[x1 + 1], m.points[y1 + 1], m.types[z1 + 1], w1 + 1>> =
          <<m.protocols[x2 + 1], m.points[y2 + 1], m.types[z2 + 1], w2 + 1>>
    BY <1>14, <2>2, Zenon
  <2>4. /\ m.protocols[x1 + 1] = m.protocols[x2 + 1] /\ m.points[y1 + 1] = m.points[y2 + 1]
        /\ m.types[z1 + 1] = m.types[z2 + 1] /\ w1 + 1 = w2 + 1
    BY <2>q, FourEqual, Zenon
  <2>5. /\ x1 + 1 \in 1..A /\ y1 + 1 \in 1..B /\ z1 + 1 \in 1..C
        /\ x2 + 1 \in 1..A /\ y2 + 1 \in 1..B /\ z2 + 1 \in 1..C
    BY <1>5, <2>3
  <2>6. x1 + 1 = x2 + 1 /\ y1 + 1 = y2 + 1 /\ z1 + 1 = z2 + 1
    BY <1>9, <1>10, <1>11, <2>4, <2>5
  <2>7. x1 = x2 /\ y1 = y2 /\ z1 = z2 /\ w1 = w2
    BY <1>5, <2>3, <2>4, <2>6
  <2>8. Loops(i, p, t, R) = Loops(j, p, t, R)
    BY <2>7 DEF Loops, x1, y1, z1, w1, x2, y2, z2, w2
  <2>9. i = j
    BY <1>8, <2>1, <2>8
  <2>10. QED
    BY <2>9 DEF i, j
<1>15. Pub!Expected(a) = {Pub!Cell(a, n) : n \in 1..N}
  BY <1>12, <1>13
<1>16. Pub!Cardinality(Pub!Expected(a)) = N
  <2>1. f \in Bijection(1..N, Pub!Expected(a))
    <3>1. f \in Injection(1..N, Pub!Expected(a))
      BY <1>12, <1>14 DEF Injection, IsInjective
    <3>2. f \in Surjection(1..N, Pub!Expected(a))
      BY <1>12, <1>13 DEF Surjection
    <3>3. QED
      BY <3>1, <3>2 DEF Bijection
  <2>2. IsFiniteSet(1..N) /\ Cardinality(1..N) = N
    BY <1>7, FS_Interval
  <2>3. Cardinality(Pub!Expected(a)) = N
    BY <2>1, <2>2, FS_Bijection DEF ExistsBijection
  <2>4. QED
    BY <2>3, SameCardinality
<1>17. QED
  BY <1>7, <1>15, <1>16 DEF N
-----------------------------------------------------------------------------
(* What holds of a runner, however many there are *)

Before == {"start", "serving", "guard_final", "guard_tmp", "bind", "open"}
Checked == {"validate", "link", "unlink"}
Failing == {"except", "preserve", "rename_failed", "rename_conflict"}
Over == {"exited", "dead"}
Places == Before \union {"rows"} \union Checked \union Failing \union Over

RowsOf(a) == [cell : {Pub!Cell(a, n) : n \in Nat}, ok : BOOLEAN]

PubTypes ==
  /\ args \in Invocations
  /\ pub_pc \in [Runners -> Places] /\ code \in [Runners -> {None, 0, 1, 2}]
  /\ server \in [Runners -> BOOLEAN] /\ pub_rows = [r \in Runners |-> pub_rows[r]]
  /\ final \in [Pub!Modes -> Pub!Files \union {None}]
  /\ pub_tmp \in [Pub!Modes -> Runners \union {None}]
  /\ failed \in [Pub!Modes \X Pub!Attempts -> Pub!Files \union {None}]
  /\ conflicts \subseteq Runners

\* The rows are those of the first turns of the loops; only arguments that were
\* accepted make rows, or come past the guards.
RunRows(r) ==
  /\ pub_rows[r] \in Seq(RowsOf(args[r]))
  /\ \A n \in 1..Len(pub_rows[r]) : pub_rows[r][n].cell = Pub!Cell(args[r], n)
  /\ pub_pc[r] \in Before => pub_rows[r] = <<>>
  /\ pub_rows[r] # <<>> => Len(pub_rows[r]) <= Pub!Total(args[r])
  /\ pub_pc[r] \in Checked => Len(pub_rows[r]) = Pub!Total(args[r])
  /\ pub_pc[r] \notin {"start", "serving", "exited", "dead"} =>
       Pub!Accepts(args[r]) /\ args[r].attempt \in Pub!Attempts

RunEnds(r) ==
  /\ pub_pc[r] = "exited" <=> code[r] # None
  /\ server[r] => pub_pc[r] \in {"serving", "open", "rows", "except"}

PubRuns == PubTypes /\ \A r \in Runners : RunRows(r) /\ RunEnds(r)

\* The arguments stay; a step of one runner leaves the others where they are.
OnlyOf(q) ==
  /\ args' = args
  /\ \A r \in Runners \ {q} :
       /\ pub_pc'[r] = pub_pc[r] /\ pub_rows'[r] = pub_rows[r]
       /\ code'[r] = code[r] /\ server'[r] = server[r]

LEMMA OthersStay ==
  ASSUME NEW q \in Runners, NEW r \in Runners, r # q, OnlyOf(q), RunRows(r), RunEnds(r)
  PROVE  RunRows(r)' /\ RunEnds(r)'
<1>1. /\ args' = args /\ pub_pc'[r] = pub_pc[r] /\ pub_rows'[r] = pub_rows[r]
      /\ code'[r] = code[r] /\ server'[r] = server[r]
  BY DEF OnlyOf
<1>2. RunRows(r)'
  BY <1>1 DEF RunRows, RowsOf, Pub!Cell, Pub!Total, Pub!Accepts, Pub!Matrix
<1>3. RunEnds(r)'
  BY <1>1 DEF RunEnds
<1>4. QED
  BY <1>2, <1>3

LEMMA PubInit ==
  ASSUME Pub!PublicationAssumption, Pub!ArgumentsAssumption, Pub!Init
  PROVE  PubRuns
<1>1. PubTypes
  <2>1. /\ pub_pc \in [Runners -> Places] /\ code \in [Runners -> {None, 0, 1, 2}]
    BY DEF Pub!Init, Places, Before
  <2>2. server \in [Runners -> BOOLEAN] /\ pub_rows = [r \in Runners |-> pub_rows[r]]
    BY DEF Pub!Init
  <2>3. /\ final \in [Pub!Modes -> Pub!Files \union {None}]
        /\ pub_tmp \in [Pub!Modes -> Runners \union {None}]
        /\ failed \in [Pub!Modes \X Pub!Attempts -> Pub!Files \union {None}]
        /\ conflicts \subseteq Runners
    BY DEF Pub!Init, Pub!Files
  <2>4. QED
    BY <2>1, <2>2, <2>3 DEF PubTypes, Pub!Init
<1>2. ASSUME NEW r \in Runners
      PROVE  RunRows(r) /\ RunEnds(r)
  <2>1. pub_pc[r] = "start" /\ pub_rows[r] = <<>> /\ code[r] = None /\ server[r] = FALSE
    BY DEF Pub!Init
  <2>2. <<>> \in Seq(RowsOf(args[r])) /\ Len(<<>>) = 0
    OBVIOUS
  <2>3. RunRows(r)
    BY <2>1, <2>2 DEF RunRows, Checked
  <2>4. RunEnds(r)
    BY <2>1 DEF RunEnds
  <2>5. QED
    BY <2>3, <2>4
<1>3. QED
  BY <1>1, <1>2 DEF PubRuns

LEMMA SameArguments ==
  ASSUME NEW r \in Runners, args' = args
  PROVE  /\ RowsOf(args[r])' = RowsOf(args[r]) /\ Pub!Total(args[r])' = Pub!Total(args[r])
         /\ Pub!Accepts(args[r])' = Pub!Accepts(args[r])
         /\ \A n : Pub!Cell(args[r], n)' = Pub!Cell(args[r], n)
BY DEF RowsOf, Pub!Cell, Pub!Total, Pub!Accepts, Pub!Matrix

Acts(q) == Pub!Step(q) \/ Pub!Signalled(q) \/ Pub!Raise(q) \/ Pub!Crash(q)

LEMMA ActsAlone ==
  ASSUME NEW q \in Runners, PubTypes, Acts(q)
  PROVE  OnlyOf(q)
<1>1. ASSUME Pub!ServerOnly(q) PROVE OnlyOf(q)
  BY <1>1 DEF Pub!ServerOnly, OnlyOf, PubTypes, Pub!names, Pub!files, Pub!faults, Pub!Goto, Pub!Exit
<1>2. ASSUME Pub!Signalled(q) PROVE OnlyOf(q)
  BY <1>2 DEF Pub!Signalled, OnlyOf, PubTypes, Pub!names, Pub!files, Pub!faults, Pub!Goto, Pub!Exit
<1>3. ASSUME Pub!resolve_mode_config(q) PROVE OnlyOf(q)
  BY <1>3 DEF Pub!resolve_mode_config, OnlyOf, PubTypes, Pub!names, Pub!files, Pub!faults, Pub!Goto, Pub!Exit
<1>4. ASSUME Pub!GuardFinal(q) PROVE OnlyOf(q)
  BY <1>4 DEF Pub!GuardFinal, OnlyOf, PubTypes, Pub!names, Pub!files, Pub!faults, Pub!Goto, Pub!Exit
<1>5. ASSUME Pub!GuardTmp(q) PROVE OnlyOf(q)
  BY <1>5 DEF Pub!GuardTmp, OnlyOf, PubTypes, Pub!names, Pub!files, Pub!faults, Pub!Goto, Pub!Exit
<1>6. ASSUME Pub!StartServer(q) PROVE OnlyOf(q)
  BY <1>6 DEF Pub!StartServer, OnlyOf, PubTypes, Pub!names, Pub!files, Pub!faults, Pub!Goto, Pub!Exit
<1>7. ASSUME Pub!OpenTmp(q) PROVE OnlyOf(q)
  BY <1>7 DEF Pub!OpenTmp, OnlyOf, PubTypes, Pub!names, Pub!files, Pub!faults, Pub!Goto, Pub!Exit
<1>8. ASSUME Pub!WriteRow(q) PROVE OnlyOf(q)
  BY <1>8 DEF Pub!WriteRow, OnlyOf, PubTypes, Pub!names, Pub!files, Pub!faults, Pub!Goto, Pub!Exit
<1>9. ASSUME Pub!StopServer(q) PROVE OnlyOf(q)
  BY <1>9 DEF Pub!StopServer, OnlyOf, PubTypes, Pub!names, Pub!files, Pub!faults, Pub!Goto, Pub!Exit
<1>10. ASSUME Pub!Validate(q) PROVE OnlyOf(q)
  BY <1>10 DEF Pub!Validate, OnlyOf, PubTypes, Pub!names, Pub!files, Pub!faults, Pub!Goto, Pub!Exit
<1>11. ASSUME Pub!Link(q) PROVE OnlyOf(q)
  BY <1>11 DEF Pub!Link, OnlyOf, PubTypes, Pub!names, Pub!files, Pub!faults, Pub!Goto, Pub!Exit
<1>12. ASSUME Pub!Unlink(q) PROVE OnlyOf(q)
  BY <1>12 DEF Pub!Unlink, OnlyOf, PubTypes, Pub!names, Pub!files, Pub!faults, Pub!Goto, Pub!Exit
<1>13. ASSUME Pub!Raise(q) PROVE OnlyOf(q)
  BY <1>13 DEF Pub!Raise, OnlyOf, PubTypes, Pub!names, Pub!files, Pub!faults, Pub!Goto, Pub!Exit
<1>14. ASSUME Pub!Except(q) PROVE OnlyOf(q)
  BY <1>14 DEF Pub!Except, OnlyOf, PubTypes, Pub!names, Pub!files, Pub!faults, Pub!Goto, Pub!Exit
<1>15. ASSUME Pub!PickArtifact(q) PROVE OnlyOf(q)
  BY <1>15 DEF Pub!PickArtifact, OnlyOf, PubTypes, Pub!names, Pub!files, Pub!faults, Pub!Goto, Pub!Exit
<1>16. ASSUME Pub!Preserve(q) PROVE OnlyOf(q)
  BY <1>16 DEF Pub!Preserve, OnlyOf, PubTypes, Pub!names, Pub!files, Pub!faults, Pub!Goto, Pub!Exit
<1>17. ASSUME Pub!Crash(q) PROVE OnlyOf(q)
  BY <1>17 DEF Pub!Crash, OnlyOf, PubTypes, Pub!names, Pub!files, Pub!faults, Pub!Goto, Pub!Exit
<1>18. QED
  BY <1>1, <1>2, <1>3, <1>4, <1>5, <1>6, <1>7, <1>8, <1>9, <1>10, <1>11, <1>12, <1>13, <1>14, <1>15, <1>16, <1>17 DEF Acts, Pub!Step

LEMMA ActsTyped ==
  ASSUME Pub!PublicationAssumption, Pub!ArgumentsAssumption,
         NEW q \in Runners, PubTypes, RunRows(q), Acts(q)
  PROVE  PubTypes'
<1> USE DEF Pub!names, Pub!files, Pub!faults, Pub!Goto, Pub!Exit
<1>0. Pub!Mode(q) \in Pub!Modes
  BY DEF PubTypes, Pub!Mode, Pub!ArgumentsAssumption
<1>1. ASSUME Pub!ServerOnly(q) PROVE PubTypes'
  BY <1>0, <1>1 DEF Pub!ServerOnly, PubTypes, Places, Before, Checked, Failing, Over
<1>2. ASSUME Pub!Signalled(q) PROVE PubTypes'
  BY <1>0, <1>2 DEF Pub!Signalled, PubTypes, Places, Before, Checked, Failing, Over
<1>3. ASSUME Pub!resolve_mode_config(q) PROVE PubTypes'
  BY <1>0, <1>3 DEF Pub!resolve_mode_config, PubTypes, Places, Before, Checked, Failing, Over
<1>4. ASSUME Pub!GuardFinal(q) PROVE PubTypes'
  BY <1>0, <1>4 DEF Pub!GuardFinal, PubTypes, Places, Before, Checked, Failing, Over
<1>5. ASSUME Pub!GuardTmp(q) PROVE PubTypes'
  BY <1>0, <1>5 DEF Pub!GuardTmp, PubTypes, Places, Before, Checked, Failing, Over
<1>6. ASSUME Pub!StartServer(q) PROVE PubTypes'
  BY <1>0, <1>6 DEF Pub!StartServer, PubTypes, Places, Before, Checked, Failing, Over
<1>7. ASSUME Pub!OpenTmp(q) PROVE PubTypes'
  BY <1>0, <1>7 DEF Pub!OpenTmp, PubTypes, Places, Before, Checked, Failing, Over
<1>8. ASSUME Pub!WriteRow(q) PROVE PubTypes'
  BY <1>0, <1>8 DEF Pub!WriteRow, PubTypes, Places, Before, Checked, Failing, Over
<1>9. ASSUME Pub!StopServer(q) PROVE PubTypes'
  BY <1>0, <1>9 DEF Pub!StopServer, PubTypes, Places, Before, Checked, Failing, Over
<1>10. ASSUME Pub!Validate(q) PROVE PubTypes'
  BY <1>0, <1>10 DEF Pub!Validate, PubTypes, Places, Before, Checked, Failing, Over
<1>11. ASSUME Pub!Link(q) PROVE PubTypes'
  <2>1. final' \in [Pub!Modes -> Pub!Files \union {None}]
    BY <1>0, <1>11 DEF Pub!Link, PubTypes, Pub!Files
  <2>2. pub_pc' \in [Runners -> Places] /\ code' = code
    BY <1>11 DEF Pub!Link, PubTypes, Places, Checked, Failing
  <2>3. QED
    BY <1>11, <2>1, <2>2 DEF Pub!Link, PubTypes
<1>12. ASSUME Pub!Unlink(q) PROVE PubTypes'
  BY <1>0, <1>12 DEF Pub!Unlink, PubTypes, Places, Before, Checked, Failing, Over
<1>13. ASSUME Pub!Raise(q) PROVE PubTypes'
  BY <1>0, <1>13 DEF Pub!Raise, PubTypes, Places, Before, Checked, Failing, Over
<1>14. ASSUME Pub!Except(q) PROVE PubTypes'
  BY <1>0, <1>14 DEF Pub!Except, PubTypes, Places, Before, Checked, Failing, Over
<1>15. ASSUME Pub!PickArtifact(q) PROVE PubTypes'
  BY <1>0, <1>15 DEF Pub!PickArtifact, PubTypes, Places, Before, Checked, Failing, Over
<1>16. ASSUME Pub!Preserve(q) PROVE PubTypes'
  <2>1. pub_tmp' \in [Pub!Modes -> Runners \union {None}]
    BY <1>0, <1>16 DEF Pub!Preserve, PubTypes
  <2>2. failed' \in [Pub!Modes \X Pub!Attempts -> Pub!Files \union {None}]
    BY <1>0, <1>16 DEF Pub!Preserve, PubTypes, Pub!Files
  <2>3. conflicts' \subseteq Runners
    BY <1>0, <1>16 DEF Pub!Preserve, PubTypes
  <2>4. pub_pc' \in [Runners -> Places] /\ code' \in [Runners -> {None, 0, 1, 2}]
    BY <1>16 DEF Pub!Preserve, PubTypes, Places, Over
  <2>5. QED
    BY <1>16, <2>1, <2>2, <2>3, <2>4 DEF Pub!Preserve, PubTypes
<1>17. ASSUME Pub!Crash(q) PROVE PubTypes'
  BY <1>0, <1>17 DEF Pub!Crash, PubTypes, Places, Before, Checked, Failing, Over
<1>18. QED
  BY <1>1, <1>2, <1>3, <1>4, <1>5, <1>6, <1>7, <1>8, <1>9, <1>10, <1>11, <1>12, <1>13, <1>14, <1>15, <1>16, <1>17 DEF Acts, Pub!Step

LEMMA ActsEnds ==
  ASSUME Pub!PublicationAssumption, NEW q \in Runners, PubTypes, RunEnds(q), Acts(q)
  PROVE  RunEnds(q)'
<1> USE DEF Pub!names, Pub!files, Pub!faults, Pub!Goto, Pub!Exit
<1>0. None \notin {0, 1, 2}
  BY DEF Pub!PublicationAssumption
<1>1. ASSUME Pub!ServerOnly(q) PROVE RunEnds(q)'
  BY <1>0, <1>1 DEF Pub!ServerOnly, PubTypes, RunEnds
<1>2. ASSUME Pub!Signalled(q) PROVE RunEnds(q)'
  BY <1>0, <1>2 DEF Pub!Signalled, PubTypes, RunEnds
<1>3. ASSUME Pub!resolve_mode_config(q) PROVE RunEnds(q)'
  BY <1>0, <1>3 DEF Pub!resolve_mode_config, PubTypes, RunEnds
<1>4. ASSUME Pub!GuardFinal(q) PROVE RunEnds(q)'
  BY <1>0, <1>4 DEF Pub!GuardFinal, PubTypes, RunEnds
<1>5. ASSUME Pub!GuardTmp(q) PROVE RunEnds(q)'
  BY <1>0, <1>5 DEF Pub!GuardTmp, PubTypes, RunEnds
<1>6. ASSUME Pub!StartServer(q) PROVE RunEnds(q)'
  BY <1>0, <1>6 DEF Pub!StartServer, PubTypes, RunEnds
<1>7. ASSUME Pub!OpenTmp(q) PROVE RunEnds(q)'
  BY <1>0, <1>7 DEF Pub!OpenTmp, PubTypes, RunEnds
<1>8. ASSUME Pub!WriteRow(q) PROVE RunEnds(q)'
  BY <1>0, <1>8 DEF Pub!WriteRow, PubTypes, RunEnds
<1>9. ASSUME Pub!StopServer(q) PROVE RunEnds(q)'
  BY <1>0, <1>9 DEF Pub!StopServer, PubTypes, RunEnds
<1>10. ASSUME Pub!Validate(q) PROVE RunEnds(q)'
  BY <1>0, <1>10 DEF Pub!Validate, PubTypes, RunEnds
<1>11. ASSUME Pub!Link(q) PROVE RunEnds(q)'
  BY <1>0, <1>11 DEF Pub!Link, PubTypes, RunEnds
<1>12. ASSUME Pub!Unlink(q) PROVE RunEnds(q)'
  BY <1>0, <1>12 DEF Pub!Unlink, PubTypes, RunEnds
<1>13. ASSUME Pub!Raise(q) PROVE RunEnds(q)'
  BY <1>0, <1>13 DEF Pub!Raise, PubTypes, RunEnds
<1>14. ASSUME Pub!Except(q) PROVE RunEnds(q)'
  BY <1>0, <1>14 DEF Pub!Except, PubTypes, RunEnds
<1>15. ASSUME Pub!PickArtifact(q) PROVE RunEnds(q)'
  BY <1>0, <1>15 DEF Pub!PickArtifact, PubTypes, RunEnds
<1>16. ASSUME Pub!Preserve(q) PROVE RunEnds(q)'
  BY <1>0, <1>16 DEF Pub!Preserve, PubTypes, RunEnds
<1>17. ASSUME Pub!Crash(q) PROVE RunEnds(q)'
  BY <1>0, <1>17 DEF Pub!Crash, PubTypes, RunEnds
<1>18. QED
  BY <1>1, <1>2, <1>3, <1>4, <1>5, <1>6, <1>7, <1>8, <1>9, <1>10, <1>11, <1>12, <1>13, <1>14, <1>15, <1>16, <1>17 DEF Acts, Pub!Step

LEMMA ActsRows ==
  ASSUME Pub!PublicationAssumption, Pub!ArgumentsAssumption,
         NEW q \in Runners, PubTypes, RunRows(q), Acts(q)
  PROVE  RunRows(q)'
<1> USE DEF Pub!names, Pub!files, Pub!faults, Pub!Goto, Pub!Exit
<1>a. args' = args
  BY ActsAlone DEF OnlyOf
<1>0. /\ RowsOf(args[q])' = RowsOf(args[q]) /\ Pub!Total(args[q])' = Pub!Total(args[q])
      /\ Pub!Accepts(args[q])' = Pub!Accepts(args[q])
      /\ \A n : Pub!Cell(args[q], n)' = Pub!Cell(args[q], n)
  BY <1>a, SameArguments
<1>1. ASSUME Pub!ServerOnly(q) PROVE RunRows(q)'
  BY <1>a, <1>0, <1>1 DEF Pub!ServerOnly, PubTypes, RunRows, Before, Checked
<1>2. ASSUME Pub!Signalled(q) PROVE RunRows(q)'
  BY <1>a, <1>0, <1>2 DEF Pub!Signalled, PubTypes, RunRows, Before, Checked
<1>3. ASSUME Pub!resolve_mode_config(q) PROVE RunRows(q)'
  BY <1>a, <1>0, <1>3 DEF Pub!resolve_mode_config, PubTypes, RunRows, Before, Checked
<1>4. ASSUME Pub!GuardFinal(q) PROVE RunRows(q)'
  BY <1>a, <1>0, <1>4 DEF Pub!GuardFinal, PubTypes, RunRows, Before, Checked
<1>5. ASSUME Pub!GuardTmp(q) PROVE RunRows(q)'
  BY <1>a, <1>0, <1>5 DEF Pub!GuardTmp, PubTypes, RunRows, Before, Checked
<1>6. ASSUME Pub!StartServer(q) PROVE RunRows(q)'
  BY <1>a, <1>0, <1>6 DEF Pub!StartServer, PubTypes, RunRows, Before, Checked
<1>7. ASSUME Pub!OpenTmp(q) PROVE RunRows(q)'
  BY <1>a, <1>0, <1>7 DEF Pub!OpenTmp, PubTypes, RunRows, Before, Checked
<1>8. ASSUME Pub!WriteRow(q) PROVE RunRows(q)'
  <2>1. PICK ok \in BOOLEAN :
          pub_rows' = [pub_rows EXCEPT ![q] =
            Append(@, [cell |-> Pub!Cell(args[q], Len(@) + 1), ok |-> ok])]
    BY <1>8 DEF Pub!WriteRow
  <2> DEFINE old == pub_rows[q]
             row == [cell |-> Pub!Cell(args[q], Len(old) + 1), ok |-> ok]
  <2>2. old \in Seq(RowsOf(args[q])) /\ Len(old) \in Nat
    BY DEF RunRows
  <2>3. pub_rows'[q] = Append(old, row)
    BY <2>1 DEF PubTypes
  <2>4. row \in RowsOf(args[q])
    BY <2>2 DEF RowsOf
  <2> HIDE DEF old, row
  <2>5. Append(old, row) \in Seq(RowsOf(args[q])) /\ Len(Append(old, row)) = Len(old) + 1
        /\ Append(old, row)[Len(old) + 1] = row
        /\ \A n \in 1..Len(old) : Append(old, row)[n] = old[n]
    BY <2>2, <2>4
  <2>6. \A n \in 1..(Len(old) + 1) : Append(old, row)[n].cell = Pub!Cell(args[q], n)
    <3>1. row.cell = Pub!Cell(args[q], Len(old) + 1)
      BY DEF row
    <3>2. \A n \in 1..Len(old) : old[n].cell = Pub!Cell(args[q], n)
      BY DEF RunRows, old
    <3>3. \A n \in 1..(Len(old) + 1) : n = Len(old) + 1 \/ n \in 1..Len(old)
      BY <2>2
    <3>4. QED
      BY <2>5, <3>1, <3>2, <3>3
  <2>7. pub_pc[q] = "rows" /\ pub_pc' = pub_pc /\ Len(old) < Pub!Total(args[q])
    BY <1>8 DEF Pub!WriteRow, old
  <2>8. Pub!Accepts(args[q]) /\ args[q].attempt \in Pub!Attempts
    BY <2>7 DEF RunRows
  <2>9. Pub!Total(args[q]) \in Nat
    <3>1. Pub!Matrix(args[q]) \in MatrixType
      BY MatrixIsTyped DEF PubTypes
    <3>2. QED
      BY <2>8, <3>1, LoopsCoverMatrix
  <2>10. Len(old) + 1 <= Pub!Total(args[q])
    BY <2>2, <2>7, <2>9
  <2>11. QED
    BY <1>0, <1>a, <2>3, <2>5, <2>6, <2>7, <2>8, <2>10 DEF RunRows, Before, Checked
<1>9. ASSUME Pub!StopServer(q) PROVE RunRows(q)'
  BY <1>a, <1>0, <1>9 DEF Pub!StopServer, PubTypes, RunRows, Before, Checked
<1>10. ASSUME Pub!Validate(q) PROVE RunRows(q)'
  BY <1>a, <1>0, <1>10 DEF Pub!Validate, PubTypes, RunRows, Before, Checked
<1>11. ASSUME Pub!Link(q) PROVE RunRows(q)'
  BY <1>a, <1>0, <1>11 DEF Pub!Link, PubTypes, RunRows, Before, Checked
<1>12. ASSUME Pub!Unlink(q) PROVE RunRows(q)'
  BY <1>a, <1>0, <1>12 DEF Pub!Unlink, PubTypes, RunRows, Before, Checked
<1>13. ASSUME Pub!Raise(q) PROVE RunRows(q)'
  BY <1>a, <1>0, <1>13 DEF Pub!Raise, PubTypes, RunRows, Before, Checked
<1>14. ASSUME Pub!Except(q) PROVE RunRows(q)'
  BY <1>a, <1>0, <1>14 DEF Pub!Except, PubTypes, RunRows, Before, Checked
<1>15. ASSUME Pub!PickArtifact(q) PROVE RunRows(q)'
  BY <1>a, <1>0, <1>15 DEF Pub!PickArtifact, PubTypes, RunRows, Before, Checked
<1>16. ASSUME Pub!Preserve(q) PROVE RunRows(q)'
  BY <1>a, <1>0, <1>16 DEF Pub!Preserve, PubTypes, RunRows, Before, Checked
<1>17. ASSUME Pub!Crash(q) PROVE RunRows(q)'
  BY <1>a, <1>0, <1>17 DEF Pub!Crash, PubTypes, RunRows, Before, Checked
<1>18. QED
  BY <1>1, <1>2, <1>3, <1>4, <1>5, <1>6, <1>7, <1>8, <1>9, <1>10, <1>11, <1>12, <1>13, <1>14, <1>15, <1>16, <1>17 DEF Acts, Pub!Step

LEMMA NextIsAct ==
  ASSUME [Pub!Next]_Pub!vars
  PROVE  (\E q \in Runners : Acts(q)) \/ UNCHANGED Pub!vars
BY DEF Pub!Next, Pub!Done, Acts

LEMMA PubStays ==
  ASSUME UNCHANGED Pub!vars, PubRuns
  PROVE  PubRuns'
<1> USE DEF Pub!vars, Pub!names
<1>1. PubTypes'
  BY DEF PubRuns, PubTypes
<1>2. ASSUME NEW r \in Runners
      PROVE  RunRows(r)' /\ RunEnds(r)'
  <2>1. RunRows(r)'
    BY SameArguments DEF PubRuns, RunRows
  <2>2. RunEnds(r)'
    BY DEF PubRuns, RunEnds
  <2>3. QED
    BY <2>1, <2>2
<1>3. QED
  BY <1>1, <1>2 DEF PubRuns

LEMMA PubNext ==
  ASSUME Pub!PublicationAssumption, Pub!ArgumentsAssumption, PubRuns, [Pub!Next]_Pub!vars
  PROVE  PubRuns'
<1>1. CASE UNCHANGED Pub!vars
  BY <1>1, PubStays
<1>2. ASSUME NEW q \in Runners, Acts(q)
      PROVE  PubRuns'
  <2>1. PubTypes /\ \A r \in Runners : RunRows(r) /\ RunEnds(r)
    BY DEF PubRuns
  <2>2. PubTypes' /\ RunRows(q)' /\ RunEnds(q)'
    BY <1>2, <2>1, ActsTyped, ActsRows, ActsEnds
  <2>3. \A r \in Runners \ {q} : RunRows(r)' /\ RunEnds(r)'
    BY <1>2, <2>1, ActsAlone, OthersStay
  <2>4. QED
    BY <2>2, <2>3 DEF PubRuns
<1>3. QED
  BY <1>1, <1>2, NextIsAct

LEMMA PubInvariance ==
  ASSUME Pub!PublicationAssumption, Pub!ArgumentsAssumption
  PROVE  Pub!Spec => []PubRuns
<1>1. Pub!Init => PubRuns
  BY PubInit
<1>2. PubRuns /\ [Pub!Next]_Pub!vars => PubRuns'
  BY PubNext
<1>3. QED
  BY <1>1, <1>2, PTL DEF Pub!Spec

LEMMA PubTyped ==
  ASSUME PubRuns
  PROVE  Pub!TypeOK /\ Pub!ServerStopped
<1>1. \A r \in Runners : /\ pub_pc[r] = "exited" <=> code[r] # None
                         /\ pub_rows[r] # <<>> => Len(pub_rows[r]) <= Pub!Total(args[r])
  BY DEF PubRuns, RunRows, RunEnds
<1>2. Pub!TypeOK
  BY <1>1 DEF PubRuns, PubTypes, Pub!TypeOK
<1>3. Pub!ServerStopped
  BY DEF PubRuns, RunEnds, Pub!ServerStopped
<1>4. QED
  BY <1>2, <1>3

LEMMA AcceptedPass ==
  ASSUME Pub!PublicationAssumption, Pub!ArgumentsAssumption, PubRuns
  PROVE  Pub!AcceptedRunsPublish
<1>1. SUFFICES ASSUME NEW r \in Runners,
                      pub_pc[r] \notin {"start", "exited", "dead", "serving"},
                      Len(pub_rows[r]) = Pub!Total(args[r]),
                      \A i \in DOMAIN pub_rows[r] : pub_rows[r][i].ok
               PROVE  Pub!Gate(args[r], pub_rows[r])
  BY DEF Pub!AcceptedRunsPublish
<1>2. Pub!Matrix(args[r]) \in MatrixType
  BY MatrixIsTyped DEF PubRuns, PubTypes
<1>3. Pub!Accepts(args[r])
  BY <1>1 DEF PubRuns, RunRows
<1>4. /\ Pub!Expected(args[r]) = {Pub!Cell(args[r], n) : n \in 1..Pub!Total(args[r])}
      /\ Pub!Cardinality(Pub!Expected(args[r])) = Pub!Total(args[r])
  BY <1>2, <1>3, LoopsCoverMatrix
<1>5. DOMAIN pub_rows[r] = 1..Pub!Total(args[r])
  BY <1>1 DEF PubRuns, RunRows
<1>6. \A n \in 1..Pub!Total(args[r]) : pub_rows[r][n].cell = Pub!Cell(args[r], n)
  BY <1>1 DEF PubRuns, RunRows
<1>7. {pub_rows[r][i].cell : i \in DOMAIN pub_rows[r]} = Pub!Expected(args[r])
  BY <1>4, <1>5, <1>6
<1>8. QED
  BY <1>1, <1>4, <1>7 DEF Pub!Gate

\* However many runners share the directory and the port, with interrupts and kills:
\* the state is well formed, no server outlives its program (ServerStopped), and a
\* run of accepted arguments whose rows are valid passes the gate
\* (AcceptedRunsPublish): the four loops of main make each combination that
\* validate_recovery_rows expects, once.
THEOREM AnyRunners ==
  ASSUME Pub!PublicationAssumption, Pub!ArgumentsAssumption
  PROVE  Pub!Spec => [](Pub!TypeOK /\ Pub!ServerStopped /\ Pub!AcceptedRunsPublish)
<1>1. PubRuns => Pub!TypeOK /\ Pub!ServerStopped /\ Pub!AcceptedRunsPublish
  BY PubTyped, AcceptedPass
<1>2. QED
  BY <1>1, PubInvariance, PTL

\* A final name is never given to another file, whoever races for it (os.link).
THEOREM FinalNamesStay ==
  ASSUME Pub!PublicationAssumption, Pub!ArgumentsAssumption
  PROVE  Pub!Spec => [][Pub!FinalImmutable]_Pub!vars
<1>1. ASSUME PubRuns, NEW q \in Runners, Acts(q)
      PROVE  Pub!FinalImmutable
  <2>1. final \in [Pub!Modes -> Pub!Files \union {None}]
    BY <1>1 DEF PubRuns, PubTypes
  <2>2. CASE Pub!Link(q)
    BY <2>1, <2>2 DEF Pub!Link, Pub!FinalImmutable
  <2>3. CASE ~Pub!Link(q)
    <3>1. final' = final
      BY <1>1, <2>3 DEF Acts, Pub!Step, Pub!ServerOnly, Pub!Signalled, Pub!resolve_mode_config,
         Pub!GuardFinal, Pub!GuardTmp, Pub!StartServer, Pub!OpenTmp, Pub!WriteRow,
         Pub!StopServer, Pub!Validate, Pub!Unlink, Pub!Raise, Pub!Except,
         Pub!PickArtifact, Pub!Preserve, Pub!Crash, Pub!names, Pub!files
    <3>2. QED
      BY <3>1 DEF Pub!FinalImmutable
  <2>4. QED
    BY <2>2, <2>3
<1>2. PubRuns /\ [Pub!Next]_Pub!vars => [Pub!FinalImmutable]_Pub!vars
  BY <1>1, NextIsAct
<1>3. QED
  BY <1>2, PubInvariance, PTL DEF Pub!Spec

-----------------------------------------------------------------------------
(* What holds of two runners of a directory *)

AtMostTwo == \A a, b, c \in Runners : a = b \/ a = c \/ b = c

Writing == {"rows"} \union Checked
Alone(r) == \A q \in Runners \ {r} : pub_pc[q] \in Over
Gone(r) == pub_tmp[Pub!Mode(r)] = None /\ Alone(r)

\* The temporary name is the runner's while it writes, and the place of its failed
\* artifact stays free once it was found free, unless the other runner took the
\* file away; and then the other runner is over.
Owned(r) ==
  /\ pub_pc[r] \in Writing => pub_tmp[Pub!Mode(r)] = r \/ Gone(r)
  /\ pub_pc[r] = "rename_failed" => failed[Pub!Artifact(r)] = None \/ Gone(r)

Whole(r) ==
  /\ pub_pc[r] \in {"link", "unlink"} => Pub!Complete(args[r], pub_rows[r])
  /\ pub_pc[r] = "serving" => args[r].server_only
  /\ pub_pc[r] = "unlink" => final[Pub!Mode(r)] = r
  /\ code[r] = 0 /\ ~args[r].server_only => final[Pub!Mode(r)] = r

Kept(r) == pub_pc[r] \in Writing \/ pub_rows[r] # <<>> => Pub!Named(r)

\* A published file is whole, and its runner writes no more.
Closed(m) ==
  final[m] \in Runners =>
    /\ Pub!Complete(args[final[m]], pub_rows[final[m]])
    /\ pub_pc[final[m]] \in {"unlink"} \union Failing \union Over

PubFiles ==
  /\ \A r \in Runners : Owned(r) /\ Whole(r) /\ Kept(r)
  /\ \A m \in Pub!Modes : Closed(m)

LEMMA SameNames ==
  ASSUME NEW r \in Runners, args' = args
  PROVE  /\ Pub!Mode(r)' = Pub!Mode(r) /\ Pub!Artifact(r)' = Pub!Artifact(r)
         /\ args[r]' = args[r]
         /\ pub_rows'[r] = pub_rows[r] =>
              (Pub!Complete(args[r], pub_rows[r])' <=> Pub!Complete(args[r], pub_rows[r]))
BY DEF Pub!Mode, Pub!Artifact, Pub!Complete, Pub!Total, Pub!Cell, Pub!Matrix

LEMMA NameTypes ==
  ASSUME Pub!ArgumentsAssumption, PubTypes, NEW r \in Runners
  PROVE  Pub!Mode(r) \in Pub!Modes
BY DEF PubTypes, Pub!Mode, Pub!ArgumentsAssumption

LEMMA ArtifactName ==
  ASSUME Pub!ArgumentsAssumption, PubTypes, NEW r \in Runners, RunRows(r),
         pub_pc[r] \in {"rename_failed", "rename_conflict"}
  PROVE  Pub!Artifact(r) \in Pub!Modes \X Pub!Attempts
BY NameTypes DEF RunRows, Pub!Artifact

\* A runner that is alone is the one that acts.
LEMMA AloneActs ==
  ASSUME NEW q \in Runners, NEW r \in Runners, Gone(r), Acts(q)
  PROVE  q = r
<1>1. pub_pc[q] \notin Over
  BY DEF Acts, Pub!Step, Pub!ServerOnly, Pub!Signalled, Pub!resolve_mode_config,
         Pub!GuardFinal, Pub!GuardTmp, Pub!StartServer, Pub!OpenTmp, Pub!WriteRow,
         Pub!StopServer, Pub!Validate, Pub!Link, Pub!Unlink, Pub!Raise, Pub!Except,
         Pub!PickArtifact, Pub!Preserve, Pub!Crash, Over
<1>2. QED
  BY <1>1 DEF Gone, Alone

\* The actions that change what a name refers to.
Renames(q) == Pub!OpenTmp(q) \/ Pub!Link(q) \/ Pub!Unlink(q) \/ Pub!Preserve(q)

LEMMA NamesStay ==
  ASSUME NEW q \in Runners, Acts(q), ~Renames(q)
  PROVE  final' = final /\ pub_tmp' = pub_tmp /\ failed' = failed /\ conflicts' = conflicts
BY DEF Acts, Renames, Pub!Step, Pub!ServerOnly, Pub!Signalled, Pub!resolve_mode_config,
       Pub!GuardFinal, Pub!GuardTmp, Pub!StartServer, Pub!WriteRow,
       Pub!StopServer, Pub!Validate, Pub!Raise, Pub!Except,
       Pub!PickArtifact, Pub!Crash, Pub!names, Pub!files

LEMMA OwnedByOther ==
  ASSUME Pub!PublicationAssumption, Pub!ArgumentsAssumption, AtMostTwo, PubTypes,
         NEW q \in Runners, NEW r \in Runners, r # q, Acts(q), Owned(q), Owned(r)
  PROVE  Owned(r)'
<1>1. args' = args /\ pub_pc'[r] = pub_pc[r]
  BY ActsAlone DEF OnlyOf
<1>2. Pub!Mode(r)' = Pub!Mode(r) /\ Pub!Artifact(r)' = Pub!Artifact(r)
  BY <1>1, SameNames
<1>3. Pub!Mode(r) \in Pub!Modes /\ Pub!Mode(q) \in Pub!Modes
  BY NameTypes
<1>4. ~Gone(r)
  BY AloneActs
<1>5. /\ pub_pc[r] \in Writing => pub_tmp[Pub!Mode(r)] = r
      /\ pub_pc[r] = "rename_failed" => failed[Pub!Artifact(r)] = None
  BY <1>4 DEF Owned
<1>6. None \notin Runners /\ pub_tmp \in [Pub!Modes -> Runners \union {None}]
  BY DEF Pub!PublicationAssumption, PubTypes
<1>7. CASE Pub!OpenTmp(q)
  <2>1. pub_tmp[Pub!Mode(r)] # None => pub_tmp'[Pub!Mode(r)] = pub_tmp[Pub!Mode(r)]
    BY <1>3, <1>6, <1>7 DEF Pub!OpenTmp
  <2>2. failed' = failed
    BY <1>7 DEF Pub!OpenTmp
  <2>3. QED
    BY <1>1, <1>2, <1>5, <1>6, <2>1, <2>2 DEF Owned
<1>8. CASE Pub!Link(q)
  <2>1. pub_tmp' = pub_tmp /\ failed' = failed
    BY <1>8 DEF Pub!Link
  <2>2. QED
    BY <1>1, <1>2, <1>5, <2>1 DEF Owned
<1>9. CASE Pub!Unlink(q)
  <2>1. pub_pc[q] \in Writing /\ failed' = failed
    BY <1>9 DEF Pub!Unlink, Writing, Checked
  <2>2. pub_tmp[Pub!Mode(q)] \in {q, None}
    BY <2>1 DEF Owned, Gone
  <2>3. pub_tmp[Pub!Mode(r)] = r => pub_tmp'[Pub!Mode(r)] = r
    BY <1>3, <1>6, <1>9, <2>2 DEF Pub!Unlink
  <2>4. QED
    BY <1>1, <1>2, <1>5, <2>1, <2>3 DEF Owned
<1>10. CASE Pub!Preserve(q)
  <2>1. CASE pub_tmp[Pub!Mode(q)] = None
    <3>1. pub_tmp' = pub_tmp /\ failed' = failed
      BY <1>10, <2>1 DEF Pub!Preserve
    <3>2. QED
      BY <1>1, <1>2, <1>5, <3>1 DEF Owned
  <2>2. CASE pub_tmp[Pub!Mode(q)] # None /\ Pub!Mode(q) = Pub!Mode(r)
    <3>1. pub_tmp'[Pub!Mode(r)] = None
      BY <1>3, <1>6, <1>10, <2>2 DEF Pub!Preserve
    <3>2. pub_pc'[q] \in Over
      BY <1>10 DEF Pub!Preserve, Pub!Exit, Over, PubTypes
    <3>3. Alone(r)'
      BY <3>2 DEF Alone, AtMostTwo
    <3>4. Gone(r)'
      BY <1>2, <3>1, <3>3 DEF Gone
    <3>5. QED
      BY <3>4 DEF Owned
  <2>3. CASE pub_tmp[Pub!Mode(q)] # None /\ Pub!Mode(q) # Pub!Mode(r)
    <3>1. pub_tmp'[Pub!Mode(r)] = pub_tmp[Pub!Mode(r)]
      BY <1>3, <1>6, <1>10, <2>3 DEF Pub!Preserve
    <3>2. failed[Pub!Artifact(r)] = None => failed'[Pub!Artifact(r)] = None
      <4>1. Pub!Artifact(r) # Pub!Artifact(q)
        BY <2>3 DEF Pub!Artifact
      <4>2. CASE failed' = failed
        BY <4>2
      <4>3. CASE failed' = [failed EXCEPT ![Pub!Artifact(q)] = pub_tmp[Pub!Mode(q)]]
        BY <4>1, <4>3 DEF PubTypes
      <4>4. QED
        BY <1>10, <2>3, <4>2, <4>3 DEF Pub!Preserve
    <3>3. QED
      BY <1>1, <1>2, <1>5, <3>1, <3>2 DEF Owned
  <2>4. QED
    BY <2>1, <2>2, <2>3
<1>11. CASE ~Renames(q)
  BY <1>1, <1>2, <1>5, <1>11, NamesStay DEF Owned
<1>12. QED
  BY <1>7, <1>8, <1>9, <1>10, <1>11 DEF Renames

LEMMA OwnedByActor ==
  ASSUME Pub!PublicationAssumption, Pub!ArgumentsAssumption, PubTypes,
         NEW q \in Runners, Acts(q), Owned(q)
  PROVE  Owned(q)'
<1>1. OnlyOf(q) /\ args' = args
  BY ActsAlone DEF OnlyOf
<1>2. Pub!Mode(q)' = Pub!Mode(q) /\ Pub!Artifact(q)' = Pub!Artifact(q)
  BY <1>1, SameNames
<1>3. Pub!Mode(q) \in Pub!Modes
  BY NameTypes
<1>4. pub_tmp' = pub_tmp /\ Gone(q) => Gone(q)'
  BY <1>1, <1>2 DEF Gone, Alone, OnlyOf
<1>5. pub_pc \in [Runners -> Places] /\ pub_tmp \in [Pub!Modes -> Runners \union {None}]
  BY DEF PubTypes
<1>6. CASE Pub!OpenTmp(q)
  BY <1>2, <1>3, <1>5, <1>6 DEF Pub!OpenTmp, Pub!Goto, Owned, Writing, Checked
<1>7. CASE Pub!WriteRow(q) \/ Pub!StopServer(q) \/ Pub!Validate(q) \/ Pub!Link(q)
  <2>1. /\ pub_tmp' = pub_tmp /\ pub_pc[q] \in Writing
        /\ pub_pc'[q] \in Writing \union {"except"}
    BY <1>5, <1>7 DEF Pub!WriteRow, Pub!StopServer, Pub!Validate, Pub!Link, Pub!Goto,
                      Pub!names, Pub!files, Writing, Checked
  <2>2. QED
    BY <1>2, <1>4, <2>1 DEF Owned, Writing, Checked
<1>8. CASE Pub!PickArtifact(q)
  BY <1>2, <1>5, <1>8 DEF Pub!PickArtifact, Pub!Goto, Pub!names, Pub!files, Owned, Writing, Checked
<1>9. CASE ~(Pub!OpenTmp(q) \/ Pub!WriteRow(q) \/ Pub!StopServer(q) \/ Pub!Validate(q)
              \/ Pub!Link(q) \/ Pub!PickArtifact(q))
  <2>1. pub_pc'[q] \notin Writing \union {"rename_failed"}
    BY <1>5, <1>9 DEF Acts, Pub!Step, Pub!ServerOnly, Pub!Signalled, Pub!resolve_mode_config,
         Pub!GuardFinal, Pub!GuardTmp, Pub!StartServer, Pub!Unlink, Pub!Raise, Pub!Except,
         Pub!Preserve, Pub!Crash, Pub!Goto, Pub!Exit, Writing, Checked
  <2>2. QED
    BY <2>1 DEF Owned
<1>10. QED
  BY <1>6, <1>7, <1>8, <1>9

\* What a name refers to is never lost.
LEMMA NamedStays ==
  ASSUME Pub!PublicationAssumption, Pub!ArgumentsAssumption, PubTypes,
         NEW q \in Runners, RunRows(q), Acts(q), Owned(q), Whole(q), NEW f \in Runners, Pub!Named(f)
  PROVE  Pub!Named(f)'
<1>1. Pub!Mode(q) \in Pub!Modes
  BY NameTypes
<1>2. /\ None \notin Runners /\ pub_tmp \in [Pub!Modes -> Runners \union {None}]
      /\ final \in [Pub!Modes -> Pub!Files \union {None}]
      /\ failed \in [Pub!Modes \X Pub!Attempts -> Pub!Files \union {None}]
  BY DEF Pub!PublicationAssumption, PubTypes
<1>3. CASE Pub!OpenTmp(q)
  BY <1>1, <1>2, <1>3 DEF Pub!OpenTmp, Pub!Named
<1>4. CASE Pub!Link(q)
  BY <1>1, <1>2, <1>4 DEF Pub!Link, Pub!Named
<1>5. CASE Pub!Unlink(q)
  <2>1. pub_tmp[Pub!Mode(q)] \in {q, None} /\ final[Pub!Mode(q)] = q
    BY <1>5 DEF Pub!Unlink, Owned, Whole, Gone, Writing, Checked
  <2>2. \A m \in Pub!Modes : pub_tmp'[m] = pub_tmp[m] \/ pub_tmp[m] \in {q, None}
    BY <1>1, <1>2, <1>5, <2>1 DEF Pub!Unlink
  <2>3. final' = final /\ failed' = failed /\ conflicts' = conflicts
    BY <1>5 DEF Pub!Unlink
  <2>4. QED
    BY <1>1, <1>2, <2>1, <2>2, <2>3 DEF Pub!Named
<1>6. CASE Pub!Preserve(q) /\ pub_tmp[Pub!Mode(q)] # None
  <2>1. final' = final /\ pub_tmp' = [pub_tmp EXCEPT ![Pub!Mode(q)] = None]
    BY <1>6 DEF Pub!Preserve
  <2> DEFINE moved == pub_tmp[Pub!Mode(q)]
  <2>2. CASE pub_pc[q] = "rename_failed" /\ Pub!Artifact(q) \in Pub!Modes \X Pub!Attempts
    <3>1. failed[Pub!Artifact(q)] = None
      BY <1>6, <2>2 DEF Owned, Gone
    <3>2. failed' = [failed EXCEPT ![Pub!Artifact(q)] = moved] /\ conflicts' = conflicts
      BY <1>6, <2>2 DEF Pub!Preserve
    <3>3. failed'[Pub!Artifact(q)] = moved
      BY <1>2, <2>2, <3>2
    <3>4. \A x \in Pub!Modes \X Pub!Attempts : failed[x] # None => failed'[x] = failed[x]
      BY <1>2, <3>1, <3>2
    <3>5. \A m \in Pub!Modes : pub_tmp'[m] = pub_tmp[m] \/ pub_tmp[m] = moved
      BY <1>1, <1>2, <2>1
    <3> HIDE DEF moved
    <3>6. QED
      BY <1>2, <2>1, <2>2, <3>2, <3>3, <3>4, <3>5 DEF Pub!Named
  <2>3. CASE pub_pc[q] = "rename_conflict"
    <3>1. failed' = failed /\ conflicts' = conflicts \union {moved}
      BY <1>6, <2>3 DEF Pub!Preserve
    <3>2. \A m \in Pub!Modes : pub_tmp'[m] = pub_tmp[m] \/ pub_tmp[m] = moved
      BY <1>1, <1>2, <2>1
    <3> HIDE DEF moved
    <3>3. QED
      BY <2>1, <3>1, <3>2 DEF Pub!Named
  <2>4. QED
    BY <1>6, <2>2, <2>3, ArtifactName DEF Pub!Preserve
<1>7. CASE Pub!Preserve(q) /\ pub_tmp[Pub!Mode(q)] = None
  BY <1>7 DEF Pub!Preserve, Pub!Named
<1>8. CASE ~Renames(q)
  BY <1>8, NamesStay DEF Pub!Named
<1>9. QED
  BY <1>3, <1>4, <1>5, <1>6, <1>7, <1>8 DEF Renames

\* No step takes a final name or a failed artifact away.
LEMMA FilesAreNotReplaced ==
  ASSUME Pub!PublicationAssumption, Pub!ArgumentsAssumption, PubTypes,
         NEW q \in Runners, RunRows(q), Acts(q), Owned(q)
  PROVE  Pub!FinalImmutable /\ Pub!ArtifactsStay
<1>1. Pub!Mode(q) \in Pub!Modes
  BY NameTypes
<1>2. /\ final \in [Pub!Modes -> Pub!Files \union {None}]
      /\ failed \in [Pub!Modes \X Pub!Attempts -> Pub!Files \union {None}]
  BY DEF PubTypes
<1>3. CASE Pub!OpenTmp(q) \/ Pub!Unlink(q)
  BY <1>3 DEF Pub!OpenTmp, Pub!Unlink, Pub!FinalImmutable, Pub!ArtifactsStay
<1>4. CASE Pub!Link(q)
  BY <1>1, <1>2, <1>4 DEF Pub!Link, Pub!FinalImmutable, Pub!ArtifactsStay
<1>5. CASE Pub!Preserve(q)
  <2>1. final' = final
    BY <1>5 DEF Pub!Preserve
  <2>2. CASE pub_pc[q] = "rename_failed" /\ pub_tmp[Pub!Mode(q)] # None
    <3>1. failed[Pub!Artifact(q)] = None
      BY <2>2 DEF Owned, Gone
    <3>2. failed' = [failed EXCEPT ![Pub!Artifact(q)] = pub_tmp[Pub!Mode(q)]]
      BY <1>5, <2>2 DEF Pub!Preserve
    <3>3. \A x \in Pub!Modes \X Pub!Attempts : failed[x] # None => failed'[x] = failed[x]
      BY <1>2, <3>1, <3>2
    <3>4. QED
      BY <2>1, <3>3 DEF Pub!FinalImmutable, Pub!ArtifactsStay
  <2>3. CASE ~(pub_pc[q] = "rename_failed" /\ pub_tmp[Pub!Mode(q)] # None)
    BY <1>5, <2>1, <2>3 DEF Pub!Preserve, Pub!FinalImmutable, Pub!ArtifactsStay
  <2>4. QED
    BY <2>2, <2>3
<1>6. CASE ~Renames(q)
  BY <1>6, NamesStay DEF Pub!FinalImmutable, Pub!ArtifactsStay
<1>7. QED
  BY <1>3, <1>4, <1>5, <1>6 DEF Renames

LEMMA KeptStays ==
  ASSUME Pub!PublicationAssumption, Pub!ArgumentsAssumption, PubTypes,
         NEW q \in Runners, RunRows(q), Acts(q), Owned(q), Whole(q),
         NEW r \in Runners, Kept(r)
  PROVE  Kept(r)'
<1>1. SUFFICES ASSUME pub_pc'[r] \in Writing \/ pub_rows'[r] # <<>>,
                      ~(pub_pc[r] \in Writing \/ pub_rows[r] # <<>>)
               PROVE  Pub!Named(r)'
  BY NamedStays DEF Kept
<1>2. r = q
  BY <1>1, ActsAlone DEF OnlyOf
<1>3. Pub!OpenTmp(q) /\ pub_pc'[q] = "rows"
  <2>1. ~Pub!WriteRow(q)
    BY <1>1, <1>2 DEF Pub!WriteRow, Writing
  <2>2. CASE Pub!OpenTmp(q)
    BY <1>1, <1>2, <2>2 DEF Pub!OpenTmp, Pub!Goto, PubTypes, Writing, Checked
  <2>3. CASE ~Pub!OpenTmp(q)
    <3>1. pub_rows' = pub_rows /\ pub_pc[q] \notin Writing /\ pub_pc'[q] \notin Writing
      BY <1>1, <1>2, <2>1, <2>3
         DEF Acts, Pub!Step, Pub!ServerOnly, Pub!Signalled, Pub!resolve_mode_config,
         Pub!GuardFinal, Pub!GuardTmp, Pub!StartServer, Pub!StopServer, Pub!Validate,
         Pub!Link, Pub!Unlink, Pub!Raise, Pub!Except, Pub!PickArtifact, Pub!Preserve,
         Pub!Crash, Pub!Goto, Pub!Exit, Pub!names, Pub!files, PubTypes, Writing, Checked
    <3>2. QED
      BY <1>1, <1>2, <3>1
  <2>4. QED
    BY <2>2, <2>3
<1>4. pub_tmp'[Pub!Mode(q)] = q
  <2>1. pub_pc[q] = "open"
    BY <1>3 DEF Pub!OpenTmp
  <2>2. QED
    BY <1>3, <2>1, NameTypes DEF Pub!OpenTmp, Pub!Goto, PubTypes
<1>5. QED
  BY <1>2, <1>4, NameTypes DEF Pub!Named

\* What passes the gate is the complete matrix.
LEMMA GatePasses ==
  ASSUME NEW r \in Runners, RunRows(r), Len(pub_rows[r]) = Pub!Total(args[r]),
         Pub!Gate(args[r], pub_rows[r])
  PROVE  Pub!Complete(args[r], pub_rows[r])
<1> DEFINE rs == pub_rows[r]
           N  == Pub!Total(args[r])
<1>1. /\ rs \in Seq(RowsOf(args[r])) /\ Len(rs) = N
      /\ \A n \in 1..N : rs[n].cell = Pub!Cell(args[r], n)
  BY DEF RunRows
<1>2. rs \in [1..N -> RowsOf(args[r])]
  BY <1>1
<1>3. \A n \in 1..N : rs[n].ok
  BY <1>2 DEF Pub!Gate
<1>4. ASSUME NEW n \in 1..N
      PROVE  rs[n] = [cell |-> Pub!Cell(args[r], n), ok |-> TRUE]
  <2>1. rs[n] \in RowsOf(args[r])
    BY <1>2
  <2>2. rs[n] = [cell |-> rs[n].cell, ok |-> rs[n].ok] /\ rs[n].ok \in BOOLEAN
    BY <2>1 DEF RowsOf
  <2>3. rs[n].ok = TRUE
    BY <1>3, <2>2
  <2>4. QED
    BY <1>1, <2>2, <2>3
<1>5. rs = [n \in 1..N |-> [cell |-> Pub!Cell(args[r], n), ok |-> TRUE]]
  BY <1>2, <1>4
<1>6. QED
  BY <1>5 DEF Pub!Complete

LEMMA WholeStays ==
  ASSUME Pub!PublicationAssumption, Pub!ArgumentsAssumption, PubTypes,
         NEW q \in Runners, RunRows(q), Acts(q), Owned(q), Whole(q),
         NEW r \in Runners, Whole(r)
  PROVE  Whole(r)'
<1>1. args' = args /\ OnlyOf(q)
  BY ActsAlone DEF OnlyOf
<1>2. Pub!Mode(r)' = Pub!Mode(r) /\ Pub!Mode(r) \in Pub!Modes
  BY <1>1, SameNames, NameTypes
<1>3. pub_rows'[r] = pub_rows[r] =>
        (Pub!Complete(args[r], pub_rows[r])' <=> Pub!Complete(args[r], pub_rows[r]))
  BY <1>1, SameNames
<1>4. None \notin Runners
  BY DEF Pub!PublicationAssumption
<1>5. final[Pub!Mode(r)] = r => final'[Pub!Mode(r)] = r
  BY <1>2, <1>4, FilesAreNotReplaced DEF Pub!FinalImmutable
<1>6. CASE r # q
  <2>1. /\ pub_pc'[r] = pub_pc[r] /\ pub_rows'[r] = pub_rows[r] /\ code'[r] = code[r]
    BY <1>1, <1>6 DEF OnlyOf
  <2>2. QED
    BY <1>1, <1>2, <1>3, <1>5, <2>1 DEF Whole
<1>7. CASE r = q
  <2>1. pub_pc \in [Runners -> Places] /\ code \in [Runners -> {None, 0, 1, 2}]
    BY DEF PubTypes
  <2>2. CASE Pub!Validate(q)
    <3>1. pub_pc[q] = "validate" /\ pub_rows' = pub_rows /\ code' = code
          /\ pub_pc'[q] \in {"link", "except"}
      BY <2>1, <2>2 DEF Pub!Validate, Pub!Goto, Pub!files
    <3>2. pub_pc'[q] = "link" => Pub!Complete(args[q], pub_rows[q])
      <4>1. SUFFICES ASSUME pub_pc'[q] = "link" PROVE Pub!Complete(args[q], pub_rows[q])
        OBVIOUS
      <4>2. pub_tmp[Pub!Mode(q)] # None
            /\ Pub!Gate(args[q], pub_rows[pub_tmp[Pub!Mode(q)]])
        BY <2>1, <2>2, <4>1 DEF Pub!Validate, Pub!Goto
      <4>3. pub_tmp[Pub!Mode(q)] = q
        BY <3>1, <4>2 DEF Owned, Gone, Writing, Checked
      <4>4. Len(pub_rows[q]) = Pub!Total(args[q])
        BY <3>1 DEF RunRows, Checked
      <4>5. QED
        BY <4>2, <4>3, <4>4, GatePasses
    <3>3. QED
      BY <1>1, <1>2, <1>3, <1>5, <1>7, <3>1, <3>2 DEF Whole
  <2>3. CASE Pub!Link(q)
    <3>1. pub_pc[q] = "link" /\ pub_rows' = pub_rows /\ code' = code
          /\ pub_pc'[q] \in {"unlink", "except"}
      BY <2>1, <2>3 DEF Pub!Link, Pub!Goto
    <3>2. pub_pc'[q] = "unlink" => final'[Pub!Mode(q)] = q
      <4>1. SUFFICES ASSUME pub_pc'[q] = "unlink" PROVE final'[Pub!Mode(q)] = q
        OBVIOUS
      <4>2. pub_tmp[Pub!Mode(q)] # None
            /\ final' = [final EXCEPT ![Pub!Mode(q)] = pub_tmp[Pub!Mode(q)]]
        BY <2>1, <2>3, <4>1 DEF Pub!Link, Pub!Goto
      <4>3. pub_tmp[Pub!Mode(q)] = q
        BY <3>1, <4>2 DEF Owned, Gone, Writing, Checked
      <4>4. QED
        BY <1>2, <1>7, <4>2, <4>3 DEF PubTypes
    <3>3. QED
      BY <1>1, <1>2, <1>3, <1>5, <1>7, <3>1, <3>2 DEF Whole
  <2>4. CASE Pub!Unlink(q) \/ Pub!Signalled(q) \/ Pub!ServerOnly(q)
    <3>1. pub_rows' = pub_rows
      BY <2>4 DEF Pub!Unlink, Pub!Signalled, Pub!ServerOnly, Pub!files
    <3>2. /\ pub_pc'[q] \in {"serving", "exited", "except"}
          /\ pub_pc'[q] = "serving" => args[q].server_only
          /\ code'[q] = 0 /\ ~args[q].server_only => final[Pub!Mode(q)] = q
      BY <2>1, <2>4, <1>4, <1>7 DEF Pub!Unlink, Pub!Signalled, Pub!ServerOnly, Pub!Goto, Pub!Exit,
                       Whole
    <3>3. QED
      BY <1>1, <1>2, <1>3, <1>5, <1>7, <3>1, <3>2 DEF Whole
  <2>5. CASE ~(Pub!Validate(q) \/ Pub!Link(q) \/ Pub!Unlink(q) \/ Pub!Signalled(q)
                \/ Pub!ServerOnly(q))
    <3>1. /\ pub_pc'[q] \notin {"link", "unlink", "serving"}
          /\ code'[q] # 0 \/ code'[q] = code[q]
      BY <2>1, <2>5 DEF Acts, Pub!Step, Pub!resolve_mode_config, Pub!GuardFinal,
         Pub!GuardTmp, Pub!StartServer, Pub!OpenTmp, Pub!WriteRow, Pub!StopServer,
         Pub!Raise, Pub!Except, Pub!PickArtifact, Pub!Preserve, Pub!Crash,
         Pub!Goto, Pub!Exit
    <3>2. QED
      BY <1>1, <1>2, <1>5, <1>7, <3>1 DEF Whole
  <2>6. QED
    BY <2>2, <2>3, <2>4, <2>5
<1>8. QED
  BY <1>6, <1>7

LEMMA ClosedStays ==
  ASSUME Pub!PublicationAssumption, Pub!ArgumentsAssumption, PubTypes,
         NEW q \in Runners, Acts(q), Owned(q), Whole(q),
         NEW m \in Pub!Modes, Closed(m)
  PROVE  Closed(m)'
<1>1. args' = args /\ OnlyOf(q)
  BY ActsAlone DEF OnlyOf
<1>2. final \in [Pub!Modes -> Pub!Files \union {None}] /\ pub_pc \in [Runners -> Places]
  BY DEF PubTypes
<1>3. SUFFICES ASSUME final'[m] \in Runners PROVE Closed(m)'
  BY DEF Closed
<1> DEFINE f == final'[m]
<1>5. CASE final'[m] = final[m]
  <2>1. /\ Pub!Complete(args[f], pub_rows[f])
        /\ pub_pc[f] \in {"unlink"} \union Failing \union Over
    BY <1>3, <1>5 DEF Closed
  <2>2. /\ pub_rows'[f] = pub_rows[f]
        /\ pub_pc'[f] \in {"unlink"} \union Failing \union Over
    <3>1. CASE f # q
      BY <1>1, <1>3, <2>1, <3>1 DEF OnlyOf
    <3>2. CASE f = q
      <4> HIDE DEF f
      <4>1. pub_rows' = pub_rows
        BY <2>1, <3>2 DEF Acts, Pub!Step, Pub!ServerOnly, Pub!Signalled,
           Pub!resolve_mode_config, Pub!GuardFinal, Pub!GuardTmp, Pub!StartServer,
           Pub!OpenTmp, Pub!WriteRow, Pub!StopServer, Pub!Validate, Pub!Link, Pub!Unlink,
           Pub!Raise, Pub!Except, Pub!PickArtifact, Pub!Preserve, Pub!Crash,
           Pub!names, Pub!files, Failing, Over
      <4>2. pub_pc'[q] \in {"unlink"} \union Failing \union Over
        BY <1>2, <2>1, <3>2 DEF Acts, Pub!Step, Pub!ServerOnly, Pub!Signalled,
           Pub!resolve_mode_config, Pub!GuardFinal, Pub!GuardTmp, Pub!StartServer,
           Pub!OpenTmp, Pub!WriteRow, Pub!StopServer, Pub!Validate, Pub!Link, Pub!Unlink,
           Pub!Raise, Pub!Except, Pub!PickArtifact, Pub!Preserve, Pub!Crash,
           Pub!Goto, Pub!Exit, Failing, Over
      <4>3. QED
        BY <3>2, <4>1, <4>2
    <3>3. QED
      BY <3>1, <3>2
  <2>3. Pub!Complete(args'[f], pub_rows'[f])
    BY <1>1, <2>1, <2>2
  <2>4. QED
    BY <2>2, <2>3 DEF Closed, Pub!Complete, Pub!Total, Pub!Cell, Pub!Matrix
<1>6. CASE final'[m] # final[m]
  <2>1. Pub!Link(q)
    BY <1>6, NamesStay DEF Renames, Pub!OpenTmp, Pub!Unlink, Pub!Preserve
  <2>2. pub_pc[q] = "link" /\ pub_tmp[Pub!Mode(q)] # None /\ pub_rows' = pub_rows
        /\ pub_pc'[q] = "unlink"
        /\ final' = [final EXCEPT ![Pub!Mode(q)] = pub_tmp[Pub!Mode(q)]]
    BY <1>2, <1>6, <2>1 DEF Pub!Link, Pub!Goto
  <2>3. pub_tmp[Pub!Mode(q)] = q
    BY <2>2 DEF Owned, Gone, Writing, Checked
  <2>4. f = q
    BY <1>2, <1>6, <2>2, <2>3
  <2>5. Pub!Complete(args[q], pub_rows[q])
    BY <2>2 DEF Whole
  <2> HIDE DEF f
  <2>6. Pub!Complete(args'[f], pub_rows'[f])
    BY <1>1, <2>2, <2>4, <2>5
  <2>7. pub_pc'[f] = "unlink"
    BY <2>2, <2>4
  <2>8. QED
    BY <2>6, <2>7 DEF f, Closed, Pub!Complete, Pub!Total, Pub!Cell, Pub!Matrix
<1>7. QED
  BY <1>5, <1>6

LEMMA PubFilesInit ==
  ASSUME Pub!PublicationAssumption, Pub!ArgumentsAssumption, Pub!Init
  PROVE  PubFiles
<1>1. ASSUME NEW r \in Runners
      PROVE  Owned(r) /\ Whole(r) /\ Kept(r)
  <2>1. pub_pc[r] = "start" /\ code[r] = None /\ pub_rows[r] = <<>>
    BY DEF Pub!Init
  <2>2. None # 0
    BY DEF Pub!PublicationAssumption
  <2>3. QED
    BY <2>1, <2>2 DEF Owned, Whole, Kept, Writing, Checked
<1>2. ASSUME NEW m \in Pub!Modes
      PROVE  final[m] \notin Runners
  BY DEF Pub!Init, Pub!PublicationAssumption
<1>3. QED
  BY <1>1, <1>2 DEF PubFiles, Closed

LEMMA PubFilesNext ==
  ASSUME Pub!PublicationAssumption, Pub!ArgumentsAssumption, AtMostTwo, PubRuns, PubFiles,
         [Pub!Next]_Pub!vars
  PROVE  PubFiles'
<1>1. CASE UNCHANGED Pub!vars
  <2>1. args' = args /\ pub_pc' = pub_pc /\ code' = code /\ final' = final
        /\ pub_tmp' = pub_tmp /\ failed' = failed /\ conflicts' = conflicts
        /\ pub_rows' = pub_rows
    BY <1>1 DEF Pub!vars, Pub!names
  <2>2. ASSUME NEW r \in Runners
        PROVE  Owned(r)' /\ Whole(r)' /\ Kept(r)'
    <3>1. Owned(r) /\ Whole(r) /\ Kept(r)
      BY DEF PubFiles
    <3>2. Owned(r)'
      BY <2>1, <3>1 DEF Owned, Gone, Alone, Pub!Mode, Pub!Artifact
    <3>3. Whole(r)'
      BY <2>1, <3>1, SameNames DEF Whole
    <3>4. Kept(r)'
      BY <2>1, <3>1 DEF Kept, Pub!Named
    <3>5. QED
      BY <3>2, <3>3, <3>4
  <2>3. ASSUME NEW m \in Pub!Modes
        PROVE  Closed(m)'
    <3>1. Closed(m)
      BY DEF PubFiles
    <3>2. QED
      BY <2>1, <3>1 DEF Closed, Pub!Complete, Pub!Total, Pub!Cell, Pub!Matrix
  <2>4. QED
    BY <2>2, <2>3 DEF PubFiles
<1>2. ASSUME NEW q \in Runners, Acts(q)
      PROVE  PubFiles'
  <2>1. PubTypes /\ RunRows(q)
    BY DEF PubRuns
  <2>2. \A r \in Runners : Owned(r) /\ Whole(r) /\ Kept(r)
    BY DEF PubFiles
  <2>3. ASSUME NEW r \in Runners
        PROVE  Owned(r)'
    BY <1>2, <2>1, <2>2, OwnedByActor, OwnedByOther
  <2>4. \A r \in Runners : Whole(r)'
    BY <1>2, <2>1, <2>2, WholeStays
  <2>5. \A r \in Runners : Kept(r)'
    BY <1>2, <2>1, <2>2, KeptStays
  <2>6. \A m \in Pub!Modes : Closed(m)'
    BY <1>2, <2>1, <2>2, ClosedStays DEF PubFiles
  <2>7. QED
    BY <2>3, <2>4, <2>5, <2>6 DEF PubFiles
<1>3. QED
  BY <1>1, <1>2, NextIsAct

\* With at most two runners of a directory, whatever is raised or killed: a final
\* name refers to the complete matrix of the runner that wrote it, every row valid
\* (FinalIsWhole); a runner that ends well has published its own file
\* (SuccessIsPublished); and rows once written keep a name (NothingLost).
THEOREM TwoRunners ==
  ASSUME Pub!PublicationAssumption, Pub!ArgumentsAssumption, AtMostTwo
  PROVE  Pub!Spec => [](Pub!FinalIsWhole /\ Pub!SuccessIsPublished /\ Pub!NothingLost)
<1>1. Pub!Init => PubFiles
  BY PubFilesInit
<1>2. PubRuns /\ PubFiles /\ [Pub!Next]_Pub!vars => PubFiles'
  BY PubFilesNext
<1>3. PubFiles => Pub!FinalIsWhole /\ Pub!SuccessIsPublished /\ Pub!NothingLost
  BY DEF PubFiles, Closed, Whole, Kept, Pub!FinalIsWhole, Pub!SuccessIsPublished,
         Pub!NothingLost
<1>4. QED
  BY <1>1, <1>2, <1>3, PubInvariance, PTL DEF Pub!Spec

\* Nor does a failed artifact ever take the place of another (ArtifactsStay), though
\* preserve_failed_artifact looks at the name first and renames later.
THEOREM ArtifactsAreKept ==
  ASSUME Pub!PublicationAssumption, Pub!ArgumentsAssumption, AtMostTwo
  PROVE  Pub!Spec => [][Pub!ArtifactsStay]_Pub!vars
<1>1. Pub!Init => PubFiles
  BY PubFilesInit
<1>2. PubRuns /\ PubFiles /\ [Pub!Next]_Pub!vars => PubFiles'
  BY PubFilesNext
<1>3. PubRuns /\ PubFiles /\ [Pub!Next]_Pub!vars => [Pub!ArtifactsStay]_Pub!vars
  <2>1. ASSUME PubRuns, PubFiles, NEW q \in Runners, Acts(q)
        PROVE  Pub!ArtifactsStay
    BY <2>1, FilesAreNotReplaced DEF PubRuns, PubFiles
  <2>2. QED
    BY <2>1, NextIsAct
<1>4. QED
  BY <1>1, <1>2, <1>3, PubInvariance, PTL DEF Pub!Spec

-----------------------------------------------------------------------------
(* rerun_failed_real_recovery.py: Reruns, any number of rerun_rows and runs *)

CONSTANTS RowCount, MaxRuns, TriesGiven
VARIABLES original, file, rerun_pc, runs, attempts, dry_run, rerun_rows, failed_indexes, made

Rerun == INSTANCE Reruns WITH Attempts <- TriesGiven, pc <- rerun_pc, rows <- rerun_rows

RerunRow == [case : 1..RowCount, run : Nat, passes : BOOLEAN]

\* s holds a row of each of the first cases; those the experiment passed are its own.
RowsInPlace(s, first) ==
  /\ s \in Seq(RerunRow) /\ Len(s) <= RowCount
  /\ \A i \in 1..Len(s) : s[i].case = i /\ (first[i].passes => s[i] = first[i])

\* The row of a case is that of the last attempt, which is the first that passed
\* or the last that was allowed; a case that is left has only failed ones.
Tried(i, row, tries, left, most) ==
  /\ tries # <<>> => (row.passes <=> \E k \in 1..Len(tries) : tries[k])
  /\ left => \A k \in 1..Len(tries) : ~tries[k]
  /\ ~left /\ tries # <<>> /\ ~row.passes => Len(tries) = most

RerunTypes ==
  /\ original \in Seq(RerunRow) /\ Len(original) = RowCount
  /\ RowsInPlace(file, original) /\ RowsInPlace(rerun_rows, original)
  /\ rerun_pc \in {"off", "rerun", "write"} /\ runs \in 0..MaxRuns
  /\ attempts \in Nat /\ dry_run \in BOOLEAN
  /\ failed_indexes \subseteq 1..Len(rerun_rows)
  /\ made \in Seq(Seq(BOOLEAN))

RerunInv ==
  /\ RerunTypes
  /\ rerun_pc = "rerun" =>
       /\ Len(file) = Len(rerun_rows) /\ Len(made) = Len(rerun_rows)
       /\ \A i \in failed_indexes : ~original[i].passes
       /\ \A i \in 1..Len(rerun_rows) :
            Tried(i, rerun_rows[i], made[i], i \in failed_indexes, attempts)
       /\ attempts = 0 => \A i \in 1..Len(rerun_rows) : made[i] = <<>>
  /\ rerun_pc = "write" =>
       /\ file = <<>> /\ Len(made) = Len(rerun_rows)
       /\ \A i \in 1..Len(rerun_rows) : Tried(i, rerun_rows[i], made[i], FALSE, attempts)
  /\ rerun_pc = "off" /\ made # <<>> =>
       /\ Len(made) = Len(file)
       /\ \A i \in 1..Len(file) : Tried(i, file[i], made[i], FALSE, attempts)

LEMMA RerunInit ==
  ASSUME Rerun!RerunsAssumption, Rerun!Init
  PROVE  RerunInv
<1>1. PICK passing \in SUBSET (1..RowCount) :
        original = [i \in 1..RowCount |-> [case |-> i, run |-> 0, passes |-> i \in passing]]
  BY DEF Rerun!Init, Rerun!Row
<1>2. RowCount \in Nat /\ MaxRuns \in Nat
  BY DEF Rerun!RerunsAssumption
<1>3. original \in [1..RowCount -> RerunRow] /\ \A i \in 1..RowCount : original[i].case = i
  BY <1>1, <1>2 DEF RerunRow
<1>4. original \in Seq(RerunRow) /\ Len(original) = RowCount
  BY <1>2, <1>3
<1>5. RowsInPlace(original, original)
  BY <1>2, <1>3, <1>4 DEF RowsInPlace
<1>6. RowsInPlace(<<>>, original)
  BY <1>2 DEF RowsInPlace
<1>7. <<>> \in Seq(Seq(BOOLEAN))
  OBVIOUS
<1>8. RerunTypes
  <2>1. RowsInPlace(file, original) /\ RowsInPlace(rerun_rows, original) /\ made \in Seq(Seq(BOOLEAN))
    BY <1>5, <1>6, <1>7 DEF Rerun!Init
  <2>2. rerun_pc = "off" /\ runs = 0 /\ attempts = 0 /\ dry_run \in BOOLEAN /\ failed_indexes = {}
    BY DEF Rerun!Init
  <2>3. QED
    BY <1>2, <1>4, <2>1, <2>2 DEF RerunTypes
<1>9. QED
  BY <1>8 DEF Rerun!Init, RerunInv

LEMMA RerunStart ==
  ASSUME Rerun!RerunsAssumption, RerunInv, Rerun!Start
  PROVE  RerunInv'
<1>1. RowsInPlace(file, original) /\ RerunTypes
  BY DEF RerunInv, RerunTypes
<1>2. file \in Seq(RerunRow) /\ DOMAIN file = 1..Len(file) /\ Len(file) \in Nat
  BY <1>1 DEF RowsInPlace
<1>3. UNCHANGED <<original, file>> /\ rerun_rows' = file
  BY DEF Rerun!Start
<1>4. made' \in Seq(Seq(BOOLEAN)) /\ Len(made') = Len(file)
      /\ \A i \in 1..Len(file) : made'[i] = <<>>
  <2>1. made' = [i \in 1..Len(file) |-> <<>>]
    BY <1>2 DEF Rerun!Start
  <2>2. <<>> \in Seq(BOOLEAN)
    OBVIOUS
  <2>3. made' \in [1..Len(file) -> Seq(BOOLEAN)]
    BY <2>1, <2>2
  <2>4. QED
    BY <1>2, <2>1, <2>3
<1>5. failed_indexes' \subseteq 1..Len(file) /\ \A i \in failed_indexes' : ~original[i].passes
  <2>1. failed_indexes' = {i \in 1..Len(file) : ~file[i].passes}
    BY <1>2 DEF Rerun!Start, Rerun!FailedIndexes, Rerun!is_failed_recovery_row
  <2>2. QED
    BY <1>1, <2>1 DEF RowsInPlace
<1>6. runs' \in 0..MaxRuns /\ attempts' \in Nat /\ dry_run' \in BOOLEAN
      /\ rerun_pc' \in {"off", "rerun"}
  BY DEF Rerun!Start, Rerun!RerunsAssumption, RerunInv, RerunTypes
<1>7. RerunTypes'
  BY <1>1, <1>3, <1>4, <1>5, <1>6 DEF RerunTypes, RowsInPlace
<1>8. \A i, row, left, most : Tried(i, row, <<>>, left, most)
  BY DEF Tried
<1>9. QED
  BY <1>3, <1>4, <1>5, <1>6, <1>7, <1>8 DEF RerunInv

LEMMA RerunAttempt ==
  ASSUME Rerun!RerunsAssumption, RerunInv, Rerun!Attempt
  PROVE  RerunInv'
<1> DEFINE i == Rerun!Earliest
<1>1. RerunTypes /\ RowsInPlace(rerun_rows, original) /\ rerun_pc = "rerun" /\ failed_indexes # {}
      /\ attempts \in Nat \ {0}
  BY DEF RerunInv, RerunTypes, Rerun!Attempt
<1>2. /\ rerun_rows \in Seq(RerunRow) /\ Len(rerun_rows) \in Nat
      /\ made \in Seq(Seq(BOOLEAN)) /\ Len(made) = Len(rerun_rows)
  BY <1>1 DEF RerunInv, RerunTypes, RowsInPlace
<1>3. i \in failed_indexes /\ i \in 1..Len(rerun_rows) /\ ~original[i].passes
      /\ \A k \in 1..Len(made[i]) : ~made[i][k]
  <2>1. \E m \in failed_indexes : \A k \in failed_indexes : m <= k
    <3>1. failed_indexes \subseteq 0..Len(rerun_rows)
      BY <1>1, <1>2 DEF RerunTypes
    <3>2. QED
      BY <1>1, <1>2, <3>1, LeastNumber
  <2>2. i \in failed_indexes
    BY <2>1 DEF Rerun!Earliest
  <2>3. i \in 1..Len(rerun_rows) /\ ~original[i].passes
    BY <1>1, <2>2 DEF RerunInv, RerunTypes
  <2>4. Tried(i, rerun_rows[i], made[i], TRUE, attempts)
    BY <1>1, <2>2, <2>3 DEF RerunInv
  <2>5. QED
    BY <2>2, <2>3, <2>4 DEF Tried
<1>4. PICK passes \in BOOLEAN :
        /\ rerun_rows' = [rerun_rows EXCEPT ![i] = [case |-> rerun_rows[i].case, run |-> runs, passes |-> passes]]
        /\ made' = [made EXCEPT ![i] = Append(@, passes)]
        /\ failed_indexes' = IF passes \/ Len(made'[i]) = attempts
                             THEN failed_indexes \ {i} ELSE failed_indexes
  BY DEF Rerun!Attempt, Rerun!Row
<1>5. UNCHANGED <<original, file, rerun_pc, runs, attempts, dry_run>>
  BY DEF Rerun!Attempt, Rerun!options
<1> HIDE DEF i
<1>6. made[i] \in Seq(BOOLEAN) /\ rerun_rows[i] \in RerunRow
  BY <1>2, <1>3
<1>7. /\ made' \in Seq(Seq(BOOLEAN)) /\ Len(made') = Len(made)
      /\ made'[i] = Append(made[i], passes)
      /\ \A j \in 1..Len(rerun_rows) \ {i} : made'[j] = made[j]
  <2>1. Append(made[i], passes) \in Seq(BOOLEAN)
    BY <1>6
  <2>2. QED
    BY <1>2, <1>3, <1>4, <2>1
<1>8. /\ rerun_rows' \in Seq(RerunRow) /\ Len(rerun_rows') = Len(rerun_rows)
      /\ rerun_rows'[i] = [case |-> rerun_rows[i].case, run |-> runs, passes |-> passes]
      /\ \A j \in 1..Len(rerun_rows) \ {i} : rerun_rows'[j] = rerun_rows[j]
  <2>1. [case |-> rerun_rows[i].case, run |-> runs, passes |-> passes] \in RerunRow
    BY <1>1, <1>6 DEF RerunRow, RerunTypes, Rerun!RerunsAssumption
  <2>2. QED
    BY <1>2, <1>3, <1>4, <2>1
<1>9. RowsInPlace(rerun_rows', original)
  BY <1>1, <1>3, <1>8 DEF RowsInPlace
<1>10. RerunTypes'
  <2>1. failed_indexes' \subseteq 1..Len(rerun_rows')
    BY <1>1, <1>4, <1>8 DEF RerunTypes
  <2>2. RowsInPlace(rerun_rows, original)' /\ RowsInPlace(file, original)'
    BY <1>1, <1>5, <1>9 DEF RerunTypes
  <2>3. QED
    BY <1>1, <1>5, <1>7, <2>1, <2>2 DEF RerunTypes
<1>11. Tried(i, rerun_rows'[i], made'[i], i \in failed_indexes', attempts)
  <2> DEFINE t == made'[i]
             L == Len(made[i])
  <2>1. /\ L \in Nat /\ Len(t) = L + 1 /\ t[L + 1] = passes
        /\ \A k \in 1..L : t[k] = made[i][k]
    BY <1>6, <1>7
  <2>2. \A k \in 1..(L + 1) : k = L + 1 \/ k \in 1..L
    BY <2>1
  <2>3. (\E k \in 1..Len(t) : t[k]) <=> passes
    BY <1>3, <2>1, <2>2
  <2>4. i \in failed_indexes' <=> ~(passes \/ Len(t) = attempts)
    BY <1>3, <1>4
  <2> HIDE DEF t
  <2>5. rerun_rows'[i].passes = passes
    BY <1>8
  <2>6. QED
    BY <2>3, <2>4, <2>5 DEF Tried, t
<1>12. \A j \in 1..Len(rerun_rows) : j # i =>
         Tried(j, rerun_rows'[j], made'[j], j \in failed_indexes', attempts)
  <2>1. \A j \in 1..Len(rerun_rows) : Tried(j, rerun_rows[j], made[j], j \in failed_indexes, attempts)
    BY <1>1 DEF RerunInv
  <2>2. \A j \in 1..Len(rerun_rows) : j # i => (j \in failed_indexes' <=> j \in failed_indexes)
    BY <1>4
  <2>3. QED
    BY <1>7, <1>8, <2>1, <2>2 DEF Tried
<1>13. \A j \in failed_indexes' : ~original[j].passes
  BY <1>1, <1>4 DEF RerunInv
<1>14. Len(file) = Len(rerun_rows)
  BY <1>1 DEF RerunInv
<1>15. QED
  BY <1>1, <1>2, <1>5, <1>7, <1>8, <1>10, <1>11, <1>12, <1>13, <1>14 DEF RerunInv

LEMMA RerunTruncate ==
  ASSUME RerunInv, Rerun!Truncate
  PROVE  RerunInv'
<1>1. /\ RerunTypes /\ rerun_pc = "rerun" /\ rerun_pc' = "write" /\ file' = <<>>
      /\ failed_indexes = {} \/ attempts = 0
      /\ UNCHANGED <<original, runs, attempts, dry_run, rerun_rows, failed_indexes, made>>
  BY DEF RerunInv, Rerun!Truncate, Rerun!options, Rerun!work
<1>2. RowsInPlace(<<>>, original)
  <2>1. RowCount >= 0
    BY <1>1 DEF RerunTypes, RowsInPlace
  <2>2. QED
    BY <2>1 DEF RowsInPlace
<1>3. RowsInPlace(rerun_rows, original)' /\ RowsInPlace(file, original)'
  BY <1>1, <1>2 DEF RerunTypes
<1>4. RerunTypes'
  BY <1>1, <1>3 DEF RerunTypes
<1>5. ASSUME NEW i \in 1..Len(rerun_rows)
      PROVE  Tried(i, rerun_rows[i], made[i], FALSE, attempts)
  <2>1. Tried(i, rerun_rows[i], made[i], i \in failed_indexes, attempts)
        /\ (attempts = 0 => made[i] = <<>>)
    BY <1>1 DEF RerunInv
  <2>2. QED
    BY <1>1, <2>1 DEF Tried
<1>6. Len(made) = Len(rerun_rows)
  BY <1>1 DEF RerunInv
<1>7. QED
  BY <1>1, <1>4, <1>5, <1>6 DEF RerunInv

LEMMA RerunWriteOrKill ==
  ASSUME RerunInv, Rerun!Write \/ Rerun!Kill
  PROVE  RerunInv'
<1>1. RerunTypes /\ rerun_rows \in Seq(RerunRow) /\ rerun_pc \in {"rerun", "write"} /\ rerun_pc' = "off"
  BY DEF RerunInv, RerunTypes, RowsInPlace, Rerun!Write, Rerun!Kill
<1>2. UNCHANGED <<original, runs, attempts, dry_run, rerun_rows, failed_indexes>>
  BY DEF Rerun!Write, Rerun!Kill, Rerun!options, Rerun!work
<1>3. (file' = rerun_rows /\ made' = made /\ rerun_pc = "write") \/ made' = <<>>
  BY DEF Rerun!Write, Rerun!Kill, Rerun!work
<1>4. file' = file \/ \E l \in 0..Len(rerun_rows) : file' = SubSeq(rerun_rows, 1, l)
  <2>1. file' = file \/ file' = rerun_rows \/ file' \in Rerun!Prefixes(rerun_rows)
    BY DEF Rerun!Write, Rerun!Kill
  <2>2. rerun_rows = SubSeq(rerun_rows, 1, Len(rerun_rows)) /\ Len(rerun_rows) \in 0..Len(rerun_rows)
    BY <1>1, SubSeqWhole
  <2>3. QED
    BY <2>1, <2>2 DEF Rerun!Prefixes
<1>5. RowsInPlace(file', original)
  <2>1. CASE file' = file
    BY <1>1, <2>1 DEF RerunTypes
  <2>2. ASSUME NEW l \in 0..Len(rerun_rows), file' = SubSeq(rerun_rows, 1, l)
        PROVE  RowsInPlace(file', original)
    <3>1. /\ file' \in Seq(RerunRow) /\ Len(file') = l
          /\ \A i \in 1..l : file'[i] = rerun_rows[i] /\ i \in 1..Len(rerun_rows)
      BY <1>1, <2>2
    <3>2. RowsInPlace(rerun_rows, original)
      BY <1>1 DEF RerunTypes
    <3>3. RowCount \in Int /\ Len(rerun_rows) \in Nat
      BY <1>1 DEF RerunTypes
    <3>4. QED
      BY <3>1, <3>2, <3>3 DEF RowsInPlace
  <2>3. QED
    BY <1>4, <2>1, <2>2
<1>6. RowsInPlace(file, original)' /\ RowsInPlace(rerun_rows, original)'
  BY <1>1, <1>2, <1>5 DEF RerunTypes
<1>7. made' \in Seq(Seq(BOOLEAN))
  <2>1. <<>> \in Seq(Seq(BOOLEAN))
    OBVIOUS
  <2>2. QED
    BY <1>1, <1>3, <2>1 DEF RerunTypes
<1>8. RerunTypes'
  BY <1>1, <1>2, <1>6, <1>7 DEF RerunTypes
<1>9. QED
  BY <1>1, <1>2, <1>3, <1>8 DEF RerunInv

LEMMA RerunInvariance ==
  ASSUME Rerun!RerunsAssumption
  PROVE  Rerun!Spec => []RerunInv
<1>1. RerunInv /\ [Rerun!Next]_(Rerun!vars) => RerunInv'
  <2>1. SUFFICES ASSUME RerunInv, [Rerun!Next]_(Rerun!vars) PROVE RerunInv'
    OBVIOUS
  <2>2. CASE UNCHANGED Rerun!vars
    <3>1. UNCHANGED <<original, file, rerun_pc, runs, attempts, dry_run, rerun_rows, failed_indexes, made>>
      BY <2>2 DEF Rerun!vars, Rerun!options, Rerun!work
    <3>2. RerunTypes'
      BY <2>1, <3>1 DEF RerunInv, RerunTypes
    <3>3. QED
      BY <2>1, <3>1, <3>2 DEF RerunInv
  <2>3. CASE Rerun!Next
    BY <2>1, <2>2, <2>3, RerunStart, RerunAttempt, RerunTruncate, RerunWriteOrKill
       DEF Rerun!Next, Rerun!Done
  <2>4. QED
    BY <2>1, <2>2, <2>3
<1>2. QED
  BY <1>1, RerunInit, PTL DEF Rerun!Spec

\* PassingRowsStay, TriedEnough: in whatever runs that were killed left of the file,
\* a row that once passed is the row the experiment wrote; and a run that wrote its
\* file to the end tried each failed row until it passed or --attempts were made.
THEOREM RerunsKeepPassingRows ==
  ASSUME Rerun!RerunsAssumption
  PROVE  Rerun!Spec => [](Rerun!TypeOK /\ Rerun!PassingRowsStay /\ Rerun!TriedEnough)
<1>1. ASSUME RerunInv
      PROVE  Rerun!TypeOK /\ Rerun!PassingRowsStay /\ Rerun!TriedEnough
  <2>1. RerunTypes /\ DOMAIN file = 1..Len(file) /\ DOMAIN rerun_rows = 1..Len(rerun_rows)
        /\ DOMAIN made = 1..Len(made)
    BY <1>1 DEF RerunInv, RerunTypes, RowsInPlace
  <2>2. Rerun!TypeOK
    BY <2>1 DEF RerunTypes, RowsInPlace, Rerun!TypeOK
  <2>3. Rerun!PassingRowsStay
    BY <2>1 DEF RerunTypes, RowsInPlace, Rerun!PassingRowsStay
  <2>4. ASSUME rerun_pc = "off", made # <<>>, NEW i \in DOMAIN made, made[i] # <<>>
        PROVE  /\ file[i].passes <=> \E k \in DOMAIN made[i] : made[i][k]
               /\ ~file[i].passes => Len(made[i]) = attempts
    <3>1. Tried(i, file[i], made[i], FALSE, attempts)
      BY <1>1, <2>1, <2>4 DEF RerunInv
    <3>2. DOMAIN made[i] = 1..Len(made[i])
      <4>1. made[i] \in Seq(BOOLEAN)
        BY <2>1, <2>4 DEF RerunTypes
      <4>2. QED
        BY <4>1
    <3>3. QED
      BY <2>4, <3>1, <3>2 DEF Tried
  <2>5. QED
    BY <2>2, <2>3, <2>4 DEF Rerun!TriedEnough
<1>2. QED
  BY <1>1, RerunInvariance, PTL

\* RowsOnlyLostInWriting: only the truncation by open(input_csv, "w") shortens the
\* file, and it is of a run that writes as many rerun_rows back if it is not killed.
THEOREM RerunsLoseNoRows ==
  ASSUME Rerun!RerunsAssumption
  PROVE  Rerun!Spec => [][Rerun!RowsOnlyLostInWriting]_(Rerun!vars)
<1>1. ASSUME RerunInv, Rerun!Next
      PROVE  Rerun!RowsOnlyLostInWriting
  <2>1. Len(file) \in Nat /\ rerun_rows \in Seq(RerunRow)
    BY <1>1 DEF RerunInv, RerunTypes, RowsInPlace
  <2>2. CASE Rerun!Truncate
    BY <1>1, <2>2 DEF Rerun!Truncate, RerunInv, Rerun!RowsOnlyLostInWriting
  <2>3. CASE (Rerun!Write \/ Rerun!Kill) /\ rerun_pc = "write"
    <3>1. Len(file) = 0
      BY <1>1, <2>3 DEF RerunInv
    <3>2. RowsInPlace(file, original)'
      BY <2>3, <1>1, RerunWriteOrKill DEF RerunInv, RerunTypes
    <3>3. Len(file') >= 0
      BY <3>2 DEF RowsInPlace
    <3>4. QED
      BY <3>1, <3>3 DEF Rerun!RowsOnlyLostInWriting
  <2>4. CASE ~Rerun!Truncate /\ ~((Rerun!Write \/ Rerun!Kill) /\ rerun_pc = "write")
    <3>1. file' = file
      BY <1>1, <2>4
         DEF Rerun!Next, Rerun!Start, Rerun!Attempt, Rerun!Write, Rerun!Kill, Rerun!Done,
             Rerun!vars
    <3>2. QED
      BY <2>1, <3>1 DEF Rerun!RowsOnlyLostInWriting
  <2>5. QED
    BY <2>2, <2>3, <2>4
<1>2. RerunInv /\ [Rerun!Next]_(Rerun!vars) => [Rerun!RowsOnlyLostInWriting]_(Rerun!vars)
  BY <1>1
<1>3. QED
  BY <1>2, RerunInvariance, PTL DEF Rerun!Spec

-----------------------------------------------------------------------------
(* gmcp/checkpoint_manager.py: CheckpointStore, any intervals, padding of the *)
(* names, number of messages and of crashes *)

CONSTANTS Intervals, Width, MaxSeq
VARIABLES run, up, loaded, interval, seq, checkpoints, checkpoint_count,
          last_checkpoint_seq, replay_count, saving, disk, recovery

Store == INSTANCE CheckpointStore

\* Append adds one element and keeps the others.
LEMMA OneMoreElement ==
  ASSUME NEW S, NEW s \in Seq(S), NEW e \in S
  PROVE  /\ Len(Append(s, e)) = Len(s) + 1 /\ Append(s, e)[Len(s) + 1] = e
         /\ \A i \in 1..Len(s) : Append(s, e)[i] = s[i]
OBVIOUS

\* A function on 1..n is a sequence of length n.
LEMMA FunctionIsSequence ==
  ASSUME NEW T, NEW n \in Nat, NEW s \in [1..n -> T]
  PROVE  s \in Seq(T) /\ Len(s) = n /\ DOMAIN s = 1..n
<1>1. s \in Seq(T)
  OBVIOUS
<1>2. DOMAIN s = 1..n
  OBVIOUS
<1>3. Len(s) = n
  BY <1>1, <1>2
<1>4. QED
  BY <1>1, <1>2, <1>3

\* The instance counts a set as FiniteSets does.
LEMMA SameCount ==
  ASSUME NEW S
  PROVE  Store!Cardinality(S) = Cardinality(S)
BY DEF Store!Cardinality, Cardinality

\* The largest of some numbers (max).
LEMMA MaxOfNumbers ==
  ASSUME NEW n \in Nat, NEW S, S \subseteq 0..n, S # {}
  PROVE  Store!Max(S) \in S /\ \A y \in S : y <= Store!Max(S)
<1> DEFINE B == {m \in 0..n : \A y \in S : y <= m}
<1>1. n \in B /\ B \subseteq 0..n
  OBVIOUS
<1>2. PICK m \in B : \A k \in B : m <= k
  <2> HIDE DEF B
  <2>1. QED
    BY <1>1, LeastNumber
<1>3. m \in 0..n /\ \A y \in S : y <= m
  OBVIOUS
<1>4. m \in S
  <2>1. SUFFICES ASSUME m \notin S PROVE FALSE
    OBVIOUS
  <2>2. \A y \in S : y \in Nat /\ y <= m - 1
    BY <1>3, <2>1
  <2>3. m - 1 \in 0..n
    <3>1. PICK y \in S : TRUE
      OBVIOUS
    <3>2. QED
      BY <1>3, <2>2, <3>1
  <2>4. m - 1 \in B
    BY <2>2, <2>3
  <2>5. QED
    BY <1>2, <1>3, <2>4
<1> HIDE DEF B
<1>5. Store!Max(S) = CHOOSE x \in S : \A y \in S : x >= y
  BY DEF Store!Max
<1>6. \A y \in S : m >= y
  BY <1>3
<1>7. Store!Max(S) \in S /\ \A y \in S : Store!Max(S) >= y
  BY <1>4, <1>5, <1>6
<1>8. QED
  BY <1>7

\* The interval itself is due for a checkpoint.
LEMMA IntervalIsDue ==
  ASSUME NEW k \in Nat \ {0}
  PROVE  k % k = 0
OBVIOUS

(* The digits of a number *)

\* The last digit of a number, and what is left of it.
LEMMA Decimal ==
  ASSUME NEW s \in Nat
  PROVE  /\ s \div 10 \in Nat /\ s % 10 \in 0..9 /\ s = (10 * (s \div 10)) + (s % 10)
         /\ s >= 10 => s \div 10 \in 1..(s - 1)
OBVIOUS

\* g is what the recursion computes for the numbers up to n.
IsDigits(g, n) ==
  g = [s \in 0..n |-> IF s < 10 THEN <<s>> ELSE Append(g[s \div 10], s % 10)]

LEMMA DigitsExist ==
  ASSUME NEW n \in Nat
  PROVE  \E g : IsDigits(g, n)
<1> DEFINE B == {k \in 0..n : ~\E g : IsDigits(g, k)}
<1>1. SUFFICES ASSUME B # {} PROVE FALSE
  OBVIOUS
<1>2. PICK m \in B : \A k \in B : m <= k
  <2>1. B \subseteq 0..n
    OBVIOUS
  <2> HIDE DEF B
  <2>2. QED
    BY <1>1, <2>1, LeastNumber
<1>3. CASE m = 0
  <2> DEFINE g == [s \in 0..0 |-> <<s>>]
  <2>1. IsDigits(g, 0)
    BY DEF IsDigits
  <2>2. QED
    BY <1>3, <2>1
<1>4. CASE m # 0
  <2>1. m - 1 \in 0..n /\ m - 1 \notin B /\ m \in Nat
    BY <1>2, <1>4
  <2>2. PICK g : IsDigits(g, m - 1)
    BY <2>1
  <2> DEFINE h == [s \in 0..m |-> IF s = m
                                    THEN IF s < 10 THEN <<s>> ELSE Append(g[s \div 10], s % 10)
                                    ELSE g[s]]
  <2>3. ASSUME NEW s \in 0..m
        PROVE  h[s] = IF s < 10 THEN <<s>> ELSE Append(h[s \div 10], s % 10)
    <3>1. s >= 10 => s \div 10 \in 0..(m - 1)
      BY <2>1, Decimal
    <3>2. s >= 10 => h[s \div 10] = g[s \div 10]
      BY <2>1, <3>1
    <3>3. CASE s = m
      BY <3>2, <3>3
    <3>4. CASE s # m
      <4>1. s \in 0..(m - 1)
        BY <2>1, <3>4
      <4>2. g[s] = IF s < 10 THEN <<s>> ELSE Append(g[s \div 10], s % 10)
        BY <2>2, <4>1 DEF IsDigits
      <4>3. QED
        BY <3>2, <3>4, <4>2
    <3>5. QED
      BY <3>3, <3>4
  <2>4. h = [s \in 0..m |-> h[s]]
    OBVIOUS
  <2> HIDE DEF h
  <2>5. IsDigits(h, m)
    BY <2>3, <2>4 DEF IsDigits
  <2>6. QED
    BY <1>2, <2>5
<1>5. QED
  BY <1>3, <1>4

LEMMA DigitsAgree ==
  ASSUME NEW n \in Nat, NEW m \in Nat, NEW g, NEW h, IsDigits(g, n), IsDigits(h, m),
         NEW s \in Nat, s <= n, s <= m
  PROVE  g[s] = h[s]
<1> DEFINE B == {k \in 0..s : g[k] # h[k]}
<1>1. SUFFICES ASSUME B # {} PROVE FALSE
  OBVIOUS
<1>2. PICK k \in B : \A l \in B : k <= l
  <2>1. B \subseteq 0..s
    OBVIOUS
  <2> HIDE DEF B
  <2>2. QED
    BY <1>1, <2>1, LeastNumber
<1>3. k \in 0..n /\ k \in 0..m /\ k \in Nat
  OBVIOUS
<1>4. /\ g[k] = IF k < 10 THEN <<k>> ELSE Append(g[k \div 10], k % 10)
      /\ h[k] = IF k < 10 THEN <<k>> ELSE Append(h[k \div 10], k % 10)
  BY <1>3 DEF IsDigits
<1>5. k >= 10 => k \div 10 \in 0..s /\ k \div 10 < k
  BY <1>3, Decimal
<1>6. k >= 10 => k \div 10 \notin B
  BY <1>2, <1>5
<1>7. k >= 10 => g[k \div 10] = h[k \div 10]
  BY <1>5, <1>6
<1>8. QED
  BY <1>3, <1>4, <1>7

\* Digits is what its definition says.
LEMMA DigitsUnfold ==
  ASSUME NEW s \in Nat
  PROVE  Store!Digits[s] =
           IF s < 10 THEN <<s>> ELSE Append(Store!Digits[s \div 10], s % 10)
<1> DEFINE G(n) == CHOOSE g : IsDigits(g, n)
           F == [n \in Nat |-> G(n)[n]]
<1>1. \A n \in Nat : IsDigits(G(n), n)
  BY DigitsExist
<1>2. ASSUME NEW n \in Nat
      PROVE  F[n] = IF n < 10 THEN <<n>> ELSE Append(F[n \div 10], n % 10)
  <2>1. F[n] = G(n)[n]
    OBVIOUS
  <2>2. n \in 0..n
    OBVIOUS
  <2> HIDE DEF G
  <2>3. G(n)[n] = IF n < 10 THEN <<n>> ELSE Append(G(n)[n \div 10], n % 10)
    BY <1>1, <2>2 DEF IsDigits
  <2>4. ASSUME n >= 10 PROVE G(n)[n \div 10] = G(n \div 10)[n \div 10]
    <3> DEFINE q == n \div 10
    <3>1. q \in Nat /\ q <= n /\ q <= q
      BY <2>4, Decimal
    <3> HIDE DEF q
    <3>2. G(n)[q] = G(q)[q]
      BY <1>1, <3>1, DigitsAgree
    <3>3. QED
      BY <3>2 DEF q
  <2>5. n \div 10 \in Nat
    BY Decimal
  <2>6. n >= 10 => F[n \div 10] = G(n)[n \div 10]
    BY <2>4, <2>5
  <2>7. QED
    BY <2>1, <2>3, <2>6
<1> HIDE DEF F
<1>3. F = [n \in Nat |-> F[n]]
  BY DEF F
<1>4. F = [n \in Nat |-> IF n < 10 THEN <<n>> ELSE Append(F[n \div 10], n % 10)]
  BY <1>2, <1>3
<1>5. Store!Digits = [n \in Nat |-> IF n < 10 THEN <<n>> ELSE Append(Store!Digits[n \div 10], n % 10)]
  BY <1>4 DEF Store!Digits
<1>6. QED
  BY <1>5

\* A number has digits, and the first of several is not zero.
LEMMA DigitsType ==
  ASSUME NEW s \in Nat
  PROVE  /\ Store!Digits[s] \in Seq(0..9) /\ Len(Store!Digits[s]) >= 1
         /\ s > 0 => Store!Digits[s][1] > 0
<1> DEFINE D(k) == Store!Digits[k]
           P(k) == D(k) \in Seq(0..9) /\ Len(D(k)) >= 1 /\ (k > 0 => D(k)[1] > 0)
           B == {k \in 0..s : ~P(k)}
<1>1. SUFFICES ASSUME B # {} PROVE FALSE
  BY DEF B
<1>2. PICK k \in B : \A l \in B : k <= l
  <2>1. B \subseteq 0..s
    OBVIOUS
  <2> HIDE DEF B
  <2>2. QED
    BY <1>1, <2>1, LeastNumber
<1>3. k \in Nat /\ k <= s /\ D(k) = IF k < 10 THEN <<k>> ELSE Append(D(k \div 10), k % 10)
  BY DigitsUnfold
<1>4. CASE k < 10
  <2>1. D(k) = <<k>> /\ k \in 0..9
    BY <1>3, <1>4
  <2> HIDE DEF D
  <2>2. P(k)
    BY <2>1
  <2>3. QED
    BY <2>2
<1>5. CASE k >= 10
  <2>1. k \div 10 \in 1..(k - 1) /\ k % 10 \in 0..9
    BY <1>3, <1>5, Decimal
  <2>2. P(k \div 10)
    <3>1. k \div 10 \in 0..s /\ k \div 10 < k
      BY <1>3, <2>1
    <3>2. k \div 10 \notin B
      BY <1>2, <3>1
    <3> HIDE DEF P
    <3>3. QED
      BY <3>1, <3>2
  <2>3. D(k) = Append(D(k \div 10), k % 10)
    BY <1>3, <1>5
  <2> HIDE DEF D
  <2> DEFINE d == D(k \div 10)
             e == k % 10
  <2>4. d \in Seq(0..9) /\ Len(d) >= 1 /\ d[1] > 0 /\ e \in 0..9
    BY <2>1, <2>2
  <2>5. D(k) = Append(d, e)
    BY <2>3
  <2> HIDE DEF d, e
  <2>6. Append(d, e) \in Seq(0..9) /\ Len(Append(d, e)) >= 1 /\ Append(d, e)[1] = d[1]
    BY <2>4
  <2>7. P(k)
    BY <2>4, <2>5, <2>6
  <2>8. QED
    BY <2>7
<1>6. QED
  BY <1>3, <1>4, <1>5

\* The digits x come before the digits y, as many: y has the first larger one.
Smaller(x, y) ==
  \E i \in 1..Len(x) : x[i] < y[i] /\ \A j \in 1..(i - 1) : x[j] = y[j]

\* A larger number has more digits, or as many and the first larger one.
LEMMA DigitsAscend ==
  ASSUME NEW a \in Nat, NEW b \in Nat, a < b
  PROVE  /\ Len(Store!Digits[a]) <= Len(Store!Digits[b])
         /\ Len(Store!Digits[a]) = Len(Store!Digits[b]) =>
              Smaller(Store!Digits[a], Store!Digits[b])
<1> DEFINE D(k) == Store!Digits[k]
           P(c, d) == Len(D(c)) <= Len(D(d)) /\ (Len(D(c)) = Len(D(d)) => Smaller(D(c), D(d)))
           B == {d \in 0..b : \E c \in Nat : c < d /\ ~P(c, d)}
<1>1. SUFFICES ASSUME B # {} PROVE FALSE
  <2>1. b \in 0..b
    OBVIOUS
  <2>2. B = {} => P(a, b)
    <3> HIDE DEF P
    <3>1. QED
      BY <2>1
  <2>3. QED
    BY <2>2
<1>2. PICK y \in B : \A l \in B : y <= l
  <2>1. B \subseteq 0..b
    OBVIOUS
  <2> HIDE DEF B
  <2>2. QED
    BY <1>1, <2>1, LeastNumber
<1>3. PICK x \in Nat : x < y /\ ~P(x, y)
  BY <1>2
<1>4. y \in Nat /\ y <= b
  BY <1>2
<1>5. /\ D(x) = IF x < 10 THEN <<x>> ELSE Append(D(x \div 10), x % 10)
      /\ D(y) = IF y < 10 THEN <<y>> ELSE Append(D(y \div 10), y % 10)
  BY <1>4, DigitsUnfold
<1>6. CASE y < 10
  <2>1. D(x) = <<x>> /\ D(y) = <<y>>
    BY <1>3, <1>4, <1>5, <1>6
  <2> HIDE DEF D
  <2>2. Len(D(x)) = 1 /\ Len(D(y)) = 1 /\ D(x)[1] < D(y)[1]
    BY <1>3, <1>4, <2>1
  <2>3. Smaller(D(x), D(y))
    BY <2>2 DEF Smaller
  <2>4. QED
    BY <1>3, <2>2, <2>3
<1>7. ASSUME y >= 10 PROVE FALSE
  <2> DEFINE v == y \div 10
             f == y % 10
  <2>1. v \in Nat /\ f \in 0..9 /\ y = (10 * v) + f /\ v < y
    BY <1>4, <1>7, Decimal
  <2>2. D(v) \in Seq(0..9) /\ Len(D(v)) >= 1
    BY <2>1, DigitsType
  <2>3. D(y) = Append(D(v), f)
    BY <1>4, <1>5, <1>7
  <2>4. \A c \in Nat : c < v => P(c, v)
    <3>1. v \in 0..b /\ v \notin B
      BY <1>2, <1>4, <2>1
    <3> HIDE DEF P, v
    <3>2. QED
      BY <3>1
  <2> HIDE DEF v, f
  <2>5. CASE x < 10
    <3>1. D(x) = <<x>>
      BY <1>3, <1>5, <2>5
    <3> HIDE DEF D
    <3>2. Len(D(x)) = 1 /\ Len(D(y)) = Len(D(v)) + 1
      BY <2>1, <2>2, <2>3, <3>1
    <3>3. P(x, y)
      BY <2>2, <3>2
    <3>4. QED
      BY <1>3, <3>3
  <2>6. CASE x >= 10
    <3> DEFINE u == x \div 10
               e == x % 10
    <3>1. u \in Nat /\ e \in 0..9 /\ x = (10 * u) + e
      BY <1>3, Decimal
    <3>2. D(u) \in Seq(0..9) /\ Len(D(u)) >= 1
      BY <3>1, DigitsType
    <3>3. D(x) = Append(D(u), e)
      BY <1>3, <1>5, <2>6
    <3> HIDE DEF u, e, D
    <3>4. u < v \/ (u = v /\ e < f)
      BY <1>3, <1>4, <2>1, <3>1
    <3>5. /\ Len(D(x)) = Len(D(u)) + 1 /\ Len(D(y)) = Len(D(v)) + 1
          /\ \A i \in 1..Len(D(u)) : D(x)[i] = D(u)[i]
          /\ \A i \in 1..Len(D(v)) : D(y)[i] = D(v)[i]
          /\ D(x)[Len(D(u)) + 1] = e /\ D(y)[Len(D(v)) + 1] = f
      <4>1. /\ Len(D(x)) = Len(D(u)) + 1 /\ D(x)[Len(D(u)) + 1] = e
            /\ \A i \in 1..Len(D(u)) : D(x)[i] = D(u)[i]
        BY <3>1, <3>2, <3>3, OneMoreElement
      <4>2. /\ Len(D(y)) = Len(D(v)) + 1 /\ D(y)[Len(D(v)) + 1] = f
            /\ \A i \in 1..Len(D(v)) : D(y)[i] = D(v)[i]
        BY <2>1, <2>2, <2>3, OneMoreElement
      <4>3. QED
        BY <4>1, <4>2
    <3>6. CASE u = v /\ e < f
      <4>1. Len(D(x)) = Len(D(y))
        BY <3>5, <3>6
      <4>2. D(x)[Len(D(x))] < D(y)[Len(D(x))]
        BY <2>1, <3>1, <3>2, <3>5, <3>6
      <4>3. \A j \in 1..(Len(D(x)) - 1) : D(x)[j] = D(y)[j]
        BY <3>2, <3>5, <3>6
      <4>4. Len(D(x)) \in 1..Len(D(x))
        BY <3>2, <3>5
      <4>5. Smaller(D(x), D(y))
        BY <4>2, <4>3, <4>4 DEF Smaller
      <4>6. QED
        BY <1>3, <2>2, <3>2, <3>5, <4>1, <4>5
    <3>7. CASE u < v
      <4>1. P(u, v)
        BY <2>4, <3>1, <3>7
      <4>2. Len(D(x)) <= Len(D(y)) /\ Len(D(u)) \in Nat /\ Len(D(v)) \in Nat
        BY <2>2, <3>2, <3>5, <4>1
      <4>3. ASSUME Len(D(x)) = Len(D(y))
            PROVE  Smaller(D(x), D(y))
        <5>1. Len(D(u)) = Len(D(v))
          BY <3>5, <4>2, <4>3
        <5>2. PICK i \in 1..Len(D(u)) :
                D(u)[i] < D(v)[i] /\ \A j \in 1..(i - 1) : D(u)[j] = D(v)[j]
          BY <4>1, <5>1 DEF Smaller
        <5>3. i \in 1..Len(D(x)) /\ i \in 1..Len(D(v))
          BY <3>5, <4>2, <5>1
        <5>4. D(x)[i] < D(y)[i]
          BY <3>5, <5>2, <5>3
        <5>5. \A j \in 1..(i - 1) : D(x)[j] = D(y)[j]
          <6>1. \A j \in 1..(i - 1) : j \in 1..Len(D(u)) /\ j \in 1..Len(D(v))
            BY <4>2, <5>1, <5>2
          <6>2. QED
            BY <3>5, <5>2, <6>1
        <5>6. QED
          BY <5>3, <5>4, <5>5 DEF Smaller
      <4>4. QED
        BY <1>3, <4>2, <4>3
    <3>8. QED
      BY <3>4, <3>6, <3>7
  <2>7. QED
    BY <1>3, <2>5, <2>6
<1>8. QED
  BY <1>4, <1>6, <1>7
(* The order of the names *)

\* The zeros in front of a number's digits.
Padding(s) ==
  IF Len(Store!Digits[s]) >= Width THEN 0 ELSE Width - Len(Store!Digits[s])

LEMMA NameElements ==
  ASSUME Width \in Nat, NEW s \in Nat
  PROVE  /\ Store!Name(s) \in Seq(0..9) /\ Padding(s) \in Nat
         /\ Len(Store!Name(s)) = Padding(s) + Len(Store!Digits[s])
         /\ \A i \in 1..Padding(s) : Store!Name(s)[i] = 0
         /\ \A i \in 1..Len(Store!Digits[s]) :
              Store!Name(s)[Padding(s) + i] = Store!Digits[s][i]
<1> DEFINE d == Store!Digits[s]
           p == Padding(s)
           z == [i \in 1..p |-> 0]
<1>1. d \in Seq(0..9) /\ Len(d) \in Nat /\ Len(d) >= 1
  BY DigitsType
<1>2. p \in Nat
  BY <1>1 DEF Padding
<1>3. CASE Len(d) >= Width
  <2>1. Store!Name(s) = d /\ p = 0
    BY <1>3 DEF Store!Name, Padding
  <2> HIDE DEF d, p
  <2>2. \A i \in 1..Len(d) : p + i = i
    BY <2>1
  <2>3. QED
    BY <1>1, <2>1, <2>2 DEF d, p
<1>4. CASE ~(Len(d) >= Width)
  <2>1. Store!Name(s) = z \o d
    BY <1>4 DEF Store!Name, Padding
  <2> HIDE DEF d, p
  <2>2. z \in Seq(0..9) /\ Len(z) = p /\ \A i \in 1..p : z[i] = 0
    BY <1>2
  <2> HIDE DEF z
  <2>3. /\ z \o d \in Seq(0..9) /\ Len(z \o d) = p + Len(d)
        /\ \A i \in 1..p : (z \o d)[i] = z[i]
        /\ \A i \in 1..Len(d) : (z \o d)[p + i] = d[i]
    BY <1>1, <1>2, <2>2
  <2>4. QED
    BY <1>2, <2>1, <2>2, <2>3 DEF d, p
<1>5. QED
  BY <1>3, <1>4

\* The first place where x differs from y is i, and x is over there or has less.
FirstLess(x, y, i) ==
  /\ i \in 1..Len(y) /\ \A j \in 1..(i - 1) : j <= Len(x) /\ x[j] = y[j]
  /\ i = Len(x) + 1 \/ (i <= Len(x) /\ x[i] < y[i])

LEMMA BeforeIsFirstLess ==
  ASSUME Width \in Nat, NEW a \in Nat, NEW b \in Nat
  PROVE  Store!NameBefore(a, b) <=>
           \E i \in 1..Len(Store!Name(b)) : FirstLess(Store!Name(a), Store!Name(b), i)
<1> DEFINE x == Store!Name(a)
           y == Store!Name(b)
<1>1. x \in Seq(0..9) /\ y \in Seq(0..9)
  BY NameElements
<1>2. IsStrictPrefix(x, y) <=>
        x # y /\ Len(x) <= Len(y) /\ \A i \in 1..Len(x) : x[i] = y[i]
  <2> HIDE DEF x, y
  <2>1. QED
    BY <1>1, PrefixElements DEF IsStrictPrefix
<1>3. Store!NameBefore(a, b) <=>
        \/ IsStrictPrefix(x, y)
        \/ \E i \in DOMAIN x \intersect DOMAIN y :
             x[i] < y[i] /\ \A j \in 1..(i - 1) : x[j] = y[j]
  BY DEF Store!NameBefore, Store!IsStrictPrefix, IsStrictPrefix, Store!IsPrefix, IsPrefix
<1> HIDE DEF x, y
<1>4. /\ Len(x) \in Nat /\ Len(y) \in Nat
      /\ DOMAIN x = 1..Len(x) /\ DOMAIN y = 1..Len(y)
  BY <1>1
<1>5. ASSUME IsStrictPrefix(x, y)
      PROVE  \E i \in 1..Len(y) : FirstLess(x, y, i)
  <2>1. Len(x) # Len(y)
    <3>1. SUFFICES ASSUME Len(x) = Len(y) PROVE FALSE
      OBVIOUS
    <3>2. x = y
      BY <1>1, <1>2, <1>5, <3>1
    <3>3. QED
      BY <1>2, <1>5, <3>2
  <2>2. Len(x) + 1 \in 1..Len(y)
    <3>1. Len(x) <= Len(y)
      BY <1>2, <1>5
    <3>2. Len(x) \in Nat /\ Len(y) \in Nat
      BY <1>4
    <3>3. QED
      BY <2>1, <3>1, <3>2
  <2>3. FirstLess(x, y, Len(x) + 1)
    BY <1>2, <1>4, <1>5, <2>2 DEF FirstLess
  <2>4. QED
    BY <2>2, <2>3
<1>6. ASSUME NEW i \in DOMAIN x \intersect DOMAIN y,
             x[i] < y[i], \A j \in 1..(i - 1) : x[j] = y[j]
      PROVE  \E k \in 1..Len(y) : FirstLess(x, y, k)
  BY <1>4, <1>6 DEF FirstLess
<1>7. ASSUME NEW i \in 1..Len(y), FirstLess(x, y, i)
      PROVE  Store!NameBefore(a, b)
  <2>1. CASE i = Len(x) + 1
    <3>1. Len(x) \in Nat /\ Len(y) \in Nat
      BY <1>4
    <3>2. Len(x) < Len(y)
      BY <1>7, <2>1, <3>1
    <3>3. 1..(i - 1) = 1..Len(x)
      BY <2>1, <3>1
    <3>4. \A j \in 1..Len(x) : x[j] = y[j]
      BY <1>7, <3>3 DEF FirstLess
    <3>5. Len(x) <= Len(y) /\ x # y
      BY <3>1, <3>2
    <3>6. QED
      BY <1>2, <1>3, <3>4, <3>5
  <2>2. CASE i <= Len(x) /\ x[i] < y[i]
    <3>1. i \in DOMAIN x \intersect DOMAIN y /\ \A j \in 1..(i - 1) : x[j] = y[j]
      BY <1>4, <1>7, <2>2 DEF FirstLess
    <3>2. QED
      BY <1>3, <2>2, <3>1
  <2>3. QED
    BY <1>7, <2>1, <2>2 DEF FirstLess
<1>8. QED
  BY <1>3, <1>5, <1>6, <1>7 DEF x, y

\* Two numbers have two names, and between two names that fit the field (Width) the
\* smaller number's is first.
LEMMA NamesDiffer ==
  ASSUME Width \in Nat, NEW a \in Nat, NEW b \in Nat, a < b
  PROVE  /\ Store!Name(a) # Store!Name(b)
         /\ Len(Store!Digits[b]) <= Width => Store!NameBefore(a, b)
<1> DEFINE x == Store!Name(a)
           y == Store!Name(b)
           d == Store!Digits[a]
           e == Store!Digits[b]
           p == Padding(a)
           q == Padding(b)
<1>1. /\ d \in Seq(0..9) /\ Len(d) >= 1 /\ e \in Seq(0..9) /\ Len(e) >= 1 /\ e[1] > 0
  BY DigitsType
<1>2. Len(d) <= Len(e) /\ (Len(d) = Len(e) => Smaller(d, e))
  BY DigitsAscend
<1>3. /\ x \in Seq(0..9) /\ p \in Nat /\ Len(x) = p + Len(d)
      /\ \A i \in 1..p : x[i] = 0
      /\ \A i \in 1..Len(d) : x[p + i] = d[i]
  BY NameElements
<1>4. /\ y \in Seq(0..9) /\ q \in Nat /\ Len(y) = q + Len(e)
      /\ \A i \in 1..q : y[i] = 0
      /\ \A i \in 1..Len(e) : y[q + i] = e[i]
  BY NameElements
<1>5. /\ p = IF Len(d) >= Width THEN 0 ELSE Width - Len(d)
      /\ q = IF Len(e) >= Width THEN 0 ELSE Width - Len(e)
  BY DEF Padding
<1>6. Store!NameBefore(a, b) <=> \E i \in 1..Len(y) : FirstLess(x, y, i)
  BY BeforeIsFirstLess
<1> HIDE DEF x, y, d, e, p, q
<1>7. CASE Len(d) = Len(e)
  <2>1. PICK i \in 1..Len(d) : d[i] < e[i] /\ \A j \in 1..(i - 1) : d[j] = e[j]
    BY <1>2, <1>7 DEF Smaller
  <2>2. p = q /\ Len(x) = Len(y) /\ p + i \in 1..Len(y) /\ Len(x) \in Nat
    BY <1>1, <1>3, <1>4, <1>5, <1>7, <2>1
  <2>3. x[p + i] < y[p + i]
    BY <1>3, <1>4, <1>7, <2>1, <2>2
  <2>4. ASSUME NEW j \in 1..(p + i - 1)
        PROVE  x[j] = y[j]
    <3>1. CASE j <= p
      BY <1>3, <1>4, <2>2, <3>1
    <3>2. CASE j > p
      <4>1. j - p \in 1..(i - 1) /\ j - p \in 1..Len(d) /\ p + (j - p) = j
        BY <1>1, <1>3, <2>1, <2>4, <3>2
      <4>2. QED
        BY <1>3, <1>4, <1>7, <2>1, <2>2, <4>1
    <3>3. QED
      BY <1>3, <3>1, <3>2
  <2>5. FirstLess(x, y, p + i)
    BY <1>3, <2>1, <2>2, <2>3, <2>4 DEF FirstLess
  <2>6. x # y
    <3>1. x[p + i] = d[i] /\ d[i] \in 0..9
      BY <1>1, <1>3, <2>1
    <3>2. QED
      BY <2>3, <3>1
  <2>7. QED
    BY <1>6, <2>2, <2>5, <2>6 DEF x, y
<1>8. CASE Len(d) < Len(e) /\ Len(e) <= Width
  <2>1. q + 1 <= p /\ q + 1 \in 1..Len(y) /\ q + 1 <= Len(x)
    BY <1>1, <1>3, <1>4, <1>5, <1>8
  <2>2. x[q + 1] = 0 /\ y[q + 1] = e[1] /\ e[1] > 0
    BY <1>1, <1>3, <1>4, <2>1
  <2>3. \A j \in 1..q : x[j] = y[j]
    BY <1>3, <1>4, <2>1
  <2>4. FirstLess(x, y, q + 1)
    BY <1>3, <1>4, <2>1, <2>2, <2>3 DEF FirstLess
  <2>5. x # y
    BY <2>2
  <2>6. QED
    BY <1>6, <2>1, <2>4, <2>5 DEF x, y
<1>9. CASE Len(d) < Len(e) /\ ~(Len(e) <= Width)
  <2>1. Len(x) # Len(y)
    BY <1>1, <1>3, <1>4, <1>5, <1>9
  <2>2. QED
    BY <1>9, <2>1 DEF x, y, e
<1>10. QED
  BY <1>1, <1>2, <1>7, <1>8, <1>9

LEMMA FirstLessTransitive ==
  ASSUME NEW x \in Seq(0..9), NEW y \in Seq(0..9), NEW z \in Seq(0..9),
         NEW i \in 1..Len(y), FirstLess(x, y, i), NEW k \in 1..Len(z), FirstLess(y, z, k)
  PROVE  \E m \in 1..Len(z) : FirstLess(x, z, m)
<1>1. Len(x) \in Nat /\ Len(y) \in Nat /\ Len(z) \in Nat /\ i \in Nat /\ k \in Nat
  OBVIOUS
<1>2. /\ \A j \in 1..(i - 1) : j <= Len(x) /\ x[j] = y[j]
      /\ \A j \in 1..(k - 1) : j <= Len(y) /\ y[j] = z[j]
      /\ i = Len(x) + 1 \/ (i <= Len(x) /\ x[i] < y[i])
      /\ k = Len(y) + 1 \/ (k <= Len(y) /\ y[k] < z[k])
  BY DEF FirstLess
<1>3. /\ \A j \in 1..Len(x) : x[j] \in Int
      /\ \A j \in 1..Len(y) : y[j] \in Int
      /\ \A j \in 1..Len(z) : z[j] \in Int
  OBVIOUS
<1>4. CASE i <= k
  <2>1. i \in 1..Len(z)
    BY <1>1, <1>4
  <2>2. \A j \in 1..(i - 1) : j <= Len(x) /\ x[j] = z[j]
    BY <1>1, <1>2, <1>4
  <2>3. i = Len(x) + 1 \/ (i <= Len(x) /\ x[i] < z[i])
    <3>1. SUFFICES ASSUME i # Len(x) + 1 PROVE i <= Len(x) /\ x[i] < z[i]
      OBVIOUS
    <3>2. i <= Len(x) /\ x[i] < y[i]
      BY <1>2, <3>1
    <3>3. i \in 1..Len(x) /\ i \in 1..Len(y) /\ i \in 1..Len(z)
      BY <1>1, <2>1, <3>2
    <3>4. x[i] \in Int /\ y[i] \in Int /\ z[i] \in Int
      BY <1>3, <3>3
    <3>5. y[i] <= z[i]
      BY <1>1, <1>2, <1>4, <3>3, <3>4
    <3>6. QED
      BY <3>2, <3>4, <3>5
  <2>4. QED
    BY <2>1, <2>2, <2>3 DEF FirstLess
<1>5. CASE k < i
  <2>1. \A j \in 1..(k - 1) : j <= Len(x) /\ x[j] = z[j]
    BY <1>1, <1>2, <1>5
  <2>2. k <= Len(x) /\ x[k] = y[k] /\ y[k] < z[k]
    BY <1>1, <1>2, <1>5
  <2>3. FirstLess(x, z, k)
    BY <2>1, <2>2 DEF FirstLess
  <2>4. QED
    BY <2>3
<1>6. QED
  BY <1>1, <1>4, <1>5

LEMMA FirstLessTotal ==
  ASSUME NEW x \in Seq(0..9), NEW y \in Seq(0..9), x # y
  PROVE  \/ \E i \in 1..Len(y) : FirstLess(x, y, i)
         \/ \E i \in 1..Len(x) : FirstLess(y, x, i)
<1> DEFINE B == {i \in 0..(Len(x) + 1) :
                   i > 0 /\ ~(i <= Len(x) /\ i <= Len(y) /\ x[i] = y[i])}
<1>1. Len(x) \in Nat /\ Len(y) \in Nat
  OBVIOUS
<1>2. Len(x) + 1 \in B /\ B \subseteq 0..(Len(x) + 1)
  BY <1>1
<1>3. PICK i \in B : \A k \in B : i <= k
  <2> HIDE DEF B
  <2>1. Len(x) + 1 \in Nat /\ B # {}
    BY <1>1, <1>2
  <2>2. QED
    BY <1>2, <2>1, LeastNumber
<1>4. /\ i \in Nat /\ i > 0 /\ i <= Len(x) + 1
      /\ ~(i <= Len(x) /\ i <= Len(y) /\ x[i] = y[i])
  BY <1>1
<1>5. ASSUME NEW j \in 1..(i - 1)
      PROVE  j <= Len(x) /\ j <= Len(y) /\ x[j] = y[j]
  <2>1. j \in 0..(Len(x) + 1) /\ j > 0 /\ j < i
    BY <1>1, <1>4
  <2>2. j \notin B
    BY <1>3, <1>4, <2>1
  <2>3. QED
    BY <2>1, <2>2
<1> HIDE DEF B
<1>6. i - 1 <= Len(x) /\ i - 1 <= Len(y)
  <2>1. CASE i = 1
    BY <1>1, <2>1
  <2>2. CASE i # 1
    <3>1. i - 1 \in 1..(i - 1)
      BY <1>4, <2>2
    <3>2. QED
      BY <1>5, <3>1
  <2>3. QED
    BY <2>1, <2>2
<1>7. CASE i <= Len(x) /\ i <= Len(y)
  <2>1. i \in 1..Len(x) /\ i \in 1..Len(y)
    BY <1>1, <1>4, <1>7
  <2>2. x[i] \in Int /\ y[i] \in Int /\ x[i] # y[i]
    BY <1>4, <1>7, <2>1
  <2>3. x[i] < y[i] \/ y[i] < x[i]
    BY <2>2
  <2>4. FirstLess(x, y, i) \/ FirstLess(y, x, i)
    BY <1>5, <1>7, <2>1, <2>3 DEF FirstLess
  <2>5. QED
    BY <2>1, <2>4
<1>8. CASE i > Len(x) /\ i <= Len(y)
  <2>1. i = Len(x) + 1 /\ i \in 1..Len(y)
    BY <1>1, <1>4, <1>8
  <2>2. FirstLess(x, y, i)
    BY <1>5, <2>1 DEF FirstLess
  <2>3. QED
    BY <2>1, <2>2
<1>9. CASE i <= Len(x) /\ i > Len(y)
  <2>1. i = Len(y) + 1 /\ i \in 1..Len(x)
    BY <1>1, <1>4, <1>6, <1>9
  <2>2. FirstLess(y, x, i)
    BY <1>5, <2>1 DEF FirstLess
  <2>3. QED
    BY <2>1, <2>2
<1>10. CASE i > Len(x) /\ i > Len(y)
  <2>1. Len(x) = i - 1 /\ Len(y) = i - 1
    BY <1>1, <1>4, <1>6, <1>10
  <2>2. x = y
    BY <1>5, <2>1
  <2>3. QED
    BY <2>2
<1>11. QED
  BY <1>1, <1>4, <1>7, <1>8, <1>9, <1>10

\* sorted puts the names of any numbers in one order.
LEMMA NamesAreOrdered ==
  ASSUME Width \in Nat
  PROVE  /\ \A a \in Nat : ~Store!NameBefore(a, a)
         /\ \A a, b, c \in Nat :
              Store!NameBefore(a, b) /\ Store!NameBefore(b, c) => Store!NameBefore(a, c)
         /\ \A a, b \in Nat : a # b => Store!NameBefore(a, b) \/ Store!NameBefore(b, a)
<1>1. \A a \in Nat : Store!Name(a) \in Seq(0..9)
  BY NameElements
<1>2. ASSUME NEW a \in Nat PROVE ~Store!NameBefore(a, a)
  <2> DEFINE x == Store!Name(a)
  <2>1. x \in Seq(0..9)
    BY <1>1
  <2>2. Store!NameBefore(a, a) => \E i \in 1..Len(x) : FirstLess(x, x, i)
    BY BeforeIsFirstLess
  <2> HIDE DEF x
  <2>3. \A i \in 1..Len(x) : x[i] \in Int /\ i # Len(x) + 1
    BY <2>1
  <2>4. QED
    BY <2>1, <2>2, <2>3 DEF FirstLess
<1>3. ASSUME NEW a \in Nat, NEW b \in Nat, NEW c \in Nat,
             Store!NameBefore(a, b), Store!NameBefore(b, c)
      PROVE  Store!NameBefore(a, c)
  <2> DEFINE x == Store!Name(a)
             y == Store!Name(b)
             z == Store!Name(c)
  <2>1. x \in Seq(0..9) /\ y \in Seq(0..9) /\ z \in Seq(0..9)
    BY <1>1
  <2>2. /\ \E i \in 1..Len(y) : FirstLess(x, y, i)
        /\ \E i \in 1..Len(z) : FirstLess(y, z, i)
        /\ (\E i \in 1..Len(z) : FirstLess(x, z, i)) => Store!NameBefore(a, c)
    BY <1>3, BeforeIsFirstLess
  <2> HIDE DEF x, y, z
  <2>3. QED
    BY <2>1, <2>2, FirstLessTransitive
<1>4. ASSUME NEW a \in Nat, NEW b \in Nat, a # b
      PROVE  Store!NameBefore(a, b) \/ Store!NameBefore(b, a)
  <2> DEFINE x == Store!Name(a)
             y == Store!Name(b)
  <2>1. x \in Seq(0..9) /\ y \in Seq(0..9)
    BY <1>1
  <2>2. x # y
    BY <1>4, NamesDiffer
  <2>3. /\ (\E i \in 1..Len(y) : FirstLess(x, y, i)) => Store!NameBefore(a, b)
        /\ (\E i \in 1..Len(x) : FirstLess(y, x, i)) => Store!NameBefore(b, a)
    BY BeforeIsFirstLess
  <2> HIDE DEF x, y
  <2>4. QED
    BY <2>1, <2>2, <2>3, FirstLessTotal
<1>5. QED
  BY <1>2, <1>3, <1>4

(* The listing *)

LEMMA PlaceInListing ==
  ASSUME Width \in Nat, NEW S, S \subseteq Nat, IsFiniteSet(S)
  PROVE  /\ \A f \in S : Store!Place(f, S) \in 1..Cardinality(S)
         /\ \A f, g \in S : Store!NameBefore(f, g) => Store!Place(f, S) < Store!Place(g, S)
<1> DEFINE U(f) == {g \in S : g = f \/ Store!NameBefore(g, f)}
<1>1. ASSUME NEW f \in S
      PROVE  /\ Store!Place(f, S) = Cardinality(U(f)) /\ IsFiniteSet(U(f))
             /\ Cardinality(U(f)) \in 1..Cardinality(S)
  <2>1. f \in U(f) /\ U(f) \subseteq S
    OBVIOUS
  <2>2. Store!Place(f, S) = Cardinality(U(f))
    BY SameCount DEF Store!Place
  <2> HIDE DEF U
  <2>3. IsFiniteSet(U(f)) /\ Cardinality(U(f)) <= Cardinality(S)
    BY <2>1, FS_Subset
  <2>4. Cardinality(U(f)) \in Nat /\ Cardinality(S) \in Nat /\ Cardinality(U(f)) # 0
    BY <2>1, <2>3, FS_CardinalityType, FS_EmptySet
  <2>5. QED
    BY <2>2, <2>3, <2>4
<1>2. ASSUME NEW f \in S, NEW g \in S, Store!NameBefore(f, g)
      PROVE  Store!Place(f, S) < Store!Place(g, S)
  <2>1. f \in Nat /\ g \in Nat
    OBVIOUS
  <2>2. ~Store!NameBefore(g, f) /\ g # f
    BY <1>2, <2>1, NamesAreOrdered
  <2>3. ASSUME NEW h \in U(f) PROVE h \in U(g)
    <3>1. h \in S /\ h \in Nat /\ (h = f \/ Store!NameBefore(h, f))
      OBVIOUS
    <3>2. Store!NameBefore(h, g)
      BY <1>2, <2>1, <3>1, NamesAreOrdered
    <3>3. QED
      BY <3>1, <3>2
  <2>4. g \in U(g) /\ g \notin U(f)
    BY <2>2
  <2> HIDE DEF U
  <2>5. U(f) \subseteq U(g) /\ U(f) # U(g)
    BY <2>3, <2>4
  <2>6. Cardinality(U(f)) <= Cardinality(U(g)) /\ Cardinality(U(f)) # Cardinality(U(g))
    BY <1>1, <2>5, FS_Subset
  <2>7. QED
    BY <1>1, <2>6
<1>3. QED
  BY <1>1, <1>2

\* The listing has each file once, in the order of the names.
LEMMA SortedLists ==
  ASSUME Width \in Nat, NEW S, S \subseteq Nat, IsFiniteSet(S)
  PROVE  /\ Cardinality(S) \in Nat
         /\ Store!Sorted(S) \in [1..Cardinality(S) -> S]
         /\ \A f \in S : \E i \in 1..Cardinality(S) : Store!Sorted(S)[i] = f
         /\ \A i, j \in 1..Cardinality(S) :
              i < j => Store!NameBefore(Store!Sorted(S)[i], Store!Sorted(S)[j])
<1> DEFINE n == Cardinality(S)
           P(f) == Store!Place(f, S)
           p == [f \in S |-> P(f)]
           s == Store!Sorted(S)
<1>1. n \in Nat
  BY FS_CardinalityType
<1>2. /\ \A f \in S : P(f) \in 1..n
      /\ \A f, g \in S : Store!NameBefore(f, g) => P(f) < P(g)
  BY PlaceInListing
<1>3. ASSUME NEW f \in S, NEW g \in S, P(f) = P(g)
      PROVE  f = g
  <2>1. SUFFICES ASSUME f # g PROVE FALSE
    OBVIOUS
  <2>2. f \in Nat /\ g \in Nat
    OBVIOUS
  <2>3. Store!NameBefore(f, g) \/ Store!NameBefore(g, f)
    BY <2>1, <2>2, NamesAreOrdered
  <2> HIDE DEF P
  <2>4. P(f) < P(g) \/ P(g) < P(f)
    BY <1>2, <2>3
  <2>5. P(f) \in Int
    BY <1>1, <1>2
  <2>6. QED
    BY <1>3, <2>4, <2>5
<1>4. p \in Surjection(S, 1..n)
  <2> HIDE DEF P
  <2>1. p \in Injection(S, 1..n)
    BY <1>2, <1>3 DEF Injection, IsInjective
  <2>2. IsFiniteSet(1..n) /\ Cardinality(1..n) = n
    BY <1>1, FS_Interval
  <2> HIDE DEF p
  <2>3. QED
    BY <2>1, <2>2, FS_Injection
<1>5. \A i \in 1..n : \E f \in S : P(f) = i
  <2> HIDE DEF P
  <2>1. QED
    BY <1>4 DEF Surjection
<1>6. s = [i \in 1..n |-> CHOOSE f \in S : P(f) = i]
  BY SameCount DEF Store!Sorted
<1> HIDE DEF P, s
<1>7. \A i \in 1..n : s[i] \in S /\ P(s[i]) = i
  BY <1>5, <1>6
<1>8. s \in [1..n -> S]
  BY <1>6, <1>7
<1>9. ASSUME NEW f \in S
      PROVE  \E i \in 1..n : s[i] = f
  <2>1. P(f) \in 1..n
    BY <1>2
  <2>2. s[P(f)] = f
    BY <1>3, <1>7, <2>1
  <2>3. QED
    BY <2>1, <2>2
<1>10. ASSUME NEW i \in 1..n, NEW j \in 1..n, i < j
       PROVE  Store!NameBefore(s[i], s[j])
  <2>1. s[i] \in S /\ s[j] \in S /\ P(s[i]) = i /\ P(s[j]) = j
    BY <1>7
  <2>2. s[i] \in Nat /\ s[j] \in Nat /\ s[i] # s[j]
    <3>1. i # j
      BY <1>10
    <3>2. QED
      BY <2>1, <3>1
  <2>3. Store!NameBefore(s[i], s[j]) \/ Store!NameBefore(s[j], s[i])
    BY <2>2, NamesAreOrdered
  <2>4. ~Store!NameBefore(s[j], s[i])
    <3>1. SUFFICES ASSUME Store!NameBefore(s[j], s[i]) PROVE FALSE
      OBVIOUS
    <3>2. P(s[j]) < P(s[i])
      BY <1>2, <2>1, <3>1
    <3>3. j < i /\ i \in Int /\ j \in Int
      BY <2>1, <3>2
    <3>4. QED
      BY <1>10, <3>3
  <2>5. QED
    BY <2>3, <2>4
<1>11. QED
  BY <1>1, <1>8, <1>9, <1>10 DEF s

(* The inductive invariant *)

Checkpoint == [seq : 1..MaxSeq, memory : Nat \X Nat]

\* A stored checkpoint belongs to a message.
LEMMA CheckpointSeq ==
  ASSUME NEW s \in Seq(Checkpoint), NEW i \in 1..Len(s)
  PROVE  s[i].seq \in 1..MaxSeq
<1>1. s[i] \in Checkpoint
  OBVIOUS
<1>2. QED
  BY <1>1 DEF Checkpoint

StoreTypes ==
  /\ run \in 0..MaxCrashes /\ up \in BOOLEAN /\ loaded \in BOOLEAN /\ interval \in Intervals
  /\ seq \in 0..MaxSeq /\ saving \in 0..MaxSeq /\ last_checkpoint_seq \in 0..MaxSeq
  /\ checkpoints \in Seq(Checkpoint) /\ checkpoint_count = Len(checkpoints)
  /\ DOMAIN disk \subseteq 1..MaxSeq
  /\ \A f \in DOMAIN disk : disk[f].whole \in BOOLEAN

\* A memory of number s, of a run that came that far.
MadeBy(memory, s) ==
  \E r \in 0..run : memory = <<r, s>> /\ (r = run => up /\ s <= seq)

FilesMade == \A f \in DOMAIN disk : disk[f].whole => MadeBy(disk[f].memory, f)
ListMade ==
  \A i \in 1..Len(checkpoints) : MadeBy(checkpoints[i].memory, checkpoints[i].seq)

\* While a file is written, its checkpoint is the last in the list.
Writes ==
  saving # 0 =>
    /\ up /\ saving = seq /\ checkpoints # <<>>
    /\ checkpoints[Len(checkpoints)] = [seq |-> saving, memory |-> <<run, saving>>]
    /\ saving \in DOMAIN disk /\ ~disk[saving].whole

\* This run's checkpoints are in their files.
OwnSaved ==
  \A i \in 1..Len(checkpoints) :
    checkpoints[i].memory[1] = run /\ checkpoints[i].seq # saving =>
      /\ checkpoints[i].seq \in DOMAIN disk /\ disk[checkpoints[i].seq].whole
      /\ disk[checkpoints[i].seq].memory = checkpoints[i].memory

Unreadable == {f \in DOMAIN disk : ~disk[f].whole}
FewUnreadable == Cardinality(Unreadable) <= run + (IF saving # 0 THEN 1 ELSE 0)

NothingYet == up /\ seq = 0 /\ ~loaded => checkpoints = <<>> /\ last_checkpoint_seq = 0
LastIsStored ==
  checkpoints # <<>> => \E i \in 1..Len(checkpoints) : checkpoints[i].seq = last_checkpoint_seq

StoreInv ==
  /\ StoreTypes /\ FilesMade /\ ListMade /\ Writes /\ OwnSaved
  /\ FewUnreadable /\ NothingYet /\ LastIsStored

LEMMA UnreadableFinite ==
  ASSUME Store!StoreAssumption, StoreTypes
  PROVE  IsFiniteSet(Unreadable) /\ Cardinality(Unreadable) \in Nat
<1>1. IsFiniteSet(1..MaxSeq)
  BY FS_Interval DEF Store!StoreAssumption
<1>2. Unreadable \subseteq 1..MaxSeq
  BY DEF Unreadable, StoreTypes
<1>3. QED
  BY <1>1, <1>2, FS_Subset, FS_CardinalityType

LEMMA StoreInit ==
  ASSUME Store!StoreAssumption, Store!Init
  PROVE  StoreInv
<1>1. disk = <<>> /\ checkpoints = <<>> /\ run = 0 /\ seq = 0 /\ saving = 0
      /\ last_checkpoint_seq = 0 /\ checkpoint_count = 0
      /\ up = TRUE /\ loaded = FALSE /\ interval \in Intervals
  BY DEF Store!Init
<1>2. DOMAIN disk = {} /\ Len(checkpoints) = 0 /\ checkpoints \in Seq(Checkpoint)
  BY <1>1
<1>3. Unreadable = {}
  BY <1>2 DEF Unreadable
<1>4. StoreTypes
  <2>1. 0 \in 0..MaxSeq /\ 0 \in 0..MaxCrashes
    BY DEF Store!StoreAssumption
  <2>2. QED
    BY <1>1, <1>2, <2>1 DEF StoreTypes
<1>5. FewUnreadable
  BY <1>1, <1>3, FS_EmptySet DEF FewUnreadable
<1>6. FilesMade /\ ListMade /\ Writes /\ OwnSaved /\ NothingYet /\ LastIsStored
  BY <1>1, <1>2 DEF FilesMade, ListMade, Writes, OwnSaved, NothingYet, LastIsStored
<1>7. QED
  BY <1>4, <1>5, <1>6 DEF StoreInv

LEMMA MessageKeepsStore ==
  ASSUME Store!StoreAssumption, StoreInv, Store!Message
  PROVE  StoreInv'
<1>1. /\ up /\ saving = 0 /\ seq < MaxSeq /\ seq' = seq + 1
      /\ run' = run /\ up' = up /\ loaded' = loaded /\ saving' = saving /\ disk' = disk
      /\ interval' = interval /\ checkpoints' = checkpoints
      /\ checkpoint_count' = checkpoint_count /\ last_checkpoint_seq' = last_checkpoint_seq
  BY DEF Store!Message, Store!manager
<1>2. seq \in Nat /\ MaxSeq \in Nat
  BY DEF StoreInv, StoreTypes, Store!StoreAssumption
<1>3. StoreTypes'
  BY <1>1, <1>2 DEF StoreInv, StoreTypes
<1>4. ASSUME NEW m, NEW s \in 1..MaxSeq, MadeBy(m, s)
      PROVE  MadeBy(m, s)'
  BY <1>1, <1>2, <1>4 DEF MadeBy
<1>5. FilesMade'
  <2>1. \A f \in DOMAIN disk : f \in 1..MaxSeq
    BY DEF StoreInv, StoreTypes
  <2>2. QED
    BY <1>1, <1>4, <2>1 DEF StoreInv, FilesMade, MadeBy
<1>6. ListMade'
  <2>1. \A i \in 1..Len(checkpoints) : checkpoints[i].seq \in 1..MaxSeq
    BY CheckpointSeq DEF StoreInv, StoreTypes
  <2>2. QED
    BY <1>1, <1>4, <2>1 DEF StoreInv, ListMade, MadeBy
<1>7. Writes' /\ NothingYet'
  BY <1>1, <1>2 DEF Writes, NothingYet
<1>8. OwnSaved' /\ LastIsStored' /\ FewUnreadable'
  BY <1>1 DEF StoreInv, OwnSaved, LastIsStored, FewUnreadable, Unreadable
<1>9. QED
  BY <1>3, <1>5, <1>6, <1>7, <1>8 DEF StoreInv

LEMMA CreateKeepsStore ==
  ASSUME Store!StoreAssumption, StoreInv, Store!create_checkpoint
  PROVE  StoreInv'
<1> DEFINE n == seq + 1
           new == [seq |-> n, memory |-> <<run, n>>]
           k == Len(checkpoints)
<1>1. /\ up /\ saving = 0 /\ seq < MaxSeq /\ seq' = n
      /\ checkpoints' = Append(checkpoints, new) /\ checkpoint_count' = checkpoint_count + 1
      /\ last_checkpoint_seq' = n /\ saving' = n
      /\ disk' = [f \in DOMAIN disk \union {n} |->
                    IF f = n THEN [whole |-> FALSE, memory |-> <<>>] ELSE disk[f]]
      /\ run' = run /\ up' = up /\ loaded' = loaded /\ interval' = interval
  BY DEF Store!create_checkpoint, Store!Memory
<1>2. seq \in Nat /\ MaxSeq \in Nat /\ n \in 1..MaxSeq /\ run \in Nat /\ n > seq
  BY <1>1 DEF StoreInv, StoreTypes, Store!StoreAssumption
<1> HIDE DEF n
<1>3. new \in Checkpoint /\ new.seq = n /\ new.memory = <<run, n>>
  BY <1>2 DEF Checkpoint
<1>4. checkpoints \in Seq(Checkpoint) /\ k \in Nat /\ checkpoint_count = k
  BY DEF StoreInv, StoreTypes
<1> HIDE DEF new
<1>5. /\ checkpoints' \in Seq(Checkpoint) /\ Len(checkpoints') = k + 1
      /\ checkpoints'[k + 1] = new /\ \A i \in 1..k : checkpoints'[i] = checkpoints[i]
  BY <1>1, <1>3, <1>4, OneMoreElement
<1>6. /\ DOMAIN disk' = DOMAIN disk \union {n}
      /\ disk'[n] = [whole |-> FALSE, memory |-> <<>>]
      /\ \A f \in DOMAIN disk \ {n} : disk'[f] = disk[f]
  BY <1>1
<1>7. /\ DOMAIN disk \subseteq 1..MaxSeq /\ \A f \in DOMAIN disk : disk[f].whole \in BOOLEAN
      /\ FilesMade /\ ListMade /\ OwnSaved /\ FewUnreadable
      /\ run \in 0..MaxCrashes /\ loaded \in BOOLEAN /\ interval \in Intervals
      /\ up \in BOOLEAN
  BY DEF StoreInv, StoreTypes
<1> HIDE DEF k
<1>8. StoreTypes'
  <2>1. \A f \in DOMAIN disk' : disk'[f].whole \in BOOLEAN
    <3>1. \A f \in DOMAIN disk \ {n} : disk'[f].whole \in BOOLEAN
      BY <1>6, <1>7
    <3>2. disk'[n].whole \in BOOLEAN
      BY <1>6
    <3>3. QED
      BY <1>6, <3>1, <3>2
  <2>2. DOMAIN disk' \subseteq 1..MaxSeq
    BY <1>2, <1>6, <1>7
  <2>3. n \in 0..MaxSeq
    BY <1>2
  <2>4. checkpoint_count' = Len(checkpoints')
    BY <1>1, <1>4, <1>5
  <2>5. QED
    BY <1>1, <1>5, <1>7, <2>1, <2>2, <2>3, <2>4 DEF StoreTypes
<1>9. ASSUME NEW m, NEW s \in 1..MaxSeq, MadeBy(m, s)
      PROVE  MadeBy(m, s)'
  BY <1>1, <1>2, <1>9 DEF MadeBy
<1>10. FilesMade'
  <2>1. ASSUME NEW f \in DOMAIN disk', disk'[f].whole
        PROVE  MadeBy(disk[f].memory, f)' /\ disk'[f].memory = disk[f].memory
    <3>1. f # n
      BY <1>6, <2>1
    <3>2. f \in DOMAIN disk /\ disk'[f] = disk[f] /\ f \in 1..MaxSeq
      BY <1>6, <1>7, <2>1, <3>1
    <3>3. MadeBy(disk[f].memory, f)
      BY <1>7, <2>1, <3>2 DEF FilesMade
    <3>4. PICK r \in 0..run : disk[f].memory = <<r, f>> /\ (r = run => up /\ f <= seq)
      BY <3>3 DEF MadeBy
    <3>5. disk'[f].memory = <<r, f>> /\ (r = run => up' /\ f <= seq')
      BY <1>1, <1>2, <3>2, <3>4
    <3>6. QED
      BY <1>1, <3>2, <3>4, <3>5 DEF MadeBy
  <2>2. QED
    BY <2>1 DEF FilesMade, MadeBy
<1>11. ListMade'
  <2>1. ASSUME NEW i \in 1..(k + 1)
        PROVE  \E r \in 0..run : /\ checkpoints'[i].memory = <<r, checkpoints'[i].seq>>
                                 /\ r = run => up /\ checkpoints'[i].seq <= n
    <3>1. CASE i = k + 1
      <4>1. checkpoints'[i].memory = <<run, n>> /\ checkpoints'[i].seq = n
        BY <1>3, <1>5, <3>1
      <4>2. QED
        BY <1>1, <1>2, <4>1
    <3>2. CASE i # k + 1
      <4>1. i \in 1..k /\ checkpoints'[i] = checkpoints[i]
        BY <1>4, <1>5, <3>2
      <4>2. PICK r \in 0..run : /\ checkpoints[i].memory = <<r, checkpoints[i].seq>>
                                /\ r = run => up /\ checkpoints[i].seq <= seq
        BY <1>7, <4>1 DEF ListMade, MadeBy, k
      <4>3. checkpoints[i].seq \in Nat
        BY <1>4, <4>1, CheckpointSeq DEF k
      <4>4. QED
        BY <1>2, <4>1, <4>2, <4>3
    <3>3. QED
      BY <3>1, <3>2
  <2>2. QED
    BY <1>1, <1>5, <2>1 DEF ListMade, MadeBy
<1>12. Writes'
  BY <1>1, <1>2, <1>4, <1>5, <1>6 DEF Writes, new
<1>13. OwnSaved'
  <2>1. ASSUME NEW i \in 1..(k + 1),
               checkpoints'[i].memory[1] = run, checkpoints'[i].seq # n
        PROVE  /\ checkpoints'[i].seq \in DOMAIN disk' /\ disk'[checkpoints'[i].seq].whole
               /\ disk'[checkpoints'[i].seq].memory = checkpoints'[i].memory
    <3>1. i # k + 1
      BY <1>3, <1>5, <2>1
    <3>2. i \in 1..k /\ checkpoints'[i] = checkpoints[i]
      BY <1>4, <1>5, <3>1
    <3>3. checkpoints[i].seq # 0
      BY <1>4, <3>2, CheckpointSeq DEF k
    <3>4. /\ checkpoints[i].seq \in DOMAIN disk /\ disk[checkpoints[i].seq].whole
          /\ disk[checkpoints[i].seq].memory = checkpoints[i].memory
      BY <1>1, <1>7, <2>1, <3>2, <3>3 DEF OwnSaved, k
    <3>5. QED
      BY <1>6, <2>1, <3>2, <3>4
  <2>2. QED
    BY <1>1, <1>5, <2>1 DEF OwnSaved
<1>14. FewUnreadable'
  <2>1. IsFiniteSet(Unreadable) /\ Cardinality(Unreadable) \in Nat
    BY UnreadableFinite DEF StoreInv
  <2>2. Unreadable' = Unreadable \union {n}
    BY <1>6 DEF Unreadable
  <2>3. Cardinality(Unreadable') <= Cardinality(Unreadable) + 1
    BY <2>1, <2>2, FS_AddElement
  <2>4. Cardinality(Unreadable) <= run
    BY <1>1, <1>7 DEF FewUnreadable
  <2>5. Cardinality(Unreadable') \in Nat
    BY <2>1, <2>2, FS_AddElement, FS_CardinalityType
  <2>6. Cardinality(Unreadable') <= run + 1
    BY <1>2, <2>1, <2>3, <2>4, <2>5
  <2>7. QED
    BY <1>1, <1>2, <2>6 DEF FewUnreadable
<1>15. NothingYet' /\ LastIsStored'
  <2>1. k + 1 \in 1..Len(checkpoints') /\ checkpoints'[k + 1].seq = n
    BY <1>3, <1>4, <1>5
  <2>2. QED
    BY <1>1, <1>2, <2>1 DEF NothingYet, LastIsStored
<1>16. QED
  BY <1>8, <1>10, <1>11, <1>12, <1>13, <1>14, <1>15 DEF StoreInv

LEMMA SavedKeepsStore ==
  ASSUME Store!StoreAssumption, StoreInv, Store!Saved
  PROVE  StoreInv'
<1> DEFINE k == Len(checkpoints)
           m == <<run, saving>>
<1>1. /\ up /\ saving # 0 /\ saving' = 0
      /\ disk' = [disk EXCEPT ![saving] = [whole |-> TRUE,
                                           memory |-> checkpoints[k].memory]]
      /\ run' = run /\ up' = up /\ loaded' = loaded /\ seq' = seq
      /\ interval' = interval /\ checkpoints' = checkpoints
      /\ checkpoint_count' = checkpoint_count /\ last_checkpoint_seq' = last_checkpoint_seq
  BY DEF Store!Saved, Store!manager, Store!Last
<1>2. /\ saving = seq /\ saving \in DOMAIN disk /\ ~disk[saving].whole
      /\ checkpoints[k] = [seq |-> saving, memory |-> m]
  BY <1>1 DEF StoreInv, Writes
<1>3. checkpoints[k].memory = m
  BY <1>2
<1> HIDE DEF k
<1>4. /\ DOMAIN disk' = DOMAIN disk
      /\ disk'[saving].whole = TRUE /\ disk'[saving].memory = m
      /\ \A f \in DOMAIN disk \ {saving} : disk'[f] = disk[f]
  BY <1>1, <1>2, <1>3
<1>5. /\ StoreTypes /\ FilesMade /\ ListMade /\ OwnSaved /\ FewUnreadable
      /\ NothingYet /\ LastIsStored
  BY DEF StoreInv
<1>6. StoreTypes'
  <2>1. \A f \in DOMAIN disk' : disk'[f].whole \in BOOLEAN
    <3>1. \A f \in DOMAIN disk \ {saving} : disk'[f].whole \in BOOLEAN
      BY <1>4, <1>5 DEF StoreTypes
    <3>2. QED
      BY <1>4, <3>1
  <2>2. saving' \in 0..MaxSeq
    BY <1>1 DEF Store!StoreAssumption
  <2>3. QED
    BY <1>1, <1>4, <1>5, <2>1, <2>2 DEF StoreTypes
<1>7. run \in Nat /\ seq \in Nat
  BY <1>5 DEF StoreTypes
<1>8. FilesMade'
  <2>1. ASSUME NEW f \in DOMAIN disk, disk'[f].whole
        PROVE  \E r \in 0..run : disk'[f].memory = <<r, f>> /\ (r = run => up /\ f <= seq)
    <3>1. CASE f = saving
      BY <1>1, <1>2, <1>4, <1>7, <3>1
    <3>2. CASE f # saving
      <4>1. disk'[f] = disk[f]
        BY <1>4, <3>2
      <4>2. QED
        BY <1>5, <2>1, <4>1 DEF FilesMade, MadeBy
    <3>3. QED
      BY <3>1, <3>2
  <2>2. QED
    BY <1>1, <1>4, <2>1 DEF FilesMade, MadeBy
<1>9. ListMade' /\ Writes' /\ NothingYet' /\ LastIsStored'
  BY <1>1, <1>5 DEF ListMade, MadeBy, Writes, NothingYet, LastIsStored
<1>10. OwnSaved'
  <2>1. ASSUME NEW i \in 1..Len(checkpoints), checkpoints[i].memory[1] = run
        PROVE  /\ checkpoints[i].seq \in DOMAIN disk' /\ disk'[checkpoints[i].seq].whole
               /\ disk'[checkpoints[i].seq].memory = checkpoints[i].memory
    <3>1. PICK r \in 0..run : checkpoints[i].memory = <<r, checkpoints[i].seq>>
      BY <1>5 DEF ListMade, MadeBy
    <3>2. CASE checkpoints[i].seq = saving
      <4>1. r = run
        BY <2>1, <3>1
      <4>2. checkpoints[i].memory = m
        BY <3>1, <3>2, <4>1
      <4>3. QED
        BY <1>2, <1>4, <3>2, <4>2
    <3>3. CASE checkpoints[i].seq # saving
      <4>1. /\ checkpoints[i].seq \in DOMAIN disk /\ disk[checkpoints[i].seq].whole
            /\ disk[checkpoints[i].seq].memory = checkpoints[i].memory
        BY <1>5, <2>1, <3>3 DEF OwnSaved
      <4>2. QED
        BY <1>4, <3>3, <4>1
    <3>4. QED
      BY <3>2, <3>3
  <2>2. QED
    BY <1>1, <2>1 DEF OwnSaved
<1>11. FewUnreadable'
  <2>1. IsFiniteSet(Unreadable) /\ Cardinality(Unreadable) \in Nat
    BY <1>5, UnreadableFinite
  <2>2. Unreadable' = Unreadable \ {saving} /\ saving \in Unreadable
    <3>1. \A f \in DOMAIN disk : f \in Unreadable' <=> f \in Unreadable /\ f # saving
      BY <1>4 DEF Unreadable
    <3>2. Unreadable' \subseteq DOMAIN disk /\ Unreadable \subseteq DOMAIN disk
      BY <1>4 DEF Unreadable
    <3>3. saving \in Unreadable
      BY <1>2 DEF Unreadable
    <3>4. QED
      BY <3>1, <3>2, <3>3
  <2>3. Cardinality(Unreadable') = Cardinality(Unreadable) - 1
    BY <2>1, <2>2, FS_RemoveElement
  <2>4. Cardinality(Unreadable) <= run + 1
    BY <1>1, <1>5 DEF FewUnreadable
  <2>5. Cardinality(Unreadable') <= run
    BY <1>7, <2>1, <2>3, <2>4
  <2>6. QED
    BY <1>1, <1>7, <2>5 DEF FewUnreadable
<1>12. QED
  BY <1>6, <1>8, <1>9, <1>10, <1>11 DEF StoreInv

LEMMA CrashKeepsStore ==
  ASSUME Store!StoreAssumption, StoreInv, Store!Crash
  PROVE  StoreInv'
<1>1. /\ up /\ run < MaxCrashes /\ up' = FALSE /\ saving' = 0 /\ run' = run + 1
      /\ loaded' = loaded /\ seq' = seq /\ disk' = disk
      /\ interval' = interval /\ checkpoints' = checkpoints
      /\ checkpoint_count' = checkpoint_count /\ last_checkpoint_seq' = last_checkpoint_seq
  BY DEF Store!Crash, Store!manager
<1>2. /\ StoreTypes /\ FilesMade /\ ListMade /\ OwnSaved /\ FewUnreadable
      /\ NothingYet /\ LastIsStored
  BY DEF StoreInv
<1>3. run \in Nat /\ MaxCrashes \in Nat /\ MaxSeq \in Nat
  BY <1>2 DEF StoreTypes, Store!StoreAssumption
<1>4. StoreTypes'
  <2>1. run + 1 \in 0..MaxCrashes
    BY <1>1, <1>3
  <2>2. 0 \in 0..MaxSeq
    BY <1>3
  <2>3. QED
    BY <1>1, <1>2, <2>1, <2>2 DEF StoreTypes
<1>5. ASSUME NEW m, NEW s, MadeBy(m, s)
      PROVE  \E r \in 0..(run + 1) : m = <<r, s>> /\ (r = run + 1 => FALSE)
  <2>1. PICK r \in 0..run : m = <<r, s>>
    BY <1>5 DEF MadeBy
  <2>2. r \in 0..(run + 1) /\ r # run + 1
    BY <1>3
  <2>3. QED
    BY <2>1, <2>2
<1>6. FilesMade' /\ ListMade'
  <2>1. ASSUME NEW f \in DOMAIN disk, disk[f].whole
        PROVE  \E r \in 0..(run + 1) : disk[f].memory = <<r, f>> /\ (r = run + 1 => FALSE)
    BY <1>2, <1>5, <2>1 DEF FilesMade
  <2>2. FilesMade'
    BY <1>1, <2>1 DEF FilesMade, MadeBy
  <2>3. ASSUME NEW i \in 1..Len(checkpoints)
        PROVE  \E r \in 0..(run + 1) : /\ checkpoints[i].memory = <<r, checkpoints[i].seq>>
                                       /\ r = run + 1 => FALSE
    BY <1>2, <1>5 DEF ListMade
  <2>4. ListMade'
    BY <1>1, <2>3 DEF ListMade, MadeBy
  <2>5. QED
    BY <2>2, <2>4
<1>7. OwnSaved'
  <2>1. ASSUME NEW i \in 1..Len(checkpoints), checkpoints[i].memory[1] = run + 1
        PROVE  FALSE
    <3>1. PICK r \in 0..run : checkpoints[i].memory = <<r, checkpoints[i].seq>>
      BY <1>2 DEF ListMade, MadeBy
    <3>2. r = run + 1
      BY <2>1, <3>1
    <3>3. QED
      BY <1>3, <3>2
  <2>2. QED
    BY <1>1, <2>1 DEF OwnSaved
<1>8. FewUnreadable'
  <2>1. Cardinality(Unreadable) \in Nat
    BY <1>2, UnreadableFinite
  <2>2. Cardinality(Unreadable) <= run + 1
    BY <1>2, <1>3, <2>1 DEF FewUnreadable
  <2>3. Unreadable' = Unreadable
    BY <1>1 DEF Unreadable
  <2>4. QED
    BY <1>1, <1>3, <2>2, <2>3 DEF FewUnreadable
<1>9. Writes' /\ NothingYet' /\ LastIsStored'
  BY <1>1, <1>2 DEF Writes, NothingYet, LastIsStored
<1>10. QED
  BY <1>4, <1>6, <1>7, <1>8, <1>9 DEF StoreInv

LEMMA RestartKeepsStore ==
  ASSUME Store!StoreAssumption, StoreInv, Store!Restart
  PROVE  StoreInv'
<1>1. /\ ~up /\ up' = TRUE /\ loaded' = FALSE /\ seq' = 0 /\ interval' \in Intervals
      /\ checkpoints' = <<>> /\ checkpoint_count' = 0 /\ last_checkpoint_seq' = 0
      /\ run' = run /\ saving' = saving /\ disk' = disk
  BY DEF Store!Restart, Store!Fresh
<1>2. StoreTypes /\ FilesMade /\ FewUnreadable /\ saving = 0
  BY <1>1 DEF StoreInv, Writes
<1>3. Len(checkpoints') = 0 /\ checkpoints' \in Seq(Checkpoint)
  BY <1>1
<1>4. StoreTypes'
  <2>1. 0 \in 0..MaxSeq
    BY DEF Store!StoreAssumption
  <2>2. QED
    BY <1>1, <1>2, <1>3, <2>1 DEF StoreTypes
<1>5. FilesMade'
  <2>1. ASSUME NEW f \in DOMAIN disk, disk[f].whole
        PROVE  \E r \in 0..run : disk[f].memory = <<r, f>> /\ r # run
    BY <1>1, <1>2, <2>1 DEF FilesMade, MadeBy
  <2>2. QED
    BY <1>1, <2>1 DEF FilesMade, MadeBy
<1>6. ListMade' /\ OwnSaved' /\ Writes' /\ NothingYet' /\ LastIsStored'
  BY <1>1, <1>2, <1>3 DEF ListMade, OwnSaved, Writes, NothingYet, LastIsStored
<1>7. FewUnreadable'
  BY <1>1, <1>2 DEF FewUnreadable, Unreadable
<1>8. QED
  BY <1>4, <1>5, <1>6, <1>7 DEF StoreInv

LEMMA RecoverKeepsStore ==
  ASSUME StoreInv, Store!start_recovery
  PROVE  StoreInv'
<1>1. /\ run' = run /\ up' = up /\ loaded' = loaded /\ seq' = seq /\ interval' = interval
      /\ checkpoints' = checkpoints /\ checkpoint_count' = checkpoint_count
      /\ last_checkpoint_seq' = last_checkpoint_seq /\ saving' = saving /\ disk' = disk
  BY DEF Store!start_recovery
<1>2. QED
  BY <1>1 DEF StoreInv, StoreTypes, FilesMade, ListMade, MadeBy, Writes, OwnSaved,
       FewUnreadable, Unreadable, NothingYet, LastIsStored

\* What loading finds: the readable files, once each, in the order of their names.
ReadableFiles == {f \in DOMAIN disk : disk[f].whole}
Names == Store!Sorted(ReadableFiles)

\* Loading puts each readable file in the list once, in the order of the names.
LEMMA LoadFinds ==
  ASSUME Store!StoreAssumption, StoreInv, Store!load_checkpoints_from_disk
  PROVE  /\ up /\ seq = 0 /\ ~loaded /\ loaded'
         /\ run' = run /\ up' = up /\ seq' = seq /\ interval' = interval
         /\ saving' = saving /\ disk' = disk /\ recovery' = recovery
         /\ saving = 0
         /\ Len(Names) \in Nat /\ Len(Names) = Len(checkpoints')
         /\ checkpoints' \in Seq(Checkpoint) /\ checkpoint_count' = Len(checkpoints')
         /\ \A i \in 1..Len(Names) :
              /\ Names[i] \in 1..MaxSeq
              /\ Names[i] \in DOMAIN disk /\ disk[Names[i]].whole
              /\ checkpoints'[i].seq = Names[i]
              /\ checkpoints'[i].memory = disk[Names[i]].memory
         /\ \A i, j \in 1..Len(Names) : i < j => Store!NameBefore(Names[i], Names[j])
         /\ last_checkpoint_seq' \in 0..MaxSeq
         /\ checkpoints' # <<>> => \E i \in 1..Len(Names) : Names[i] = last_checkpoint_seq'
         /\ \A i \in 1..Len(Names) : Names[i] <= last_checkpoint_seq'
<1> DEFINE S == ReadableFiles
           n == Cardinality(S)
           s == Names
           found == [i \in DOMAIN s |-> [seq |-> s[i], memory |-> disk[s[i]].memory]]
           T == {0} \union {s[i] : i \in 1..n}
<1>1. StoreTypes /\ FilesMade /\ Writes /\ MaxSeq \in Nat /\ Width \in Nat /\ run \in Nat
  BY DEF StoreInv, StoreTypes, Store!StoreAssumption
<1>2. {f \in DOMAIN disk : Store!Readable(f)} = S
  BY DEF Store!Readable, ReadableFiles
<1>3. /\ up /\ seq = 0 /\ ~loaded /\ loaded' = TRUE
      /\ checkpoints' = checkpoints \o found
      /\ checkpoint_count' = checkpoint_count + Len(found)
      /\ last_checkpoint_seq' = Store!Max({last_checkpoint_seq} \union Store!ToSet(s))
      /\ run' = run /\ up' = up /\ seq' = seq /\ interval' = interval
      /\ saving' = saving /\ disk' = disk /\ recovery' = recovery
  BY <1>2 DEF Store!load_checkpoints_from_disk, Names
<1>4. checkpoints = <<>> /\ last_checkpoint_seq = 0 /\ checkpoint_count = 0
  BY <1>1, <1>3 DEF StoreInv, NothingYet, StoreTypes
<1>5. saving = 0
  BY <1>1, <1>3 DEF Writes
<1>6. S \subseteq 1..MaxSeq /\ IsFiniteSet(S) /\ S \subseteq Nat
  <2>1. S \subseteq 1..MaxSeq
    BY <1>1 DEF ReadableFiles, StoreTypes
  <2> HIDE DEF S
  <2>2. IsFiniteSet(1..MaxSeq)
    BY <1>1, FS_Interval
  <2>3. IsFiniteSet(S)
    BY <2>1, <2>2, FS_Subset
  <2>4. 1..MaxSeq \subseteq Nat
    BY <1>1
  <2>5. QED
    BY <2>1, <2>3, <2>4
<1>7. /\ n \in Nat /\ s \in [1..n -> S]
      /\ \A i, j \in 1..n : i < j => Store!NameBefore(s[i], s[j])
  <2> HIDE DEF S
  <2>1. QED
    BY <1>1, <1>6, SortedLists DEF Names, S
<1>8. \A i \in 1..n : s[i] \in 1..MaxSeq /\ s[i] \in DOMAIN disk /\ disk[s[i]].whole
  <2>1. \A i \in 1..n : s[i] \in S
    BY <1>7
  <2>2. QED
    BY <1>6, <2>1 DEF ReadableFiles
<1>9. \A i \in 1..n : disk[s[i]].memory \in Nat \X Nat
  <2>1. ASSUME NEW i \in 1..n PROVE disk[s[i]].memory \in Nat \X Nat
    <3>1. PICK r \in 0..run : disk[s[i]].memory = <<r, s[i]>>
      BY <1>1, <1>8 DEF FilesMade, MadeBy
    <3>2. QED
      BY <1>1, <1>8, <3>1
  <2>2. QED
    BY <2>1
<1> HIDE DEF S, n
<1>10. s \in Seq(1..MaxSeq) /\ Len(s) = n /\ DOMAIN s = 1..n
  <2>1. n \in Nat /\ s \in [1..n -> 1..MaxSeq]
    <3>1. n \in Nat /\ DOMAIN s = 1..n /\ s = [i \in 1..n |-> s[i]]
      BY <1>7
    <3>2. \A i \in 1..n : s[i] \in 1..MaxSeq
      BY <1>8
    <3> HIDE DEF s
    <3>3. QED
      BY <3>1, <3>2
  <2> HIDE DEF s
  <2>2. QED
    BY <2>1, FunctionIsSequence
<1> HIDE DEF s
<1>11. found \in [1..n -> Checkpoint]
  BY <1>8, <1>9, <1>10 DEF Checkpoint
<1>12. found \in Seq(Checkpoint) /\ Len(found) = n
  BY <1>7, <1>11
<1>13. \A i \in 1..n : found[i].seq = s[i] /\ found[i].memory = disk[s[i]].memory
  BY <1>10
<1> HIDE DEF found
<1>14. checkpoints' = found
  BY <1>3, <1>4, <1>12
<1>15. {last_checkpoint_seq} \union Store!ToSet(s) = T
  BY <1>4, <1>10 DEF Store!ToSet
<1>16. T \subseteq 0..MaxSeq /\ T # {}
  BY <1>1, <1>8
<1>17. /\ last_checkpoint_seq' \in T /\ \A y \in T : y <= last_checkpoint_seq'
  <2> HIDE DEF T
  <2>1. QED
    BY <1>1, <1>3, <1>15, <1>16, MaxOfNumbers
<1>18. \A i \in 1..n : s[i] <= last_checkpoint_seq'
  BY <1>17
<1>19. ASSUME checkpoints' # <<>>
       PROVE  \E i \in 1..n : s[i] = last_checkpoint_seq'
  <2>1. n # 0
    BY <1>12, <1>14, <1>19
  <2>2. 1 \in 1..n
    BY <1>7, <2>1
  <2>3. s[1] \in 1..MaxSeq /\ s[1] <= last_checkpoint_seq'
    BY <1>8, <1>18, <2>2
  <2>4. last_checkpoint_seq' \in 0..MaxSeq
    BY <1>16, <1>17
  <2>5. last_checkpoint_seq' # 0
    BY <1>1, <2>3, <2>4
  <2>6. QED
    BY <1>17, <2>5
<1>20. last_checkpoint_seq' \in 0..MaxSeq
  BY <1>16, <1>17
<1>21. checkpoint_count' = n
  BY <1>3, <1>4, <1>7, <1>12
<1> HIDE DEF T
<1>22. QED
  BY <1>3, <1>5, <1>7, <1>8, <1>10, <1>12, <1>13, <1>14, <1>18, <1>19, <1>20, <1>21 DEF s

LEMMA LoadKeepsStore ==
  ASSUME Store!StoreAssumption, StoreInv, Store!load_checkpoints_from_disk
  PROVE  StoreInv'
<1> DEFINE k == Len(Names)
<1>1. /\ up /\ seq = 0 /\ ~loaded /\ loaded'
      /\ run' = run /\ up' = up /\ seq' = seq /\ interval' = interval
      /\ saving' = saving /\ disk' = disk /\ saving = 0
      /\ k \in Nat /\ k = Len(checkpoints')
      /\ checkpoints' \in Seq(Checkpoint) /\ checkpoint_count' = Len(checkpoints')
      /\ last_checkpoint_seq' \in 0..MaxSeq
  BY LoadFinds
<1>2. \A i \in 1..k :
        /\ Names[i] \in DOMAIN disk /\ disk[Names[i]].whole
        /\ checkpoints'[i].seq = Names[i] /\ checkpoints'[i].memory = disk[Names[i]].memory
  BY LoadFinds
<1>3. checkpoints' # <<>> => \E i \in 1..k : Names[i] = last_checkpoint_seq'
  BY LoadFinds
<1>4. loaded' \in BOOLEAN
  BY DEF Store!load_checkpoints_from_disk
<1> HIDE DEF k
<1>5. StoreTypes /\ FilesMade /\ FewUnreadable
  BY DEF StoreInv
<1>6. StoreTypes'
  BY <1>1, <1>4, <1>5 DEF StoreTypes
<1>7. FilesMade' /\ Writes' /\ NothingYet' /\ FewUnreadable'
  BY <1>1, <1>5 DEF FilesMade, MadeBy, Writes, NothingYet, FewUnreadable, Unreadable
<1>8. ListMade'
  <2>1. ASSUME NEW i \in 1..k
        PROVE  \E r \in 0..run : /\ checkpoints'[i].memory = <<r, checkpoints'[i].seq>>
                                 /\ r = run => up /\ checkpoints'[i].seq <= seq
    BY <1>2, <1>5 DEF FilesMade, MadeBy
  <2>2. QED
    BY <1>1, <2>1 DEF ListMade, MadeBy
<1>9. OwnSaved'
  BY <1>1, <1>2 DEF OwnSaved
<1>10. LastIsStored'
  BY <1>1, <1>2, <1>3 DEF LastIsStored
<1>11. QED
  BY <1>6, <1>7, <1>8, <1>9, <1>10 DEF StoreInv

\* StoreInv holds in every behaviour of the store.
LEMMA StoreInvariance ==
  ASSUME Store!StoreAssumption
  PROVE  Store!Spec => []StoreInv
<1>1. Store!Init => StoreInv
  BY StoreInit
<1>2. ASSUME StoreInv, [Store!Next]_(Store!vars)
      PROVE  StoreInv'
  <2>1. CASE UNCHANGED Store!vars
    BY <1>2, <2>1 DEF StoreInv, StoreTypes, FilesMade, ListMade, MadeBy, Writes, OwnSaved,
         FewUnreadable, Unreadable, NothingYet, LastIsStored, Store!vars, Store!manager
  <2>2. CASE Store!Next
    BY <1>2, <2>2, MessageKeepsStore, CreateKeepsStore, SavedKeepsStore, CrashKeepsStore,
       RestartKeepsStore, LoadKeepsStore, RecoverKeepsStore DEF Store!Next
  <2>3. QED
    BY <1>2, <2>1, <2>2
<1>3. QED
  BY <1>1, <1>2, PTL DEF Store!Spec

\* Store's type invariant: the statistics count what the manager holds.
THEOREM StoreTypeCorrect ==
  ASSUME Store!StoreAssumption
  PROVE  Store!Spec => []Store!TypeOK
<1>1. ASSUME StoreInv PROVE Store!TypeOK
  <2>1. StoreTypes /\ LastIsStored
    BY <1>1 DEF StoreInv
  <2>2. DOMAIN checkpoints = 1..Len(checkpoints)
    BY <2>1 DEF StoreTypes
  <2>3. checkpoints # <<>> => last_checkpoint_seq \in {c.seq : c \in Store!Stored}
    BY <2>1, <2>2 DEF LastIsStored, Store!Stored, Store!Range
  <2>4. QED
    BY <2>1, <2>3 DEF Store!TypeOK, StoreTypes
<1>2. QED
  BY <1>1, StoreInvariance, PTL

\* Durable: the checkpoints of this run are in their files once the next message
\* may come, and crashes leave at most one unreadable file each.
THEOREM CheckpointsAreDurable ==
  ASSUME Store!StoreAssumption
  PROVE  Store!Spec => []Store!Durable
<1>1. ASSUME StoreInv PROVE Store!Durable
  <2>1. StoreTypes /\ ListMade /\ OwnSaved /\ FewUnreadable
    BY <1>1 DEF StoreInv
  <2>2. DOMAIN checkpoints = 1..Len(checkpoints)
    BY <2>1 DEF StoreTypes
  <2>3. ASSUME NEW c \in Store!Stored, c.memory[1] = run, saving = 0
        PROVE  Store!Readable(c.seq) /\ disk[c.seq].memory = c.memory
    <3>1. PICK i \in 1..Len(checkpoints) : c = checkpoints[i]
      BY <2>2 DEF Store!Stored, Store!Range
    <3>2. checkpoints[i].seq \in 1..MaxSeq
      BY <2>1, CheckpointSeq DEF StoreTypes
    <3>3. checkpoints[i].seq # saving
      BY <2>3, <3>2
    <3>4. QED
      BY <2>1, <2>3, <3>1, <3>3 DEF OwnSaved, Store!Readable
  <2>4. Store!Cardinality({f \in DOMAIN disk : ~disk[f].whole})
          <= run + (IF saving # 0 THEN 1 ELSE 0)
    BY <2>1, SameCount DEF FewUnreadable, Unreadable
  <2>5. QED
    BY <2>3, <2>4 DEF Store!Durable
<1>2. QED
  BY <1>1, StoreInvariance, PTL

\* LoadedIsWhole: every checkpoint in the list, loaded or made, is a memory that
\* some run had at its number.
THEOREM LoadedCheckpointsAreWhole ==
  ASSUME Store!StoreAssumption
  PROVE  Store!Spec => []Store!LoadedIsWhole
<1>1. ASSUME StoreInv PROVE Store!LoadedIsWhole
  <2>1. StoreTypes /\ ListMade
    BY <1>1 DEF StoreInv
  <2>2. DOMAIN checkpoints = 1..Len(checkpoints)
    BY <2>1 DEF StoreTypes
  <2>3. ASSUME NEW c \in Store!Stored
        PROVE  \E r \in 0..run : c.memory = Store!Memory(r, c.seq)
    <3>1. PICK i \in 1..Len(checkpoints) : c = checkpoints[i]
      BY <2>2 DEF Store!Stored, Store!Range
    <3>2. QED
      BY <2>1, <3>1 DEF ListMade, MadeBy, Store!Memory
  <2>4. QED
    BY <2>3 DEF Store!LoadedIsWhole
<1>2. QED
  BY <1>1, StoreInvariance, PTL

(* Order of the list, and the runs its checkpoints belong to *)

\* No number is longer than the padding of the names.
NamesFit == \A s \in 0..MaxSeq : Len(Store!Digits[s]) <= Width

\* The checkpoints of one run are in the order of their numbers.
RunsAscend ==
  \A i, j \in 1..Len(checkpoints) :
    i < j /\ checkpoints[i].memory[1] = checkpoints[j].memory[1] =>
      checkpoints[i].seq < checkpoints[j].seq

\* Before a run's first message the newest checkpoint is the last in the list.
NewestIsLast ==
  up /\ seq = 0 /\ checkpoints # <<>> =>
    checkpoints[Len(checkpoints)].seq = last_checkpoint_seq

OrderInv == StoreInv /\ RunsAscend /\ NewestIsLast

\* With the interval k, no checkpoint is before message k, and the list ends in
\* those of this run as soon as it has passed message k.
OneInterval(k) ==
  /\ interval = k
  /\ \A f \in DOMAIN disk : f >= k
  /\ \A i \in 1..Len(checkpoints) : checkpoints[i].seq >= k
  /\ up /\ seq >= k =>
       \E p \in 1..Len(checkpoints) :
         /\ checkpoints[p].seq = k
         /\ \A i \in p..Len(checkpoints) : checkpoints[i].memory[1] = run

\* With names that fit, the order of the names is that of the numbers.
LEMMA NamesAscend ==
  ASSUME Store!StoreAssumption, NamesFit,
         NEW a \in 1..MaxSeq, NEW b \in 1..MaxSeq, Store!NameBefore(a, b)
  PROVE  a < b
<1>1. a \in Nat /\ b \in Nat /\ a \in 0..MaxSeq /\ b \in 0..MaxSeq /\ Width \in Nat
  BY DEF Store!StoreAssumption
<1>2. ~Store!NameBefore(b, a) /\ a # b
  BY <1>1, NamesAreOrdered
<1>3. ASSUME b < a PROVE FALSE
  BY <1>1, <1>2, <1>3, NamesDiffer DEF NamesFit
<1>4. QED
  BY <1>1, <1>2, <1>3

\* OrderInv too, with names that fit.
LEMMA OrderInvariance ==
  ASSUME Store!StoreAssumption, NamesFit
  PROVE  Store!Spec => []OrderInv
<1>1. ASSUME Store!Init PROVE RunsAscend /\ NewestIsLast
  <2>1. checkpoints = <<>> /\ Len(checkpoints) = 0
    BY <1>1 DEF Store!Init
  <2>2. QED
    BY <2>1 DEF RunsAscend, NewestIsLast
<1>2. ASSUME StoreInv, RunsAscend, NewestIsLast, [Store!Next]_(Store!vars)
      PROVE  RunsAscend' /\ NewestIsLast'
  <2>1. StoreTypes /\ ListMade /\ seq \in Nat /\ run \in Nat
    BY <1>2 DEF StoreInv, StoreTypes
  <2>2. CASE checkpoints' = checkpoints /\ last_checkpoint_seq' = last_checkpoint_seq
             /\ (up' /\ seq' = 0 => up /\ seq = 0)
    BY <1>2, <2>2 DEF RunsAscend, NewestIsLast
  <2>3. CASE UNCHANGED Store!vars
    BY <2>2, <2>3 DEF Store!vars, Store!manager
  <2>4. CASE Store!Message
    BY <2>1, <2>2, <2>4 DEF Store!Message, Store!manager
  <2>5. CASE Store!Saved
    BY <2>2, <2>5 DEF Store!Saved, Store!manager
  <2>6. CASE Store!Crash
    BY <2>2, <2>6 DEF Store!Crash, Store!manager
  <2>7. CASE Store!start_recovery
    BY <2>2, <2>7 DEF Store!start_recovery
  <2>8. CASE Store!Restart
    <3>1. checkpoints' = <<>> /\ Len(checkpoints') = 0
      BY <2>8 DEF Store!Restart, Store!Fresh
    <3>2. QED
      BY <3>1 DEF RunsAscend, NewestIsLast
  <2>9. CASE Store!create_checkpoint
    <3> DEFINE n == seq + 1
               new == [seq |-> n, memory |-> <<run, n>>]
               k == Len(checkpoints)
    <3>1. checkpoints' = Append(checkpoints, new) /\ seq' = n /\ seq < MaxSeq /\ up
      BY <2>9 DEF Store!create_checkpoint, Store!Memory
    <3>2. new \in Checkpoint /\ new.seq = n /\ new.memory[1] = run
      BY <2>1, <3>1 DEF Checkpoint, Store!StoreAssumption
    <3> HIDE DEF new
    <3>3. /\ k \in Nat /\ Len(checkpoints') = k + 1 /\ checkpoints'[k + 1] = new
          /\ \A i \in 1..k : checkpoints'[i] = checkpoints[i]
      BY <2>1, <3>1, <3>2, OneMoreElement DEF StoreTypes
    <3>4. ASSUME NEW i \in 1..k, checkpoints[i].memory[1] = run
          PROVE  checkpoints[i].seq < n
      <4>1. PICK r \in 0..run : /\ checkpoints[i].memory = <<r, checkpoints[i].seq>>
                                /\ r = run => up /\ checkpoints[i].seq <= seq
        BY <2>1 DEF ListMade, MadeBy
      <4>2. r = run
        BY <3>4, <4>1
      <4>3. checkpoints[i].seq \in 1..MaxSeq
        BY <2>1, CheckpointSeq DEF StoreTypes
      <4>4. checkpoints[i].seq \in Int /\ checkpoints[i].seq <= seq
        BY <4>1, <4>2, <4>3
      <4>5. QED
        BY <2>1, <4>4
    <3> HIDE DEF k
    <3>5. ASSUME NEW i \in 1..(k + 1), NEW j \in 1..(k + 1), i < j,
                 checkpoints'[i].memory[1] = checkpoints'[j].memory[1]
          PROVE  checkpoints'[i].seq < checkpoints'[j].seq
      <4>1. i \in 1..k /\ checkpoints'[i] = checkpoints[i]
        BY <3>3, <3>5
      <4>2. CASE j = k + 1
        BY <3>2, <3>3, <3>4, <3>5, <4>1, <4>2
      <4>3. CASE j # k + 1
        <5>1. j \in 1..k /\ checkpoints'[j] = checkpoints[j]
          BY <3>3, <3>5, <4>3
        <5>2. QED
          BY <1>2, <3>5, <4>1, <5>1 DEF RunsAscend, k
      <4>4. QED
        BY <4>2, <4>3
    <3>6. RunsAscend'
      BY <3>3, <3>5 DEF RunsAscend
    <3>7. NewestIsLast'
      BY <2>1, <3>1 DEF NewestIsLast
    <3>8. QED
      BY <3>6, <3>7
  <2>10. CASE Store!load_checkpoints_from_disk
    <3> DEFINE k == Len(Names)
    <3>1. /\ k \in Nat /\ k = Len(checkpoints') /\ checkpoints' \in Seq(Checkpoint)
          /\ \A i \in 1..k : Names[i] \in 1..MaxSeq /\ checkpoints'[i].seq = Names[i]
          /\ \A i, j \in 1..k : i < j => Store!NameBefore(Names[i], Names[j])
      BY <1>2, <2>10, LoadFinds
    <3>2. /\ last_checkpoint_seq' \in 0..MaxSeq
          /\ checkpoints' # <<>> => \E i \in 1..k : Names[i] = last_checkpoint_seq'
          /\ \A i \in 1..k : Names[i] <= last_checkpoint_seq'
      BY <1>2, <2>10, LoadFinds
    <3> HIDE DEF k
    <3>3. \A i, j \in 1..k : i < j => Names[i] < Names[j]
      BY <3>1, NamesAscend
    <3>4. RunsAscend'
      BY <3>1, <3>3 DEF RunsAscend
    <3>5. ASSUME checkpoints' # <<>>
          PROVE  checkpoints'[k].seq = last_checkpoint_seq'
      <4>1. PICK i \in 1..k : Names[i] = last_checkpoint_seq'
        BY <3>2, <3>5
      <4>2. k \in 1..k /\ i <= k
        BY <3>1
      <4>3. CASE i = k
        BY <3>1, <4>1, <4>2, <4>3
      <4>4. CASE i < k
        <5>1. Names[i] < Names[k] /\ Names[k] <= last_checkpoint_seq'
          BY <3>2, <3>3, <4>2, <4>4
        <5>2. Names[i] \in 1..MaxSeq /\ Names[k] \in 1..MaxSeq
          BY <3>1, <4>2
        <5>3. Names[i] \in Int /\ Names[k] \in Int
          BY <5>2
        <5>4. QED
          BY <3>2, <4>1, <5>1, <5>3
      <4>5. QED
        BY <3>1, <4>2, <4>3, <4>4
    <3>6. NewestIsLast'
      BY <3>1, <3>5 DEF NewestIsLast
    <3>7. QED
      BY <3>4, <3>6
  <2>11. QED
    BY <1>2, <2>3, <2>4, <2>5, <2>6, <2>7, <2>8, <2>9, <2>10 DEF Store!Next
<1>3. QED
  BY <1>1, <1>2, StoreInvariance, PTL DEF OrderInv, Store!Spec

\* LatestIsNewest: a session that has just been loaded has its newest checkpoint
\* last, as long as no number is longer than the names' padding.
THEOREM LatestIsNewest ==
  ASSUME Store!StoreAssumption, NamesFit
  PROVE  Store!Spec => []Store!LatestIsNewest
<1>1. ASSUME OrderInv PROVE Store!LatestIsNewest
  BY <1>1 DEF OrderInv, NewestIsLast, Store!LatestIsNewest, Store!get_latest_checkpoint,
       Store!Last
<1>2. QED
  BY <1>1, OrderInvariance, PTL

(* What a recovery starts from *)

\* get_checkpoint_for_seq returns the last place whose number is not after the target.
LEMMA LastNotAfter ==
  ASSUME StoreTypes, NEW target \in Nat
  PROVE  /\ Store!get_checkpoint_for_seq(target) \in 0..Len(checkpoints)
         /\ \A i \in 1..Len(checkpoints) :
              i > Store!get_checkpoint_for_seq(target) => checkpoints[i].seq > target
         /\ Store!get_checkpoint_for_seq(target) # 0 =>
              checkpoints[Store!get_checkpoint_for_seq(target)].seq <= target
<1> DEFINE k == Len(checkpoints)
           I == {i \in 1..k : checkpoints[i].seq <= target}
           n == Store!get_checkpoint_for_seq(target)
<1>1. k \in Nat
  BY DEF StoreTypes
<1>2. n = IF I # {} THEN Store!Max(I) ELSE 0
  BY DEF Store!get_checkpoint_for_seq, Store!SelectLastInSeq
<1>3. \A i \in 1..k : checkpoints[i].seq \in 1..MaxSeq
  BY CheckpointSeq DEF StoreTypes
<1>4. \A i \in 1..k : checkpoints[i].seq \in Int
  BY <1>3
<1>5. CASE I = {}
  <2>1. n = 0
    BY <1>2, <1>5
  <2> HIDE DEF n
  <2>2. \A i \in 1..k : checkpoints[i].seq > target
    BY <1>4, <1>5
  <2>3. QED
    BY <1>1, <2>1, <2>2 DEF n
<1>6. CASE I # {}
  <2>1. n = Store!Max(I)
    BY <1>2, <1>6
  <2>2. I \subseteq 0..k
    BY <1>1
  <2>3. n \in I /\ \A i \in I : i <= n
    <3> HIDE DEF I, n, k
    <3>1. QED
      BY <1>1, <1>6, <2>1, <2>2, MaxOfNumbers
  <2> HIDE DEF n
  <2>4. n \in 1..k /\ checkpoints[n].seq <= target
    BY <2>3
  <2>5. ASSUME NEW i \in 1..k, i > n PROVE checkpoints[i].seq > target
    <3>1. i \notin I
      BY <1>1, <2>3, <2>4, <2>5
    <3>2. QED
      BY <1>4, <3>1
  <2>6. QED
    BY <1>1, <2>4, <2>5 DEF n
<1>7. QED
  BY <1>5, <1>6

\* What a step that finds a checkpoint takes its memory from.
LEMMA RecoveryFinds ==
  ASSUME StoreInv, [Store!Next]_(Store!vars),
         recovery' # recovery, recovery'.ok, recovery'.seq > 0
  PROVE  \E target \in Store!Targets, n \in 1..Len(checkpoints) :
           /\ up /\ target \in Nat
           /\ recovery'.target = target /\ recovery'.seq = checkpoints[n].seq
           /\ recovery'.memory = checkpoints[n].memory
           /\ recovery'.replay_count = target - checkpoints[n].seq
           /\ checkpoints[n].seq <= target
           /\ \A i \in 1..Len(checkpoints) : i > n => checkpoints[i].seq > target
<1>1. StoreTypes
  BY DEF StoreInv
<1>2. Store!start_recovery
  <2>1. ~ UNCHANGED Store!vars
    BY DEF Store!vars
  <2>2. ~ Store!Restart
    <3>1. SUFFICES ASSUME Store!Restart PROVE FALSE
      OBVIOUS
    <3>2. recovery'.ok = FALSE
      BY <3>1 DEF Store!Restart, Store!NoRecovery
    <3>3. QED
      BY <3>2
  <2>3. ~ Store!Message /\ ~ Store!create_checkpoint /\ ~ Store!Saved /\ ~ Store!Crash
        /\ ~ Store!load_checkpoints_from_disk
    BY DEF Store!Message, Store!create_checkpoint, Store!Saved, Store!Crash,
       Store!load_checkpoints_from_disk
  <2>4. QED
    BY <2>1, <2>2, <2>3 DEF Store!Next
<1> DEFINE n(target) == Store!get_checkpoint_for_seq(target)
<1>3. PICK target \in Store!Targets :
        IF n(target) = 0
        THEN recovery' = [Store!NoRecovery EXCEPT !.ok = (target = 0),
                            !.target = target, !.replay_count = target]
        ELSE recovery' = [ok |-> TRUE, target |-> target,
                          seq |-> checkpoints[n(target)].seq,
                          memory |-> checkpoints[n(target)].memory,
                          replay_count |-> target - checkpoints[n(target)].seq]
  BY <1>2 DEF Store!start_recovery
<1>4. target \in Nat /\ up
  BY <1>1, <1>2 DEF Store!start_recovery, Store!Targets, StoreTypes
<1>5. n(target) # 0
  <2> HIDE DEF n
  <2>1. SUFFICES ASSUME n(target) = 0 PROVE FALSE
    OBVIOUS
  <2>2. recovery'.seq = 0
    BY <1>3, <2>1 DEF Store!NoRecovery
  <2>3. QED
    BY <2>2
<1>6. /\ n(target) \in 1..Len(checkpoints)
      /\ \A i \in 1..Len(checkpoints) : i > n(target) => checkpoints[i].seq > target
      /\ checkpoints[n(target)].seq <= target
  <2>1. Len(checkpoints) \in Nat
    BY <1>1 DEF StoreTypes
  <2>2. QED
    BY <1>1, <1>4, <1>5, <2>1, LastNotAfter
<1> HIDE DEF n
<1>7. QED
  BY <1>3, <1>4, <1>5, <1>6

\* NearestCheckpoint: a recovery starts from a stored checkpoint, no other one of
\* its run lies between it and the target, and the messages between are replayed,
\* as long as no number is longer than the names' padding.
THEOREM NearestCheckpoint ==
  ASSUME Store!StoreAssumption, NamesFit
  PROVE  Store!Spec => [][Store!NearestCheckpoint]_(Store!vars)
<1>1. ASSUME OrderInv, [Store!Next]_(Store!vars)
      PROVE  Store!NearestCheckpoint
  <2>1. SUFFICES ASSUME recovery' # recovery, recovery'.ok, recovery'.seq > 0
                 PROVE  /\ recovery'.seq + recovery'.replay_count = recovery'.target
                        /\ \A c \in Store!Stored : c.memory[1] = recovery'.memory[1] =>
                             c.seq \notin (recovery'.seq + 1)..recovery'.target
    BY DEF Store!NearestCheckpoint
  <2>2. StoreInv /\ StoreTypes /\ RunsAscend
    BY <1>1 DEF OrderInv, StoreInv
  <2>3. PICK target \in Store!Targets, n \in 1..Len(checkpoints) :
           /\ up /\ target \in Nat
           /\ recovery'.target = target /\ recovery'.seq = checkpoints[n].seq
           /\ recovery'.memory = checkpoints[n].memory
           /\ recovery'.replay_count = target - checkpoints[n].seq
           /\ checkpoints[n].seq <= target
           /\ \A i \in 1..Len(checkpoints) : i > n => checkpoints[i].seq > target
    BY <1>1, <2>1, <2>2, RecoveryFinds
  <2>4. \A i \in 1..Len(checkpoints) : checkpoints[i].seq \in Int
    <3>1. \A i \in 1..Len(checkpoints) : checkpoints[i].seq \in 1..MaxSeq
      BY <2>2, CheckpointSeq DEF StoreTypes
    <3>2. QED
      BY <3>1
  <2>5. recovery'.seq + recovery'.replay_count = recovery'.target
    <3>1. checkpoints[n].seq \in Int
      BY <2>4
    <3>2. QED
      BY <2>3, <3>1
  <2>6. ASSUME NEW c \in Store!Stored, c.memory[1] = recovery'.memory[1],
               c.seq \in (recovery'.seq + 1)..recovery'.target
        PROVE  FALSE
    <3>1. PICK i \in 1..Len(checkpoints) : c = checkpoints[i]
      <4>1. DOMAIN checkpoints = 1..Len(checkpoints)
        BY <2>2 DEF StoreTypes
      <4>2. QED
        BY <4>1 DEF Store!Stored, Store!Range
    <3>2. checkpoints[i].seq \in (checkpoints[n].seq + 1)..target
      BY <2>3, <2>6, <3>1
    <3>3. checkpoints[i].memory[1] = checkpoints[n].memory[1]
      BY <2>3, <2>6, <3>1
    <3>4. checkpoints[i].seq > checkpoints[n].seq /\ checkpoints[i].seq <= target
      BY <2>3, <2>4, <3>2
    <3>5. Len(checkpoints) \in Nat
      BY <2>2 DEF StoreTypes
    <3>6. CASE i > n
      BY <2>3, <2>4, <3>4, <3>6
    <3>7. CASE i = n
      BY <2>4, <3>4, <3>7
    <3>8. CASE i < n
      <4>1. checkpoints[i].seq < checkpoints[n].seq
        BY <2>2, <3>3, <3>8 DEF RunsAscend
      <4>2. QED
        BY <2>4, <3>4, <4>1
    <3>9. QED
      BY <3>5, <3>6, <3>7, <3>8
  <2>7. QED
    BY <2>5, <2>6
<1>2. QED
  BY <1>1, OrderInvariance, PTL DEF Store!Spec

\* OneInterval too, when every run has the interval k.
LEMMA OneIntervalInvariance ==
  ASSUME Store!StoreAssumption, NEW k, Intervals = {k}
  PROVE  Store!Spec => [](StoreInv /\ OneInterval(k))
<1>1. k \in Nat \ {0}
  BY DEF Store!StoreAssumption
<1>2. ASSUME Store!Init PROVE OneInterval(k)
  <2>1. /\ interval \in Intervals /\ disk = <<>> /\ checkpoints = <<>> /\ seq = 0
        /\ Len(checkpoints) = 0 /\ DOMAIN disk = {}
    BY <1>2 DEF Store!Init
  <2>2. QED
    BY <1>1, <2>1 DEF OneInterval
<1>3. ASSUME StoreInv, OneInterval(k), [Store!Next]_(Store!vars)
      PROVE  OneInterval(k)'
  <2>1. StoreTypes /\ seq \in Nat /\ run \in Nat
    BY <1>3 DEF StoreInv, StoreTypes
  <2>2. CASE /\ interval' = interval /\ checkpoints' = checkpoints
             /\ DOMAIN disk' = DOMAIN disk
             /\ up' /\ seq' >= k => up /\ seq >= k /\ run' = run
    BY <1>3, <2>2 DEF OneInterval
  <2>3. CASE UNCHANGED Store!vars
    BY <2>2, <2>3 DEF Store!vars, Store!manager
  <2>4. CASE Store!Message
    <3>1. /\ seq' = seq + 1 /\ up /\ ~((seq + 1) > 0 /\ (seq + 1) % interval = 0)
          /\ interval' = interval /\ checkpoints' = checkpoints /\ disk' = disk
          /\ run' = run
      BY <2>4 DEF Store!Message, Store!manager, Store!should_checkpoint
    <3>2. interval = k
      BY <1>3 DEF OneInterval
    <3>3. seq + 1 # k
      <4>1. SUFFICES ASSUME seq + 1 = k PROVE FALSE
        OBVIOUS
      <4>2. (seq + 1) % k = 0
        BY <1>1, <4>1, IntervalIsDue
      <4>3. QED
        BY <1>1, <2>1, <3>1, <3>2, <4>2
    <3>4. seq' >= k => seq >= k
      BY <1>1, <2>1, <3>1, <3>3
    <3>5. QED
      BY <2>2, <3>1, <3>4
  <2>5. CASE Store!Saved
    BY <2>2, <2>5 DEF Store!Saved, Store!manager
  <2>6. CASE Store!Crash
    BY <2>2, <2>6 DEF Store!Crash, Store!manager
  <2>7. CASE Store!start_recovery
    BY <2>2, <2>7 DEF Store!start_recovery
  <2>8. CASE Store!Restart
    <3>1. /\ interval' \in Intervals /\ disk' = disk /\ checkpoints' = <<>>
          /\ Len(checkpoints') = 0 /\ seq' = 0
      BY <2>8 DEF Store!Restart, Store!Fresh
    <3>2. QED
      BY <1>1, <1>3, <3>1 DEF OneInterval
  <2>9. CASE Store!create_checkpoint
    <3> DEFINE n == seq + 1
               new == [seq |-> n, memory |-> <<run, n>>]
               m == Len(checkpoints)
    <3>1. /\ checkpoints' = Append(checkpoints, new) /\ seq' = n /\ seq < MaxSeq /\ up
          /\ DOMAIN disk' = DOMAIN disk \union {n} /\ interval' = interval
          /\ run' = run /\ n % interval = 0
      BY <2>9 DEF Store!create_checkpoint, Store!Memory, Store!should_checkpoint
    <3>2. new \in Checkpoint /\ new.seq = n /\ new.memory[1] = run
      BY <2>1, <3>1 DEF Checkpoint, Store!StoreAssumption
    <3> HIDE DEF new
    <3>3. /\ m \in Nat /\ Len(checkpoints') = m + 1 /\ checkpoints'[m + 1] = new
          /\ \A i \in 1..m : checkpoints'[i] = checkpoints[i]
      BY <2>1, <3>1, <3>2, OneMoreElement DEF StoreTypes
    <3>4. /\ interval = k /\ \A f \in DOMAIN disk : f >= k
          /\ \A i \in 1..m : checkpoints[i].seq >= k
          /\ seq >= k => \E p \in 1..m : /\ checkpoints[p].seq = k
                                         /\ \A i \in p..m : checkpoints[i].memory[1] = run
      BY <1>3, <3>1 DEF OneInterval
    <3>5. n >= k
      <4>1. n \in Nat \ {0} /\ n % k = 0
        BY <2>1, <3>1, <3>4
      <4>2. QED
        BY <1>1, <4>1, FirstDue
    <3> HIDE DEF m
    <3>6. \A i \in 1..(m + 1) : checkpoints'[i].seq >= k
      <4>1. \A i \in 1..(m + 1) : i = m + 1 \/ i \in 1..m
        BY <3>3
      <4>2. QED
        BY <3>2, <3>3, <3>4, <3>5, <4>1
    <3>7. \E p \in 1..(m + 1) : /\ checkpoints'[p].seq = k
                                /\ \A i \in p..(m + 1) : checkpoints'[i].memory[1] = run
      <4>1. CASE n = k
        <5>1. m + 1 \in 1..(m + 1) /\ \A i \in (m + 1)..(m + 1) : i = m + 1
          BY <3>3
        <5>2. checkpoints'[m + 1].seq = k /\ checkpoints'[m + 1].memory[1] = run
          BY <3>2, <3>3, <4>1
        <5>3. QED
          BY <5>1, <5>2
      <4>2. CASE n # k
        <5>1. seq >= k
          BY <1>1, <2>1, <3>5, <4>2
        <5>2. PICK p \in 1..m : /\ checkpoints[p].seq = k
                                /\ \A i \in p..m : checkpoints[i].memory[1] = run
          BY <3>4, <5>1
        <5>3. p \in 1..(m + 1) /\ checkpoints'[p].seq = k
          BY <3>3, <5>2
        <5>4. ASSUME NEW i \in p..(m + 1) PROVE checkpoints'[i].memory[1] = run
          <6>1. i = m + 1 \/ (i \in p..m /\ i \in 1..m)
            BY <3>3
          <6>2. QED
            BY <3>2, <3>3, <5>2, <6>1
        <5>5. QED
          BY <5>3, <5>4
      <4>3. QED
        BY <4>1, <4>2
    <3>8. QED
      BY <3>1, <3>3, <3>4, <3>5, <3>6, <3>7 DEF OneInterval
  <2>10. CASE Store!load_checkpoints_from_disk
    <3>1. /\ seq' = 0 /\ interval' = interval /\ disk' = disk
          /\ Len(Names) = Len(checkpoints')
          /\ \A i \in 1..Len(Names) :
               Names[i] \in DOMAIN disk /\ checkpoints'[i].seq = Names[i]
      BY <1>3, <2>10, LoadFinds
    <3>2. QED
      BY <1>1, <1>3, <3>1 DEF OneInterval
  <2>11. QED
    BY <1>3, <2>3, <2>4, <2>5, <2>6, <2>7, <2>8, <2>9, <2>10 DEF Store!Next
<1>4. QED
  BY <1>2, <1>3, StoreInvariance, PTL DEF Store!Spec

\* RecoveryIsThisRun: while every run has the same interval, a recovery after the
\* first message starts from a memory of this run, whatever was loaded.
THEOREM RecoveryIsThisRun ==
  ASSUME Store!StoreAssumption, NEW k, Intervals = {k}
  PROVE  Store!Spec => [][Store!RecoveryIsThisRun]_(Store!vars)
<1>1. k \in Nat \ {0}
  BY DEF Store!StoreAssumption
<1>2. ASSUME StoreInv, OneInterval(k), [Store!Next]_(Store!vars)
      PROVE  Store!RecoveryIsThisRun
  <2>1. SUFFICES ASSUME recovery' # recovery, seq > 0, recovery'.ok, recovery'.seq > 0
                 PROVE  recovery'.memory[1] = run
    BY DEF Store!RecoveryIsThisRun
  <2>2. StoreTypes /\ seq \in Nat /\ Len(checkpoints) \in Nat
    BY <1>2 DEF StoreInv, StoreTypes
  <2>3. PICK target \in Store!Targets, n \in 1..Len(checkpoints) :
           /\ up /\ target \in Nat
           /\ recovery'.target = target /\ recovery'.seq = checkpoints[n].seq
           /\ recovery'.memory = checkpoints[n].memory
           /\ recovery'.replay_count = target - checkpoints[n].seq
           /\ checkpoints[n].seq <= target
           /\ \A i \in 1..Len(checkpoints) : i > n => checkpoints[i].seq > target
    BY <1>2, <2>1, RecoveryFinds
  <2>4. target <= seq
    BY <2>1, <2>2, <2>3 DEF Store!Targets
  <2>5. checkpoints[n].seq \in Int /\ checkpoints[n].seq >= k
    <3>1. checkpoints[n].seq \in 1..MaxSeq
      BY <2>2, CheckpointSeq DEF StoreTypes
    <3>2. QED
      BY <1>2, <3>1 DEF OneInterval
  <2>6. seq >= k /\ k <= target
    BY <1>1, <2>2, <2>3, <2>4, <2>5
  <2>7. PICK p \in 1..Len(checkpoints) :
          /\ checkpoints[p].seq = k
          /\ \A i \in p..Len(checkpoints) : checkpoints[i].memory[1] = run
    BY <1>2, <2>3, <2>6 DEF OneInterval
  <2>8. ~(p > n)
    BY <1>1, <2>3, <2>6, <2>7
  <2>9. n \in p..Len(checkpoints)
    BY <2>2, <2>8
  <2>10. QED
    BY <2>3, <2>7, <2>9
<1>3. QED
  BY <1>2, OneIntervalInvariance, PTL DEF Store!Spec

=============================================================================
