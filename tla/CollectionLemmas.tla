-------------------------- MODULE CollectionLemmas --------------------------
(***************************************************************************)
(* Facts about sequences, numbers, finite sets and sums that several of    *)
(* the proofs rest on.                                                     *)
(*                                                                         *)
(* A memory is the sequence of the payloads it was hashed from             *)
(* (memory.update_memory), so "these two memories belong to one history"   *)
(* is "one is a prefix of the other".                                      *)
(*                                                                         *)
(* What would be an induction is proved by looking at a least number, or a *)
(* smallest set, for which the claim would fail: strict inclusion of the   *)
(* subsets of a finite set is well founded.                                *)
(***************************************************************************)
EXTENDS Integers, Sequences, SequencesExt, FiniteSets, Functions,
        FiniteSetTheorems, WellFoundedInduction, TLAPS

-----------------------------------------------------------------------------
(* Prefixes, and counting in intervals *)

\* A prefix, element by element.
LEMMA PrefixElements ==
  ASSUME NEW S, NEW s \in Seq(S), NEW t \in Seq(S)
  PROVE  IsPrefix(s, t) <=>
           Len(s) <= Len(t) /\ \A i \in 1..Len(s) : s[i] = t[i]
BY DEF IsPrefix

\* Every history is a prefix of itself, and the empty one of every history.
LEMMA PrefixReflexive ==
  ASSUME NEW S, NEW s \in Seq(S)
  PROVE  IsPrefix(s, s) /\ IsPrefix(<<>>, s)
<1>1. IsPrefix(s, s)
  BY PrefixElements
<1>2. <<>> \in Seq(S) /\ Len(<<>>) = 0
  OBVIOUS
<1>3. ASSUME NEW r \in Seq(S), Len(r) = 0
      PROVE  IsPrefix(r, s)
  <2>1. Len(r) <= Len(s)
    BY <1>3
  <2>2. \A i \in 1..Len(r) : r[i] = s[i]
    BY <1>3
  <2>3. QED
    BY <2>1, <2>2, PrefixElements
<1>4. QED
  BY <1>1, <1>2, <1>3

LEMMA PrefixTransitive ==
  ASSUME NEW S, NEW s \in Seq(S), NEW t \in Seq(S), NEW u \in Seq(S),
         IsPrefix(s, t), IsPrefix(t, u)
  PROVE  IsPrefix(s, u)
BY PrefixElements

\* A prefix is not longer, and one of full length is the whole history.
LEMMA PrefixLength ==
  ASSUME NEW S, NEW s \in Seq(S), NEW t \in Seq(S), IsPrefix(s, t)
  PROVE  Len(s) <= Len(t) /\ (Len(s) = Len(t) => s = t)
BY PrefixElements

\* Accepting one more payload keeps every prefix.
LEMMA PrefixOfAppend ==
  ASSUME NEW S, NEW s \in Seq(S), NEW t \in Seq(S), NEW e \in S,
         IsPrefix(s, t)
  PROVE  IsPrefix(s, Append(t, e))
<1>1. /\ Append(t, e) \in Seq(S)
      /\ Len(Append(t, e)) = Len(t) + 1
      /\ \A i \in 1..Len(t) : Append(t, e)[i] = t[i]
  OBVIOUS
<1>2. Len(s) <= Len(t) /\ \A i \in 1..Len(s) : s[i] = t[i]
  BY PrefixElements
<1>3. Len(s) <= Len(Append(t, e)) /\ \A i \in 1..Len(s) : s[i] = Append(t, e)[i]
  BY <1>1, <1>2
<1>4. QED
  BY <1>1, <1>3, PrefixElements

\* The first n payloads, before and after one more is accepted.
LEMMA SubSeqOfAppend ==
  ASSUME NEW S, NEW t \in Seq(S), NEW e \in S, NEW n \in 0..Len(t)
  PROVE  SubSeq(Append(t, e), 1, n) = SubSeq(t, 1, n)
OBVIOUS

LEMMA SubSeqWhole ==
  ASSUME NEW S, NEW t \in Seq(S)
  PROVE  SubSeq(t, 1, Len(t)) = t
OBVIOUS

\* A prefix is the beginning of its length.
LEMMA PrefixIsSubSeq ==
  ASSUME NEW S, NEW s \in Seq(S), NEW t \in Seq(S), IsPrefix(s, t)
  PROVE  s = SubSeq(t, 1, Len(s))
BY SubSeqWhole DEF IsPrefix

-----------------------------------------------------------------------------
(* Counting messages in intervals (CheckpointManager.should_checkpoint) *)

LEMMA RemainderRange ==
  ASSUME NEW k \in Nat \ {0}, NEW n \in Nat
  PROVE  n % k \in 0..(k - 1) /\ k % k = 0
BY SMTT(60)

\* A number due for a checkpoint is not before the first such number, the interval.
LEMMA FirstDue ==
  ASSUME NEW k \in Nat \ {0}, NEW s \in Nat \ {0}
  PROVE  s % k = 0 => s >= k
<1>1. s < k => s % k = s
  OBVIOUS
<1>2. QED
  BY <1>1

LEMMA QuotientRemainder ==
  ASSUME NEW k \in Nat \ {0}, NEW n \in Nat
  PROVE  n = (k * (n \div k)) + (n % k) /\ n \div k \in Nat
BY SMTT(60)

LEMMA MultipleIsFar ==
  ASSUME NEW k \in Nat \ {0}, NEW d \in Int
  PROVE  (d >= 1 => k * d >= k) /\ (d <= -1 => k * d <= -k)
BY SMTT(60)

\* Between two multiples of the interval the remainder counts up by one.
LEMMA RemainderCountsUp ==
  ASSUME NEW k \in Nat \ {0}, NEW n \in Nat, (n + 1) % k # 0
  PROVE  (n + 1) % k = (n % k) + 1
<1> DEFINE q == n \div k
           r == n % k
           p == (n + 1) \div k
           s == (n + 1) % k
<1>1. n = (k * q) + r /\ r \in 0..(k - 1) /\ q \in Nat
  BY RemainderRange, QuotientRemainder
<1>2. n + 1 = (k * p) + s /\ s \in 0..(k - 1) /\ p \in Nat
  <2>1. n + 1 \in Nat
    OBVIOUS
  <2>2. QED
    BY <2>1, RemainderRange, QuotientRemainder
<1> HIDE DEF q, r, p, s
<1>3. s # 0
  BY DEF s
<1>4. k * (p - q) = (k * p) - (k * q) /\ k * p \in Int /\ k * q \in Int
  BY <1>1, <1>2
<1>5. k * (p - q) = (r + 1) - s
  BY <1>1, <1>2, <1>4
<1>6. p - q < 1
  <2>1. SUFFICES ASSUME p - q >= 1
                 PROVE  FALSE
    BY <1>1, <1>2
  <2>2. k * (p - q) >= k
    BY <1>1, <1>2, <2>1, MultipleIsFar
  <2>3. QED
    BY <1>1, <1>2, <1>3, <1>5, <2>2
<1>7. p - q > -1
  <2>1. SUFFICES ASSUME p - q <= -1
                 PROVE  FALSE
    BY <1>1, <1>2
  <2>2. k * (p - q) <= -k
    BY <1>1, <1>2, <2>1, MultipleIsFar
  <2>3. QED
    BY <1>1, <1>2, <1>3, <1>5, <2>2
<1>8. p = q
  BY <1>1, <1>2, <1>6, <1>7
<1>9. s = r + 1
  BY <1>1, <1>2, <1>8
<1>10. QED
  BY <1>9 DEF s, r

-----------------------------------------------------------------------------
(* Least elements *)

\* A set of subsets of a finite set has a smallest element.
LEMMA MinimalSubset ==
  ASSUME NEW S, IsFiniteSet(S), NEW T, T \subseteq SUBSET S, T # {}
  PROVE  \E x \in T : \A y \in T : y \subseteq x => y = x
<1>1. IsWellFoundedOn(StrictSubsetOrdering(S), SUBSET S)
  BY FS_StrictSubsetOrderingWellFounded, FS_FiniteSubsetsOfFinite
<1>2. PICK x \in T : \A y \in T : ~(<<y, x>> \in StrictSubsetOrdering(S))
  BY <1>1, WFMin
<1>3. QED
  BY <1>2 DEF StrictSubsetOrdering

\* A set of numbers up to n that is not empty has a least one.
LEMMA LeastNumber ==
  ASSUME NEW n \in Nat, NEW B, B \subseteq 0..n, B # {}
  PROVE  \E m \in B : \A k \in B : m <= k
<1> DEFINE S == 0..n
           T == {0..k : k \in B}
<1>1. IsFiniteSet(S)
  BY FS_Interval
<1>2. T \subseteq SUBSET S /\ T # {}
  <2>1. \A k \in B : 0..k \subseteq 0..n
    OBVIOUS
  <2>2. QED
    BY <2>1
<1>3. PICK x \in T : \A y \in T : y \subseteq x => y = x
  <2> HIDE DEF S, T
  <2>1. QED
    BY <1>1, <1>2, MinimalSubset
<1>4. PICK m \in B : x = 0..m
  OBVIOUS
<1>5. ASSUME NEW k \in B, k < m
      PROVE  FALSE
  <2>1. 0..k \subseteq x /\ 0..k \in T
    BY <1>4, <1>5
  <2>2. 0..k = x
    BY <2>1, <1>3
  <2>3. m \in x /\ m \notin 0..k
    BY <1>4, <1>5
  <2>4. QED
    BY <2>2, <2>3
<1>6. \A k \in B : m <= k
  BY <1>5
<1>7. QED
  BY <1>6

-----------------------------------------------------------------------------
(* Nested loops counted by one number *)

LEMMA DivideMultiple ==
  ASSUME NEW k \in Nat \ {0}, NEW q \in Nat, NEW s \in 0..(k - 1)
  PROVE  ((k * q) + s) \div k = q /\ ((k * q) + s) % k = s
<1> DEFINE n == (k * q) + s
           x == n \div k
           y == n % k
<1>1. n \in Nat /\ k * q \in Nat
  BY SMTT(30)
<1>2. n = (k * x) + y /\ x \in Nat /\ y \in 0..(k - 1)
  <2> HIDE DEF n
  <2>1. QED
    BY <1>1, QuotientRemainder, RemainderRange
<1> HIDE DEF x, y
<1>3. (k * x) + y = (k * q) + s
  BY <1>2
<1>4. k * (x - q) = (k * x) - (k * q)
  BY <1>2, SMTT(30)
<1>5. x - q = 0
  <2>1. x - q >= 1 => k * (x - q) >= k
    BY <1>2, MultipleIsFar
  <2>2. x - q <= -1 => k * (x - q) <= -k
    BY <1>2, MultipleIsFar
  <2>3. k * x \in Int /\ k * q \in Int
    BY <1>2
  <2> DEFINE kx == k * x
             kq == k * q
             kd == k * (x - q)
  <2>4. kd = kx - kq /\ kx + y = kq + s /\ kx \in Int /\ kq \in Int
        /\ (x - q >= 1 => kd >= k) /\ (x - q <= -1 => kd <= -k)
    BY <1>3, <1>4, <2>1, <2>2, <2>3
  <2> HIDE DEF kx, kq, kd
  <2>5. QED
    BY <1>2, <2>4
<1>6. x = q
  BY <1>2, <1>5
<1>7. y = s
  BY <1>1, <1>2, <1>3, <1>6
<1>8. QED
  BY <1>6, <1>7 DEF x, y

LEMMA SmallQuotient ==
  ASSUME NEW k \in Nat \ {0}, NEW m \in Nat, NEW n \in 0..((k * m) - 1)
  PROVE  n \div k \in 0..(m - 1)
<1>1. k * m \in Nat /\ n \in Nat
  BY SMTT(30)
<1> DEFINE x == n \div k
           y == n % k
<1>2. n = (k * x) + y /\ x \in Nat /\ y \in 0..(k - 1)
  BY <1>1, QuotientRemainder, RemainderRange
<1> HIDE DEF x, y
<1>3. SUFFICES ASSUME x >= m PROVE FALSE
  BY <1>2 DEF x
<1>4. k * (x - m) = (k * x) - (k * m)
  BY <1>2, SMTT(30)
<1>5. k * (x - m) >= 0
  BY <1>2, <1>3, SMTT(30)
<1> DEFINE kx == k * x
           km == k * m
           kd == k * (x - m)
<1>6. kd = kx - km /\ n = kx + y /\ n <= km - 1 /\ kd >= 0 /\ kx \in Int /\ km \in Int
  BY <1>1, <1>2, <1>4, <1>5
<1> HIDE DEF kx, km, kd
<1>7. QED
  BY <1>2, <1>6

\* The remainder of a remainder.
LEMMA InnerRemainder ==
  ASSUME NEW k \in Nat \ {0}, NEW m \in Nat \ {0}, NEW n \in Nat
  PROVE  /\ k * m \in Nat \ {0} /\ n % (k * m) \in 0..((k * m) - 1)
         /\ (n % (k * m)) % k = n % k
<1> DEFINE l == k * m
           q == n \div l
           s == n % l
           x == s \div k
           y == s % k
<1>1. l \in Nat \ {0}
  BY SMTT(30)
<1>2. n = (l * q) + s /\ q \in Nat /\ s \in 0..(l - 1)
  <2> HIDE DEF l
  <2>1. QED
    BY <1>1, QuotientRemainder, RemainderRange
<1>3. s = (k * x) + y /\ x \in Nat /\ y \in 0..(k - 1)
  <2>1. s \in Nat
    BY <1>1, <1>2
  <2> HIDE DEF s
  <2>2. QED
    BY <2>1, QuotientRemainder, RemainderRange
<1>4. l * q = k * (m * q)
  <2> HIDE DEF q
  <2>1. QED
    BY <1>2, SMTT(30)
<1>5. n = (k * ((m * q) + x)) + y
  <2> DEFINE mq == m * q
  <2>1. mq \in Nat
    BY <1>2
  <2>2. n = (k * mq) + (k * x) + y
    BY <1>2, <1>3, <1>4
  <2> HIDE DEF mq, x, y, l, q, s
  <2>3. (k * (mq + x)) = (k * mq) + (k * x)
    BY <1>3, <2>1, SMTT(30)
  <2>4. k * mq \in Nat /\ k * x \in Nat
    BY <1>3, <2>1
  <2>5. QED
    BY <2>2, <2>3 DEF mq
<1>6. (m * q) + x \in Nat
  BY <1>2, <1>3
<1> HIDE DEF q, x, y
<1>7. n % k = y
  <2> DEFINE z == (m * q) + x
  <2>1. n = (k * z) + y /\ z \in Nat
    BY <1>5, <1>6
  <2> HIDE DEF z
  <2>2. QED
    BY <1>3, <2>1, DivideMultiple
<1>8. QED
  BY <1>1, <1>2, <1>7 DEF y
LEMMA RemainderTwice ==
  ASSUME NEW k \in Nat \ {0}, NEW m \in Nat \ {0}, NEW l \in Nat \ {0}, l = k * m, NEW n \in Nat
  PROVE  (n % l) % k = n % k
BY InnerRemainder

LEMMA NestedRemainder ==
  ASSUME NEW k \in Nat \ {0}, NEW m \in Nat \ {0}, NEW n \in Nat
  PROVE  n % (k * m) = (k * ((n % (k * m)) \div k)) + (n % k)
<1> DEFINE s == n % (k * m)
<1>1. s \in Nat /\ s % k = n % k
  <2>1. s \in 0..((k * m) - 1) /\ k * m \in Nat /\ s % k = n % k
    BY InnerRemainder
  <2> DEFINE l == k * m
  <2>2. s \in 0..(l - 1) /\ l \in Nat
    BY <2>1
  <2> HIDE DEF s, l
  <2>3. s \in Nat
    BY <2>2
  <2>4. QED
    BY <2>1, <2>3
<1> HIDE DEF s
<1>2. s = (k * (s \div k)) + (s % k)
  BY <1>1, QuotientRemainder
<1>3. QED
  BY <1>1, <1>2 DEF s

LEMMA BelowMultiple ==
  ASSUME NEW k \in Nat \ {0}, NEW m \in Nat, NEW q \in 0..(m - 1), NEW s \in 0..(k - 1)
  PROVE  (k * q) + s \in 0..((k * m) - 1)
<1>1. k * (m - q) >= k
  <2>1. m - q >= 1 /\ m - q \in Int
    OBVIOUS
  <2>2. QED
    BY <2>1, MultipleIsFar
<1>2. k * (m - q) = (k * m) - (k * q)
  BY SMTT(30)
<1>3. k * q \in Nat /\ k * m \in Nat /\ q \in Nat
  BY SMTT(30)
<1> DEFINE km == k * m
           kq == k * q
           kd == k * (m - q)
<1>4. kd >= k /\ kd = km - kq /\ kq \in Nat /\ km \in Nat
  BY <1>1, <1>2, <1>3
<1> HIDE DEF km, kq, kd
<1>5. kq + s \in 0..(km - 1)
  BY <1>4
<1>6. QED
  BY <1>5 DEF km, kq

-----------------------------------------------------------------------------
(* Four loops, of A, B, C and R turns *)

\* Where the loops stand in the turn after i turns: t turns of the last two
\* loops make one of the second, p make one of the first.
Loops(i, p, t, R) == <<i \div p, (i % p) \div t, (i % t) \div R, i % R>>

FourLoops(A, B, C, R, t, p, N) ==
  /\ A \in Nat \ {0} /\ B \in Nat \ {0} /\ C \in Nat \ {0} /\ R \in Nat \ {0}
  /\ t \in Nat \ {0} /\ p \in Nat \ {0} /\ N \in Nat \ {0}
  /\ t = R * C /\ p = t * B /\ N = p * A

LEMMA LoopsStay ==
  ASSUME NEW A, NEW B, NEW C, NEW R, NEW t, NEW p, NEW N, FourLoops(A, B, C, R, t, p, N)
  PROVE  \A i \in 0..(N - 1) :
           /\ i \div p \in 0..(A - 1) /\ (i % p) \div t \in 0..(B - 1)
           /\ (i % t) \div R \in 0..(C - 1) /\ i % R \in 0..(R - 1)
<1>0. /\ A \in Nat \ {0} /\ B \in Nat \ {0} /\ C \in Nat \ {0} /\ R \in Nat \ {0}
      /\ t \in Nat \ {0} /\ p \in Nat \ {0} /\ N \in Nat \ {0}
      /\ t = R * C /\ p = t * B /\ N = p * A
  BY DEF FourLoops
<1>1. ASSUME NEW i \in 0..(N - 1)
      PROVE  /\ i \div p \in 0..(A - 1) /\ (i % p) \div t \in 0..(B - 1)
             /\ (i % t) \div R \in 0..(C - 1) /\ i % R \in 0..(R - 1)
  <2>1. i \in Nat
    BY <1>0
  <2>2. i \div p \in 0..(A - 1)
    BY <1>0, SmallQuotient
  <2>3. (i % p) \div t \in 0..(B - 1)
    <3>1. i % p \in 0..((t * B) - 1)
      BY <1>0, <2>1, RemainderRange
    <3>2. QED
      BY <1>0, <3>1, SmallQuotient
  <2>4. (i % t) \div R \in 0..(C - 1)
    <3>1. i % t \in 0..((R * C) - 1)
      BY <1>0, <2>1, RemainderRange
    <3>2. QED
      BY <1>0, <3>1, SmallQuotient
  <2>5. i % R \in 0..(R - 1)
    BY <1>0, <2>1, RemainderRange
  <2>6. QED
    BY <2>2, <2>3, <2>4, <2>5
<1>2. QED
  BY <1>1

LEMMA LoopsReach ==
  ASSUME NEW A, NEW B, NEW C, NEW R, NEW t, NEW p, NEW N, FourLoops(A, B, C, R, t, p, N)
  PROVE  \A x \in 0..(A - 1), y \in 0..(B - 1), z \in 0..(C - 1), w \in 0..(R - 1) :
           \E i \in 0..(N - 1) : Loops(i, p, t, R) = <<x, y, z, w>>
<1>a. R \in Nat \ {0} /\ C \in Nat \ {0} /\ t \in Nat \ {0} /\ t = R * C
  BY DEF FourLoops
<1>b. t \in Nat \ {0} /\ B \in Nat \ {0} /\ p \in Nat \ {0} /\ p = t * B
  BY DEF FourLoops
<1>c. p \in Nat \ {0} /\ A \in Nat \ {0} /\ N \in Nat \ {0} /\ N = p * A
  BY DEF FourLoops
<1>d. \A n \in Nat : (n % t) % R = n % R
  BY <1>a, RemainderTwice
<1>e. \A n \in Nat : (n % p) % t = n % t
  BY <1>b, RemainderTwice
<1>1. ASSUME NEW x \in 0..(A - 1), NEW y \in 0..(B - 1), NEW z \in 0..(C - 1),
             NEW w \in 0..(R - 1)
      PROVE  \E i \in 0..(N - 1) : Loops(i, p, t, R) = <<x, y, z, w>>
  <2> DEFINE s2 == (R * z) + w
             s1 == (t * y) + s2
             i  == (p * x) + s1
  <2>1. s2 \in 0..(t - 1) /\ s2 \div R = z /\ s2 % R = w
    <3>1. z \in Nat
      BY <1>a
    <3>2. QED
      BY <1>a, <3>1, BelowMultiple, DivideMultiple
  <2> HIDE DEF s2
  <2>2. s1 \in 0..(p - 1) /\ s1 \div t = y /\ s1 % t = s2
    <3>1. y \in Nat
      BY <1>b
    <3>2. QED
      BY <1>b, <2>1, <3>1, BelowMultiple, DivideMultiple
  <2> HIDE DEF s1
  <2>3. i \in 0..(N - 1) /\ i \div p = x /\ i % p = s1
    <3>1. x \in Nat
      BY <1>c
    <3>2. QED
      BY <1>c, <2>2, <3>1, BelowMultiple, DivideMultiple
  <2> HIDE DEF i
  <2>4. i \in Nat
    BY <1>c, <2>3
  <2>5. i % t = s2
    <3>1. (i % p) % t = i % t
      BY <1>e, <2>4
    <3>2. QED
      BY <2>2, <2>3, <3>1
  <2>6. i % R = w
    <3>1. (i % t) % R = i % R
      BY <1>d, <2>4
    <3>2. QED
      BY <2>1, <2>5, <3>1
  <2>7. Loops(i, p, t, R) = <<x, y, z, w>>
    BY <2>1, <2>2, <2>3, <2>5, <2>6 DEF Loops
  <2>8. QED
    BY <2>3, <2>7
<1>2. QED
  BY <1>1

LEMMA LoopsDiffer ==
  ASSUME NEW A, NEW B, NEW C, NEW R, NEW t, NEW p, NEW N, FourLoops(A, B, C, R, t, p, N),
         NEW i \in Nat, NEW j \in Nat, Loops(i, p, t, R) = Loops(j, p, t, R)
  PROVE  i = j
<1>0. /\ B \in Nat \ {0} /\ C \in Nat \ {0} /\ R \in Nat \ {0} /\ t \in Nat \ {0}
      /\ p \in Nat \ {0} /\ t = R * C /\ p = t * B
  BY DEF FourLoops
<1>1. /\ i \div p = j \div p /\ (i % p) \div t = (j % p) \div t
      /\ (i % t) \div R = (j % t) \div R /\ i % R = j % R
  BY DEF Loops
<1>2. i % t = j % t
  <2>1. \A n \in Nat : n % t = (R * ((n % t) \div R)) + (n % R)
    BY <1>0, NestedRemainder
  <2>2. QED
    BY <1>1, <2>1
<1>3. i % p = j % p
  <2>1. \A n \in Nat : n % p = (t * ((n % p) \div t)) + (n % t)
    BY <1>0, NestedRemainder
  <2>2. QED
    BY <1>1, <1>2, <2>1
<1>4. \A n \in Nat : n = (p * (n \div p)) + (n % p)
  BY <1>0, QuotientRemainder
<1>5. QED
  BY <1>1, <1>3, <1>4

LEMMA FourEqual ==
  ASSUME NEW a, NEW b, NEW c, NEW d, NEW e, NEW f, NEW g, NEW h,
         <<a, b, c, d>> = <<e, f, g, h>>
  PROVE  a = e /\ b = f /\ c = g /\ d = h
OBVIOUS

-----------------------------------------------------------------------------
(* Finite sets *)

\* Sets without a common element.
LEMMA DisjointUnion ==
  ASSUME NEW S, IsFiniteSet(S), NEW T, IsFiniteSet(T), S \cap T = {}
  PROVE  /\ IsFiniteSet(S \union T)
         /\ Cardinality(S \union T) = Cardinality(S) + Cardinality(T)
<1>1. Cardinality({}) = 0
  BY FS_EmptySet
<1>2. Cardinality(S) \in Nat /\ Cardinality(T) \in Nat
  BY FS_CardinalityType
<1>3. /\ IsFiniteSet(S \union T)
      /\ Cardinality(S \union T) =
           Cardinality(S) + Cardinality(T) - Cardinality(S \cap T)
  BY FS_Union
<1>4. Cardinality(S \cap T) = 0
  BY <1>1
<1>5. QED
  BY <1>2, <1>3, <1>4

\* R numbers that take every value from 1 to R differ.
LEMMA NumbersDiffer ==
  ASSUME NEW R \in Nat, NEW id \in [1..R -> 1..R], \A k \in 1..R : \E i \in 1..R : id[i] = k
  PROVE  \A i, j \in 1..R : id[i] = id[j] => i = j
<1>1. IsFiniteSet(1..R)
  BY FS_Interval
<1>2. id \in Surjection(1..R, 1..R)
  BY DEF Surjection
<1>3. id \in Injection(1..R, 1..R)
  BY <1>1, <1>2, FS_SurjSameCardinalityImpliesInj
<1>4. QED
  BY <1>3 DEF Injection, IsInjective

\* SetToSeq lists every element of a finite set once.
LEMMA SetToSeqLists ==
  ASSUME NEW S, IsFiniteSet(S)
  PROVE  /\ SetToSeq(S) \in [1..Cardinality(S) -> S]
         /\ \A i, j \in 1..Cardinality(S) :
              SetToSeq(S)[i] = SetToSeq(S)[j] => i = j
         /\ \A x \in S : \E i \in 1..Cardinality(S) : SetToSeq(S)[i] = x
<1> DEFINE n == Cardinality(S)
           s == SetToSeq(S)
<1>1. n \in Nat /\ ExistsBijection(1..n, S)
  BY FS_CardinalityType
<1>2. PICK f : f \in Bijection(1..n, S)
  BY <1>1 DEF ExistsBijection
<1>3. f \in [1..n -> S] /\ IsInjective(f)
  BY <1>2 DEF Bijection, Injection
<1>4. s \in [1..n -> S] /\ IsInjective(s)
  BY <1>3 DEF SetToSeq
<1>5. s \in Injection(1..n, S)
  BY <1>4 DEF Injection
<1>6. IsFiniteSet(1..n) /\ Cardinality(1..n) = n
  BY <1>1, FS_Interval
<1>7. s \in Surjection(1..n, S)
  BY <1>5, <1>6, FS_Injection
<1>8. \A x \in S : \E i \in 1..n : s[i] = x
  BY <1>7 DEF Surjection
<1>9. QED
  BY <1>4, <1>8 DEF IsInjective

-----------------------------------------------------------------------------
(* Sums: what FoldFunction(+, 0, f) computes, in whatever order *)

Chosen(s) == CHOOSE x \in s : TRUE

\* g is what the fold computes on the subsets of S.
IsSum(g, f, S) ==
  g = [s \in SUBSET S |->
         IF s = {} THEN 0
         ELSE f[Chosen(s)] + g[s \ {Chosen(s)}]]

Sum(f, S) == (CHOOSE g : IsSum(g, f, S))[S]

\* The fold of the community module is this sum.
LEMMA FoldIsSum ==
  ASSUME NEW f
  PROVE  FoldFunction(+, 0, f) = Sum(f, DOMAIN f)
BY DEF FoldFunction, FoldFunctionOnSet, MapThenFoldSet, IsSum, Sum, Chosen

-----------------------------------------------------------------------------
(* The sum exists, and follows its recursion. *)

LEMMA ChosenElement ==
  ASSUME NEW s, s # {}
  PROVE  Chosen(s) \in s
BY DEF Chosen

LEMMA SumUnfolds ==
  ASSUME NEW S, NEW f, NEW g, IsSum(g, f, S), NEW s \in SUBSET S
  PROVE  /\ s = {} => g[s] = 0
         /\ s # {} => g[s] = f[Chosen(s)] + g[s \ {Chosen(s)}]
BY DEF IsSum

\* Two folds agree where both are defined.
LEMMA SumUnique ==
  ASSUME NEW S, IsFiniteSet(S), NEW f, NEW A \in SUBSET S, NEW B \in SUBSET S,
         NEW g, IsSum(g, f, A), NEW h, IsSum(h, f, B),
         NEW u, u \subseteq A, u \subseteq B
  PROVE  g[u] = h[u]
<1> DEFINE T == {s \in SUBSET S : s \subseteq A /\ s \subseteq B /\ g[s] # h[s]}
<1>1. SUFFICES ASSUME T # {} PROVE FALSE
  OBVIOUS
<1>2. PICK s \in T : \A y \in T : y \subseteq s => y = s
  <2>1. T \subseteq SUBSET S
    OBVIOUS
  <2> HIDE DEF T
  <2>2. QED
    BY <1>1, <2>1, MinimalSubset
<1>3. s # {}
  BY SumUnfolds
<1> DEFINE x == Chosen(s)
<1>4. x \in s
  BY <1>3, ChosenElement
<1>5. g[s \ {x}] = h[s \ {x}]
  BY <1>2, <1>4
<1>6. g[s] = f[x] + g[s \ {x}] /\ h[s] = f[x] + h[s \ {x}]
  <2>1. s \in SUBSET A /\ s \in SUBSET B
    OBVIOUS
  <2>2. QED
    BY <1>3, <2>1, SumUnfolds
<1>7. QED
  BY <1>2, <1>5, <1>6

LEMMA SumExists ==
  ASSUME NEW S, IsFiniteSet(S), NEW f, NEW A \in SUBSET S
  PROVE  \E g : IsSum(g, f, A)
<1> DEFINE T == {s \in SUBSET S : ~\E g : IsSum(g, f, s)}
<1>1. SUFFICES ASSUME T # {} PROVE FALSE
  OBVIOUS
<1>2. PICK s \in T : \A y \in T : y \subseteq s => y = s
  <2>1. T \subseteq SUBSET S
    OBVIOUS
  <2> HIDE DEF T
  <2>2. QED
    BY <1>1, <2>1, MinimalSubset
<1>3. ASSUME NEW y \in SUBSET s, y # s
      PROVE  IsSum(CHOOSE k : IsSum(k, f, y), f, y)
  <2>1. y \in SUBSET S /\ ~(y \in T)
    BY <1>2, <1>3
  <2>2. \E g : IsSum(g, f, y)
    BY <2>1
  <2>3. QED
    BY <2>2
<1> DEFINE g == [y \in SUBSET s |->
                   IF y = {} THEN 0
                   ELSE LET x == Chosen(y)
                        IN  f[x] + Sum(f, y \ {x})]
<1>4. ASSUME NEW y \in SUBSET s, y # s
      PROVE  g[y] = Sum(f, y)
  <2> DEFINE h == CHOOSE k : IsSum(k, f, y)
  <2>1. IsSum(h, f, y)
    BY <1>3, <1>4
  <2>2. Sum(f, y) = h[y]
    BY DEF Sum
  <2>3. CASE y = {}
    BY <2>1, <2>2, <2>3, SumUnfolds
  <2>4. CASE y # {}
    <3> DEFINE x == Chosen(y)
               z == y \ {x}
               k == CHOOSE g1 : IsSum(g1, f, z)
    <3>1. x \in y /\ z \in SUBSET s /\ z # s /\ z \subseteq y
      BY <2>4, ChosenElement
    <3>2. IsSum(k, f, z)
      BY <3>1, <1>3
    <3>3. Sum(f, z) = k[z]
      BY DEF Sum
    <3>4. h[y] = f[x] + h[z]
      BY <2>1, <2>4, SumUnfolds
    <3>5. h[z] = k[z]
      <4>1. y \in SUBSET S /\ z \in SUBSET S
        BY <3>1
      <4> HIDE DEF h, k, z
      <4>2. QED
        BY <4>1, <3>1, <3>2, <2>1, SumUnique
    <3>6. g[y] = f[x] + Sum(f, z)
      BY <2>4
    <3>7. QED
      BY <2>2, <3>3, <3>4, <3>5, <3>6
  <2>5. QED
    BY <2>3, <2>4
<1>5. ASSUME NEW y \in SUBSET s, y # {}
      PROVE  Sum(f, y \ {Chosen(y)}) = g[y \ {Chosen(y)}]
  <2> DEFINE x == Chosen(y)
  <2>1. x \in y
    BY <1>5, ChosenElement
  <2>2. y \ {x} \in SUBSET s /\ y \ {x} # s
    BY <2>1
  <2> HIDE DEF g, x
  <2>3. Sum(f, y \ {x}) = g[y \ {x}]
    BY <2>2, <1>4
  <2>4. QED
    BY <2>3 DEF x
<1>6. IsSum(g, f, s)
  <2> DEFINE r == [y \in SUBSET s |->
                     IF y = {} THEN 0
                     ELSE LET x == Chosen(y) IN f[x] + g[y \ {x}]]
  <2>1. ASSUME NEW y \in SUBSET s PROVE g[y] = r[y]
    <3>1. CASE y = {}
      BY <3>1
    <3>2. CASE y # {}
      <4> DEFINE x == Chosen(y)
      <4>1. g[y] = f[x] + Sum(f, y \ {x})
        BY <3>2
      <4>2. Sum(f, y \ {x}) = g[y \ {x}]
        BY <3>2, <1>5
      <4>3. r[y] = f[x] + g[y \ {x}]
        <5> HIDE DEF g
        <5>1. QED
          BY <3>2
      <4> HIDE DEF g, r, x
      <4>4. QED
        BY <4>1, <4>2, <4>3
    <3>3. QED
      BY <3>1, <3>2
  <2>2. g = r
    BY <2>1
  <2>3. QED
    BY <2>2 DEF IsSum
<1>7. QED
  BY <1>2, <1>6

LEMMA SumIs ==
  ASSUME NEW S, IsFiniteSet(S), NEW f, NEW g, IsSum(g, f, S)
  PROVE  Sum(f, S) = g[S]
<1>1. PICK h : h = CHOOSE k : IsSum(k, f, S)
  OBVIOUS
<1>2. IsSum(h, f, S)
  BY <1>1
<1>3. Sum(f, S) = h[S]
  BY <1>1 DEF Sum
<1>4. S \in SUBSET S
  OBVIOUS
<1>5. h[S] = g[S]
  BY <1>2, <1>4, SumUnique
<1>6. QED
  BY <1>3, <1>5

LEMMA SumRecursion ==
  ASSUME NEW S, IsFiniteSet(S), NEW f
  PROVE  /\ S = {} => Sum(f, S) = 0
         /\ S # {} => Sum(f, S) = f[Chosen(S)] + Sum(f, S \ {Chosen(S)})
<1>1. PICK g : IsSum(g, f, S)
  <2>1. S \in SUBSET S
    OBVIOUS
  <2>2. QED
    BY <2>1, SumExists
<1>2. Sum(f, S) = g[S]
  BY <1>1, SumIs
<1>3. S \in SUBSET S
  OBVIOUS
<1>4. CASE S = {}
  BY <1>1, <1>2, <1>3, <1>4, SumUnfolds
<1>5. CASE S # {}
  <2>1. PICK x : x = Chosen(S)
    OBVIOUS
  <2>2. g[S] = f[x] + g[S \ {x}]
    BY <1>1, <1>3, <1>5, <2>1, SumUnfolds
  <2>3. S \ {x} \in SUBSET S
    OBVIOUS
  <2>4. PICK k : IsSum(k, f, S \ {x})
    BY <2>3, SumExists
  <2>5. IsFiniteSet(S \ {x})
    BY <2>3, FS_Subset
  <2>6. Sum(f, S \ {x}) = k[S \ {x}]
    BY <2>4, <2>5, SumIs
  <2>7. g[S \ {x}] = k[S \ {x}]
    BY <1>1, <1>3, <2>3, <2>4, SumUnique
  <2>8. QED
    BY <1>2, <1>5, <2>1, <2>2, <2>6, <2>7
<1>6. QED
  BY <1>4, <1>5

-----------------------------------------------------------------------------
(* Sums of natural numbers *)

LEMMA SumRecursionOf ==
  ASSUME NEW S, IsFiniteSet(S), S # {}, NEW f
  PROVE  \E x \in S : Sum(f, S) = f[x] + Sum(f, S \ {x})
<1> DEFINE x == Chosen(S)
<1>1. x \in S
  BY ChosenElement
<1>2. Sum(f, S) = f[x] + Sum(f, S \ {x})
  BY SumRecursion
<1>3. QED
  BY <1>1, <1>2

LEMMA SumType ==
  ASSUME NEW S, IsFiniteSet(S), NEW f, \A x \in S : f[x] \in Nat
  PROVE  Sum(f, S) \in Nat
<1> DEFINE T == {s \in SUBSET S : ~(Sum(f, s) \in Nat)}
<1>1. SUFFICES ASSUME T # {} PROVE FALSE
  OBVIOUS
<1>2. PICK s \in T : \A y \in T : y \subseteq s => y = s
  <2>1. T \subseteq SUBSET S
    OBVIOUS
  <2> HIDE DEF T
  <2>2. QED
    BY <1>1, <2>1, MinimalSubset
<1>3. IsFiniteSet(s)
  BY FS_Subset
<1>4. s # {}
  BY <1>3, SumRecursion
<1>5. PICK x \in s : Sum(f, s) = f[x] + Sum(f, s \ {x})
  BY <1>3, <1>4, SumRecursionOf
<1>6. Sum(f, s \ {x}) \in Nat
  BY <1>2, <1>5
<1>7. f[x] \in Nat
  OBVIOUS
<1>8. QED
  BY <1>5, <1>6, <1>7

\* Only the values on the set count.
LEMMA SumLocal ==
  ASSUME NEW S, IsFiniteSet(S), NEW f, NEW h, \A x \in S : f[x] = h[x]
  PROVE  Sum(f, S) = Sum(h, S)
<1> DEFINE T == {s \in SUBSET S : Sum(f, s) # Sum(h, s)}
<1>1. SUFFICES ASSUME T # {} PROVE FALSE
  OBVIOUS
<1>2. PICK s \in T : \A y \in T : y \subseteq s => y = s
  <2>1. T \subseteq SUBSET S
    OBVIOUS
  <2> HIDE DEF T
  <2>2. QED
    BY <1>1, <2>1, MinimalSubset
<1>3. IsFiniteSet(s)
  BY FS_Subset
<1>4. s # {}
  BY <1>3, SumRecursion
<1> DEFINE x == Chosen(s)
<1>5. x \in s
  BY <1>4, ChosenElement
<1>6. /\ Sum(f, s) = f[x] + Sum(f, s \ {x})
      /\ Sum(h, s) = h[x] + Sum(h, s \ {x})
  BY <1>3, <1>4, SumRecursion
<1>7. Sum(f, s \ {x}) = Sum(h, s \ {x})
  BY <1>2, <1>5
<1>8. f[x] = h[x]
  BY <1>5
<1>9. QED
  BY <1>2, <1>6, <1>7, <1>8

\* Any element may be taken first.
LEMMA SumRemove ==
  ASSUME NEW S, IsFiniteSet(S), NEW f, \A x \in S : f[x] \in Nat,
         NEW i \in S
  PROVE  Sum(f, S) = f[i] + Sum(f, S \ {i})
<1> DEFINE Splits(s) == \A j \in s : Sum(f, s) = f[j] + Sum(f, s \ {j})
           T == {s \in SUBSET S : ~Splits(s)}
<1>1. SUFFICES ASSUME T # {} PROVE FALSE
  <2>1. T = {} => Splits(S)
    OBVIOUS
  <2>2. QED
    BY <2>1
<1>2. PICK s \in T : \A y \in T : y \subseteq s => y = s
  <2>1. T \subseteq SUBSET S
    OBVIOUS
  <2> HIDE DEF T
  <2>2. QED
    BY <1>1, <2>1, MinimalSubset
<1>3. ASSUME NEW y \in SUBSET s, y # s, NEW j \in y
      PROVE  Sum(f, y) = f[j] + Sum(f, y \ {j})
  <2>1. y \in SUBSET S /\ ~(y \in T)
    BY <1>2, <1>3
  <2>2. QED
    BY <2>1, <1>3
<1>4. PICK j \in s : Sum(f, s) # f[j] + Sum(f, s \ {j})
  BY <1>2
<1>5. IsFiniteSet(s) /\ s # {}
  BY <1>4, FS_Subset
<1>6. PICK x \in s : Sum(f, s) = f[x] + Sum(f, s \ {x})
  BY <1>5, SumRecursionOf
<1>7. x # j
  BY <1>4, <1>6
<1>8. Sum(f, s \ {x}) = f[j] + Sum(f, (s \ {x}) \ {j})
  <2>1. s \ {x} \in SUBSET s /\ s \ {x} # s /\ j \in s \ {x}
    BY <1>6, <1>7
  <2>2. QED
    BY <2>1, <1>3
<1>9. Sum(f, s \ {j}) = f[x] + Sum(f, (s \ {j}) \ {x})
  <2>1. s \ {j} \in SUBSET s /\ s \ {j} # s /\ x \in s \ {j}
    BY <1>4, <1>7
  <2>2. QED
    BY <2>1, <1>3
<1>10. (s \ {x}) \ {j} = (s \ {j}) \ {x}
  OBVIOUS
<1>11. f[x] \in Nat /\ f[j] \in Nat /\ Sum(f, (s \ {x}) \ {j}) \in Nat
  <2>1. IsFiniteSet((s \ {x}) \ {j}) /\ (s \ {x}) \ {j} \subseteq S
    BY FS_Subset
  <2>2. QED
    BY <2>1, SumType
<1>12. PICK rest : rest = Sum(f, (s \ {x}) \ {j})
  OBVIOUS
<1>13. Sum(f, s \ {x}) = f[j] + rest /\ Sum(f, s \ {j}) = f[x] + rest
  BY <1>8, <1>9, <1>10, <1>12
<1>14. f[x] \in Nat /\ f[j] \in Nat /\ rest \in Nat
  BY <1>11, <1>12
<1>15. f[x] + (f[j] + rest) = f[j] + (f[x] + rest)
  BY <1>14
<1>16. Sum(f, s) = f[j] + Sum(f, s \ {j})
  BY <1>6, <1>13, <1>15
<1>17. QED
  BY <1>4, <1>16

\* Counting one more at one place.
LEMMA SumOneMore ==
  ASSUME NEW S, IsFiniteSet(S), NEW f, \A x \in S : f[x] \in Nat,
         NEW h, NEW i \in S, h[i] = f[i] + 1,
         \A x \in S \ {i} : h[x] = f[x]
  PROVE  Sum(h, S) = Sum(f, S) + 1
<1>1. \A x \in S : h[x] \in Nat
  OBVIOUS
<1>2. Sum(f, S) = f[i] + Sum(f, S \ {i})
  BY SumRemove
<1>3. Sum(h, S) = h[i] + Sum(h, S \ {i})
  BY <1>1, SumRemove
<1>4. IsFiniteSet(S \ {i}) /\ Sum(f, S \ {i}) \in Nat
  <2>1. IsFiniteSet(S \ {i})
    BY FS_Subset
  <2>2. QED
    BY <2>1, SumType
<1>5. Sum(h, S \ {i}) = Sum(f, S \ {i})
  BY <1>4, SumLocal
<1>6. QED
  BY <1>2, <1>3, <1>4, <1>5

\* A constant function.
LEMMA SumOfZeros ==
  ASSUME NEW S, IsFiniteSet(S), NEW f, \A x \in S : f[x] = 0
  PROVE  Sum(f, S) = 0
<1> DEFINE T == {s \in SUBSET S : Sum(f, s) # 0}
<1>1. SUFFICES ASSUME T # {} PROVE FALSE
  OBVIOUS
<1>2. PICK s \in T : \A y \in T : y \subseteq s => y = s
  <2>1. T \subseteq SUBSET S
    OBVIOUS
  <2> HIDE DEF T
  <2>2. QED
    BY <1>1, <2>1, MinimalSubset
<1>3. IsFiniteSet(s)
  BY FS_Subset
<1>4. s # {}
  BY <1>3, SumRecursion
<1>5. PICK x \in s : Sum(f, s) = f[x] + Sum(f, s \ {x})
  BY <1>3, <1>4, SumRecursionOf
<1>6. Sum(f, s \ {x}) = 0
  BY <1>2, <1>5
<1>7. f[x] = 0
  OBVIOUS
<1>8. QED
  BY <1>2, <1>5, <1>6, <1>7

LEMMA SumOfOnes ==
  ASSUME NEW S, IsFiniteSet(S), NEW f, \A x \in S : f[x] = 1
  PROVE  Sum(f, S) = Cardinality(S)
<1> DEFINE T == {s \in SUBSET S : Sum(f, s) # Cardinality(s)}
<1>1. SUFFICES ASSUME T # {} PROVE FALSE
  OBVIOUS
<1>2. PICK s \in T : \A y \in T : y \subseteq s => y = s
  <2>1. T \subseteq SUBSET S
    OBVIOUS
  <2> HIDE DEF T
  <2>2. QED
    BY <1>1, <2>1, MinimalSubset
<1>3. IsFiniteSet(s)
  BY FS_Subset
<1>4. s # {}
  BY <1>3, SumRecursion, FS_EmptySet
<1>5. PICK x \in s : Sum(f, s) = f[x] + Sum(f, s \ {x})
  BY <1>3, <1>4, SumRecursionOf
<1>6. Sum(f, s \ {x}) = Cardinality(s \ {x})
  BY <1>2, <1>5
<1>7. f[x] = 1
  OBVIOUS
<1>8. Cardinality(s \ {x}) = Cardinality(s) - 1 /\ Cardinality(s) \in Nat
  BY <1>3, FS_RemoveElement, FS_CardinalityType
<1>9. QED
  BY <1>2, <1>5, <1>6, <1>7, <1>8

=============================================================================
