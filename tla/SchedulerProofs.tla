---------------------------- MODULE SchedulerProofs ----------------------------
(***************************************************************************)
(* Proofs about SchedulerLoops: what the scheduler's loops compute is, for *)
(* every plan, policy and input, what Scheduler says without a loop, and   *)
(* the other modules rest on that form.                                    *)
(*                                                                         *)
(* A loop is a fold, and FoldLeft a recursive function on the sets of      *)
(* positions still to visit.  The first part shows that this function      *)
(* exists, and turns it into run, where run[k] is the value after k turns. *)
(* The provers cannot instantiate a lemma with an operator, so there is    *)
(* one such lemma for each of the four loops.  From there on a loop is     *)
(* argued about with a loop invariant, by induction on a set of turns.     *)
(***************************************************************************)
EXTENDS SchedulerLoops, SumLemmas, SequenceTheorems

-----------------------------------------------------------------------------
(* The recursion behind a fold                                             *)

LEMMA MaxIsLast ==
  ASSUME NEW n \in Nat, NEW s \in SUBSET (1..n), s # {}
  PROVE  Max(s) \in s /\ \A i \in s : i <= Max(s)
<1>1. PICK m \in s : \A i \in s : i <= m
  BY LastPosition
<1>2. m \in s /\ \A i \in s : m >= i
  BY <1>1
<1> QED BY <1>2 DEF Max

LEMMA MaxOfInterval ==
  ASSUME NEW n \in Nat, NEW k \in 0..(n - 1)
  PROVE  /\ 1..(k + 1) \in SUBSET (1..n) /\ 1..(k + 1) # {}
         /\ Max(1..(k + 1)) = k + 1 /\ (1..(k + 1)) \ {k + 1} = 1..k
<1>1. k \in Nat /\ k + 1 <= n
  OBVIOUS
<1>2. 1..(k + 1) \in SUBSET (1..n) /\ k + 1 \in 1..(k + 1) /\ (1..(k + 1)) \ {k + 1} = 1..k
  BY <1>1
<1>3. Max(1..(k + 1)) \in 1..(k + 1) /\ \A i \in 1..(k + 1) : i <= Max(1..(k + 1))
  BY <1>2, MaxIsLast
<1>4. k + 1 <= Max(1..(k + 1))
  BY <1>2, <1>3
<1> QED BY <1>1, <1>2, <1>3, <1>4

\* it is the recursive function by which a fold over 1..n with the given steps is
\* defined: it takes out the last position first.
Folds(step, base, n, it) ==
  /\ it[{}] = base
  /\ \A s \in SUBSET (1..n) : s # {} => it[s] = step[<<it[s \ {Max(s)}], Max(s)>>]

\* There is such a function whenever the steps stay among some values V.
CanFold(step, base, V, n) == \E it \in [SUBSET (1..n) -> V] : Folds(step, base, n, it)

LEMMA FoldExists ==
  ASSUME NEW n \in Nat, NEW V, NEW base \in V, NEW step \in [V \X (1..n) -> V]
  PROVE  CanFold(step, base, V, n)
<1> DEFINE P == {k \in Nat : k <= n => CanFold(step, base, V, k)}
<1>1. 0 \in P
  <2>1. 1..0 = {} /\ SUBSET (1..0) = {{}}
    OBVIOUS
  <2>2. [s \in {{}} |-> base] \in [{{}} -> V] /\ [s \in {{}} |-> base][{}] = base
    OBVIOUS
  <2>3. Folds(step, base, 0, [s \in {{}} |-> base])
    BY <2>1, <2>2 DEF Folds
  <2> QED BY <2>1, <2>2, <2>3 DEF CanFold
<1>2. ASSUME NEW k \in Nat, k + 1 <= n, CanFold(step, base, V, k)
      PROVE  CanFold(step, base, V, k + 1)
  <2> HIDE DEF P
  <2>1. k \in Nat /\ k + 1 <= n /\ k + 1 \in Nat
    BY <1>2
  <2>2. PICK it \in [SUBSET (1..k) -> V] : Folds(step, base, k, it)
    BY <1>2 DEF CanFold
  <2> DEFINE After(s) == IF s = {} THEN base ELSE step[<<it[s \ {Max(s)}], Max(s)>>]
             next == [s \in SUBSET (1..(k + 1)) |-> After(s)]
  <2> HIDE DEF After, next
  <2>3. ASSUME NEW s \in SUBSET (1..(k + 1)), s # {}
        PROVE  Max(s) \in 1..n /\ s \ {Max(s)} \in SUBSET (1..k)
    <3>1. Max(s) \in s /\ \A i \in s : i <= Max(s)
      BY <2>1, <2>3, MaxIsLast
    <3>2. \A i \in s : i \in Nat /\ 1 <= i /\ i <= k + 1
      BY <2>1
    <3>3. ASSUME NEW i \in s, i # Max(s)
          PROVE  i \in 1..k
      <4>1. i \in Nat /\ 1 <= i /\ i <= Max(s) /\ Max(s) \in Nat /\ Max(s) <= k + 1
        BY <3>1, <3>2
      <4> QED BY <2>1, <3>3, <4>1
    <3>4. Max(s) \in 1..n
      <4>1. Max(s) \in Nat /\ 1 <= Max(s) /\ Max(s) <= k + 1
        BY <3>1, <3>2
      <4> HIDE DEF Max
      <4> QED BY <2>1, <4>1
    <3>5. \A i \in s \ {Max(s)} : i \in 1..k
      BY <3>3
    <3> QED BY <3>4, <3>5, Zenon
  <2>4. \A s \in SUBSET (1..(k + 1)) : After(s) \in V
    <3> USE DEF After
    <3> SUFFICES ASSUME NEW s \in SUBSET (1..(k + 1))
                 PROVE  After(s) \in V
      OBVIOUS
    <3>1. CASE s = {}
      BY <3>1
    <3>2. CASE s # {}
      <4>1. it[s \ {Max(s)}] \in V /\ Max(s) \in 1..n
        BY <2>3, <3>2
      <4> QED BY <3>2, <4>1
    <3> QED BY <3>1, <3>2
  <2>5. \A s \in SUBSET (1..k) : s \in SUBSET (1..(k + 1))
    OBVIOUS
  <2>6. \A s \in SUBSET (1..k) : After(s) = it[s]
    BY <2>2 DEF Folds, After
  <2>7. \A s \in SUBSET (1..k) : next[s] = it[s]
    BY <2>5, <2>6 DEF next
  <2>8. ASSUME NEW s \in SUBSET (1..(k + 1)), s # {}
        PROVE  next[s] = step[<<next[s \ {Max(s)}], Max(s)>>]
    <3>1. next[s \ {Max(s)}] = it[s \ {Max(s)}]
      BY <2>3, <2>7, <2>8
    <3>2. next[s] = step[<<it[s \ {Max(s)}], Max(s)>>]
      BY <2>8 DEF After, next
    <3> QED BY <3>1, <3>2
  <2>9. next[{}] = base
    BY DEF After, next
  <2>10. next \in [SUBSET (1..(k + 1)) -> V]
    BY <2>4 DEF next
  <2> QED BY <2>8, <2>9, <2>10 DEF Folds, CanFold
<1>3. n \in P
  <2>1. P \in SUBSET Nat
    OBVIOUS
  <2>2. \A k \in P : k + 1 \in P
    <3> SUFFICES ASSUME NEW k \in P
                 PROVE  k + 1 \in P
      OBVIOUS
    <3>1. k \in Nat /\ (k <= n => CanFold(step, base, V, k))
      OBVIOUS
    <3>2. k + 1 <= n => CanFold(step, base, V, k + 1)
      <4> HIDE DEF P
      <4> QED BY <3>1, <1>2
    <3> QED BY <3>1, <3>2
  <2> HIDE DEF P
  <2> QED BY <1>1, <2>1, <2>2, NumberInduction
<1> QED BY <1>3 DEF P

\* Induction over the turns of a loop.
LEMMA TurnByTurn ==
  ASSUME NEW n \in Nat, NEW K, 0 \in K, \A k \in 0..(n - 1) : k \in K => k + 1 \in K
  PROVE  \A k \in 0..n : k \in K
<1> DEFINE P == {k \in Nat : k <= n => k \in K}
<1>1. P \in SUBSET Nat /\ 0 \in P
  OBVIOUS
<1>2. \A k \in P : k + 1 \in P
  OBVIOUS
<1>3. \A k \in Nat : k \in P
  <2> HIDE DEF P
  <2> QED BY <1>1, <1>2, NumberInduction
<1> QED BY <1>3

-----------------------------------------------------------------------------
(* The loops as sequences of values                                        *)

\* Each loop has two definitions and a lemma: it stays among the values V, and run[k]
\* is what it has after k of the n turns over seq.
ResolveStays(V, n, seq) == \A v \in V, i \in 1..n : Resolve(v, seq[i]) \in V
ResolveTurns(base, n, seq, run) ==
  /\ run[0] = base /\ run[n] = FoldLeft(Resolve, base, seq)
  /\ \A k \in 0..(n - 1) : run[k + 1] = Resolve(run[k], seq[k + 1])

LEMMA ResolveRuns ==
  ASSUME NEW n \in Nat, NEW seq, DOMAIN seq = 1..n, NEW V, NEW base \in V,
         ResolveStays(V, n, seq)
  PROVE  \E run : ResolveTurns(base, n, seq, run)
<1> DEFINE Runs(it) ==
      it = [s \in SUBSET (1..n) |->
              IF s = {} THEN base ELSE Resolve(it[s \ {Max(s)}], seq[Max(s)])]
<1>1. \E it : Runs(it)
  <2> DEFINE step == [p \in V \X (1..n) |-> Resolve(p[1], seq[p[2]])]
  <2>1. step \in [V \X (1..n) -> V]
    BY DEF ResolveStays
  <2>2. PICK it \in [SUBSET (1..n) -> V] : Folds(step, base, n, it)
    <3> HIDE DEF step
    <3> QED BY <2>1, FoldExists DEF CanFold
  <2>3. \A s \in SUBSET (1..n) : s # {} => /\ s \ {Max(s)} \in SUBSET (1..n) /\ Max(s) \in 1..n
    BY MaxIsLast
  <2>4. \A s \in SUBSET (1..n) : s # {} => it[s] = Resolve(it[s \ {Max(s)}], seq[Max(s)])
    BY <2>2, <2>3 DEF Folds
  <2> QED BY <2>2, <2>4 DEF Folds
<1>2. FoldLeft(Resolve, base, seq) = (CHOOSE it : Runs(it))[1..n]
  BY DEF FoldLeft, MapThenFoldSet
<1>3. PICK it : Runs(it) /\ FoldLeft(Resolve, base, seq) = it[1..n]
  <2> HIDE DEF Runs
  <2> QED BY <1>1, <1>2
<1> DEFINE run == [k \in 0..n |-> it[1..k]]
<1>4. run[0] = base
  BY <1>3
<1>5. ASSUME NEW k \in 0..(n - 1)
      PROVE  run[k + 1] = Resolve(run[k], seq[k + 1])
  <2>1. it[1..(k + 1)] = Resolve(it[1..k], seq[k + 1])
    <3> DEFINE s == 1..(k + 1)
    <3>1. s \in SUBSET (1..n) /\ s # {} /\ Max(s) = k + 1 /\ s \ {k + 1} = 1..k
      BY MaxOfInterval
    <3> HIDE DEF s
    <3>2. it[s] = Resolve(it[s \ {Max(s)}], seq[Max(s)])
      BY <1>3, <3>1
    <3> QED BY <3>1, <3>2 DEF s
  <2> QED BY <2>1
<1> HIDE DEF Runs
<1>6. run[n] = FoldLeft(Resolve, base, seq)
  BY <1>3
<1> HIDE DEF run
<1> QED BY <1>4, <1>5, <1>6 DEF ResolveTurns

KeepStays(V, n, seq) == \A v \in V, i \in 1..n : KeepReady(v, seq[i]) \in V
KeepTurns(base, n, seq, run) ==
  /\ run[0] = base /\ run[n] = FoldLeft(KeepReady, base, seq)
  /\ \A k \in 0..(n - 1) : run[k + 1] = KeepReady(run[k], seq[k + 1])

LEMMA KeepReadyRuns ==
  ASSUME NEW n \in Nat, NEW seq, DOMAIN seq = 1..n, NEW V, NEW base \in V,
         KeepStays(V, n, seq)
  PROVE  \E run : KeepTurns(base, n, seq, run)
<1> DEFINE Runs(it) ==
      it = [s \in SUBSET (1..n) |->
              IF s = {} THEN base ELSE KeepReady(it[s \ {Max(s)}], seq[Max(s)])]
<1>1. \E it : Runs(it)
  <2> DEFINE step == [p \in V \X (1..n) |-> KeepReady(p[1], seq[p[2]])]
  <2>1. step \in [V \X (1..n) -> V]
    BY DEF KeepStays
  <2>2. PICK it \in [SUBSET (1..n) -> V] : Folds(step, base, n, it)
    <3> HIDE DEF step
    <3> QED BY <2>1, FoldExists DEF CanFold
  <2>3. \A s \in SUBSET (1..n) : s # {} => /\ s \ {Max(s)} \in SUBSET (1..n) /\ Max(s) \in 1..n
    BY MaxIsLast
  <2>4. \A s \in SUBSET (1..n) : s # {} => it[s] = KeepReady(it[s \ {Max(s)}], seq[Max(s)])
    BY <2>2, <2>3 DEF Folds
  <2> QED BY <2>2, <2>4 DEF Folds
<1>2. FoldLeft(KeepReady, base, seq) = (CHOOSE it : Runs(it))[1..n]
  BY DEF FoldLeft, MapThenFoldSet
<1>3. PICK it : Runs(it) /\ FoldLeft(KeepReady, base, seq) = it[1..n]
  <2> HIDE DEF Runs
  <2> QED BY <1>1, <1>2
<1> DEFINE run == [k \in 0..n |-> it[1..k]]
<1>4. run[0] = base
  BY <1>3
<1>5. ASSUME NEW k \in 0..(n - 1)
      PROVE  run[k + 1] = KeepReady(run[k], seq[k + 1])
  <2>1. it[1..(k + 1)] = KeepReady(it[1..k], seq[k + 1])
    <3> DEFINE s == 1..(k + 1)
    <3>1. s \in SUBSET (1..n) /\ s # {} /\ Max(s) = k + 1 /\ s \ {k + 1} = 1..k
      BY MaxOfInterval
    <3> HIDE DEF s
    <3>2. it[s] = KeepReady(it[s \ {Max(s)}], seq[Max(s)])
      BY <1>3, <3>1
    <3> QED BY <3>1, <3>2 DEF s
  <2> QED BY <2>1
<1> HIDE DEF Runs
<1>6. run[n] = FoldLeft(KeepReady, base, seq)
  BY <1>3
<1> HIDE DEF run
<1> QED BY <1>4, <1>5, <1>6 DEF KeepTurns

InsertStays(V, n, seq) == \A v \in V, i \in 1..n : InsertByScore(v, seq[i]) \in V
InsertTurns(base, n, seq, run) ==
  /\ run[0] = base /\ run[n] = FoldLeft(InsertByScore, base, seq)
  /\ \A k \in 0..(n - 1) : run[k + 1] = InsertByScore(run[k], seq[k + 1])

LEMMA InsertByScoreRuns ==
  ASSUME NEW n \in Nat, NEW seq, DOMAIN seq = 1..n, NEW V, NEW base \in V,
         InsertStays(V, n, seq)
  PROVE  \E run : InsertTurns(base, n, seq, run)
<1> DEFINE Runs(it) ==
      it = [s \in SUBSET (1..n) |->
              IF s = {} THEN base ELSE InsertByScore(it[s \ {Max(s)}], seq[Max(s)])]
<1>1. \E it : Runs(it)
  <2> DEFINE step == [p \in V \X (1..n) |-> InsertByScore(p[1], seq[p[2]])]
  <2>1. step \in [V \X (1..n) -> V]
    BY DEF InsertStays
  <2>2. PICK it \in [SUBSET (1..n) -> V] : Folds(step, base, n, it)
    <3> HIDE DEF step
    <3> QED BY <2>1, FoldExists DEF CanFold
  <2>3. \A s \in SUBSET (1..n) : s # {} => /\ s \ {Max(s)} \in SUBSET (1..n) /\ Max(s) \in 1..n
    BY MaxIsLast
  <2>4. \A s \in SUBSET (1..n) : s # {} => it[s] = InsertByScore(it[s \ {Max(s)}], seq[Max(s)])
    BY <2>2, <2>3 DEF Folds
  <2> QED BY <2>2, <2>4 DEF Folds
<1>2. FoldLeft(InsertByScore, base, seq) = (CHOOSE it : Runs(it))[1..n]
  BY DEF FoldLeft, MapThenFoldSet
<1>3. PICK it : Runs(it) /\ FoldLeft(InsertByScore, base, seq) = it[1..n]
  <2> HIDE DEF Runs
  <2> QED BY <1>1, <1>2
<1> DEFINE run == [k \in 0..n |-> it[1..k]]
<1>4. run[0] = base
  BY <1>3
<1>5. ASSUME NEW k \in 0..(n - 1)
      PROVE  run[k + 1] = InsertByScore(run[k], seq[k + 1])
  <2>1. it[1..(k + 1)] = InsertByScore(it[1..k], seq[k + 1])
    <3> DEFINE s == 1..(k + 1)
    <3>1. s \in SUBSET (1..n) /\ s # {} /\ Max(s) = k + 1 /\ s \ {k + 1} = 1..k
      BY MaxOfInterval
    <3> HIDE DEF s
    <3>2. it[s] = InsertByScore(it[s \ {Max(s)}], seq[Max(s)])
      BY <1>3, <3>1
    <3> QED BY <3>1, <3>2 DEF s
  <2> QED BY <2>1
<1> HIDE DEF Runs
<1>6. run[n] = FoldLeft(InsertByScore, base, seq)
  BY <1>3
<1> HIDE DEF run
<1> QED BY <1>4, <1>5, <1>6 DEF InsertTurns

SelectStays(V, n, seq) == \A v \in V, i \in 1..n : SelectTask(v, seq[i]) \in V
SelectTurns(base, n, seq, run) ==
  /\ run[0] = base /\ run[n] = FoldLeft(SelectTask, base, seq)
  /\ \A k \in 0..(n - 1) : run[k + 1] = SelectTask(run[k], seq[k + 1])

LEMMA SelectTaskRuns ==
  ASSUME NEW n \in Nat, NEW seq, DOMAIN seq = 1..n, NEW V, NEW base \in V,
         SelectStays(V, n, seq)
  PROVE  \E run : SelectTurns(base, n, seq, run)
<1> DEFINE Runs(it) ==
      it = [s \in SUBSET (1..n) |->
              IF s = {} THEN base ELSE SelectTask(it[s \ {Max(s)}], seq[Max(s)])]
<1>1. \E it : Runs(it)
  <2> DEFINE step == [p \in V \X (1..n) |-> SelectTask(p[1], seq[p[2]])]
  <2>1. step \in [V \X (1..n) -> V]
    BY DEF SelectStays
  <2>2. PICK it \in [SUBSET (1..n) -> V] : Folds(step, base, n, it)
    <3> HIDE DEF step
    <3> QED BY <2>1, FoldExists DEF CanFold
  <2>3. \A s \in SUBSET (1..n) : s # {} => /\ s \ {Max(s)} \in SUBSET (1..n) /\ Max(s) \in 1..n
    BY MaxIsLast
  <2>4. \A s \in SUBSET (1..n) : s # {} => it[s] = SelectTask(it[s \ {Max(s)}], seq[Max(s)])
    BY <2>2, <2>3 DEF Folds
  <2> QED BY <2>2, <2>4 DEF Folds
<1>2. FoldLeft(SelectTask, base, seq) = (CHOOSE it : Runs(it))[1..n]
  BY DEF FoldLeft, MapThenFoldSet
<1>3. PICK it : Runs(it) /\ FoldLeft(SelectTask, base, seq) = it[1..n]
  <2> HIDE DEF Runs
  <2> QED BY <1>1, <1>2
<1> DEFINE run == [k \in 0..n |-> it[1..k]]
<1>4. run[0] = base
  BY <1>3
<1>5. ASSUME NEW k \in 0..(n - 1)
      PROVE  run[k + 1] = SelectTask(run[k], seq[k + 1])
  <2>1. it[1..(k + 1)] = SelectTask(it[1..k], seq[k + 1])
    <3> DEFINE s == 1..(k + 1)
    <3>1. s \in SUBSET (1..n) /\ s # {} /\ Max(s) = k + 1 /\ s \ {k + 1} = 1..k
      BY MaxOfInterval
    <3> HIDE DEF s
    <3>2. it[s] = SelectTask(it[s \ {Max(s)}], seq[Max(s)])
      BY <1>3, <3>1
    <3> QED BY <3>1, <3>2 DEF s
  <2> QED BY <2>1
<1> HIDE DEF Runs
<1>6. run[n] = FoldLeft(SelectTask, base, seq)
  BY <1>3
<1> HIDE DEF run
<1> QED BY <1>4, <1>5, <1>6 DEF SelectTurns

-----------------------------------------------------------------------------
(* Plan order                                                              *)

SortedBy(order) == \A i, j \in DOMAIN order : i < j => Position[order[i]] < Position[order[j]]

LEMMA Sortable ==
  \E order \in [1..Cardinality(Tasks) -> Tasks] : SortedBy(order)
<1> DEFINE G == {R \in SUBSET Tasks : \E order \in [1..Cardinality(R) -> R] : SortedBy(order)}
<1>1. IsFiniteSet(Tasks) /\ Position \in [Tasks -> Nat]
  BY SchedulerLoopsAssumption
<1>2. {} \in G
  <2>1. Cardinality({}) = 0 /\ 1..0 = {}
    BY FS_EmptySet
  <2>2. [i \in {} |-> 0] \in [{} -> {}] /\ SortedBy([i \in {} |-> 0])
    BY DEF SortedBy
  <2> QED BY <2>1, <2>2
<1>3. ASSUME NEW R \in SUBSET Tasks, R # {}, \A Q \in SUBSET R : Q # R => Q \in G
      PROVE  R \in G
  <2>1. PICK t \in R : \A u \in R : Position[t] <= Position[u]
    <3> DEFINE Positions == {Position[u] : u \in R}
    <3>1. Positions \in SUBSET Nat /\ Positions # {}
      BY <1>1, <1>3
    <3>2. \E m \in Positions : \A k \in Positions : m <= k
      <4> HIDE DEF Positions
      <4> QED BY <3>1, LeastNumber
    <3> QED BY <3>2
  <2> DEFINE Q == R \ {t}
             n == Cardinality(Q)
  <2>2. PICK order \in [1..n -> Q] : SortedBy(order)
    BY <1>3
  <2>3. IsFiniteSet(R) /\ Cardinality(R) = n + 1 /\ n \in Nat
    <3>1. IsFiniteSet(R) /\ IsFiniteSet(Q)
      BY <1>1, FS_Subset
    <3>2. n \in Nat /\ Cardinality(R) \in Nat
      BY <3>1, FS_CardinalityType
    <3>3. n = Cardinality(R) - 1
      BY <3>1, FS_RemoveElement
    <3> HIDE DEF n
    <3> QED BY <3>1, <3>2, <3>3
  <2> HIDE DEF n
  <2> DEFINE longer == [i \in 1..(n + 1) |-> IF i = 1 THEN t ELSE order[i - 1]]
  <2>4. \A i \in 1..(n + 1) : i # 1 => i - 1 \in 1..n /\ longer[i] = order[i - 1] /\ longer[i] \in Q
    BY <2>3
  <2>5. longer[1] = t /\ 1 \in 1..(n + 1)
    BY <2>3
  <2>6. longer \in [1..(n + 1) -> R]
    BY <2>4, <2>5
  <2>7. SortedBy(longer)
    <3> SUFFICES ASSUME NEW i \in 1..(n + 1), NEW j \in 1..(n + 1), i < j
                 PROVE  Position[longer[i]] < Position[longer[j]]
      BY <2>6 DEF SortedBy
    <3>1. j # 1 /\ j - 1 \in 1..n /\ longer[j] = order[j - 1] /\ longer[j] \in Q
      BY <2>3, <2>4
    <3>2. CASE i = 1
      <4>1. longer[i] = t /\ longer[j] \in R /\ longer[j] # t
        BY <2>5, <3>1, <3>2
      <4>2. Position[t] <= Position[longer[j]] /\ Position[t] # Position[longer[j]]
        BY <2>1, <4>1, SchedulerLoopsAssumption
      <4>3. Position[t] \in Nat /\ Position[longer[j]] \in Nat
        BY <1>1, <4>1
      <4> HIDE DEF longer
      <4> QED BY <4>1, <4>2, <4>3
    <3>3. CASE i # 1
      <4>1. i - 1 \in 1..n /\ longer[i] = order[i - 1] /\ i - 1 < j - 1
        BY <2>3, <2>4, <3>3
      <4>2. DOMAIN order = 1..n
        BY <2>2
      <4> HIDE DEF longer
      <4> QED BY <2>2, <3>1, <4>1, <4>2 DEF SortedBy
    <3> QED BY <3>2, <3>3
  <2> HIDE DEF longer
  <2> QED BY <2>3, <2>6, <2>7
<1>4. G \in SUBSET SUBSET Tasks
  OBVIOUS
<1>5. Tasks \in G
  <2> HIDE DEF G
  <2> QED BY <1>1, <1>2, <1>3, <1>4, SetInduction
<1> QED BY <1>5

\* The loop visits every task once, in the order of their positions.
LEMMA PlanOrderVisitsAll ==
  /\ Cardinality(Tasks) \in Nat
  /\ PlanOrder \in [1..Cardinality(Tasks) -> Tasks]
  /\ SortedBy(PlanOrder)
  /\ \A t \in Tasks : \E i \in 1..Cardinality(Tasks) : PlanOrder[i] = t
<1> DEFINE n == Cardinality(Tasks)
<1>1. IsFiniteSet(Tasks) /\ n \in Nat /\ Position \in [Tasks -> Nat]
  BY SchedulerLoopsAssumption, FS_CardinalityType
<1>2. PlanOrder \in [1..n -> Tasks] /\ SortedBy(PlanOrder)
  BY Sortable DEF PlanOrder, SortedBy
<1>3. \A i, j \in 1..n : i # j => PlanOrder[i] # PlanOrder[j]
  <2> HIDE DEF n
  <2> SUFFICES ASSUME NEW i \in 1..n, NEW j \in 1..n, i < j
               PROVE  PlanOrder[i] # PlanOrder[j]
    BY <1>1
  <2>1. DOMAIN PlanOrder = 1..n /\ PlanOrder[i] \in Tasks
    BY <1>2
  <2>2. Position[PlanOrder[i]] < Position[PlanOrder[j]] /\ Position[PlanOrder[i]] \in Nat
    BY <1>1, <1>2, <2>1 DEF SortedBy
  <2> QED BY <2>2
<1>4. PlanOrder \in Injection(1..n, Tasks)
  BY <1>2, <1>3 DEF Injection, IsInjective
<1>5. Cardinality(1..n) = n
  <2> HIDE DEF n
  <2>1. 1 \in Int /\ n \in Int
    BY <1>1
  <2>2. Cardinality(1..n) = IF 1 > n THEN 0 ELSE n - 1 + 1
    BY <2>1, FS_Interval
  <2> QED BY <1>1, <2>2
<1>6. PlanOrder \in Surjection(1..n, Tasks)
  BY <1>1, <1>4, <1>5, FS_Injection
<1> QED BY <1>1, <1>2, <1>6 DEF Surjection

-----------------------------------------------------------------------------
(* Dependency resolution                                                   *)

Outcomes == Statuses \cup {"ready", "blocked"}

TypeSound ==
  /\ plan \in Plans
  /\ status \in [Tasks -> Outcomes]
  /\ retries \in [Tasks -> Nat]

LEMMA PlanSound ==
  ASSUME TypeSound
  PROVE  DependsOn \in [Tasks -> SUBSET Tasks] /\ Policy \in PolicyType
BY SchedulerLoopsAssumption DEF TypeSound, DependsOn, Policy

\* The least set closed under blocking holds nothing that the rule does not ask for.
LEMMA BlocksIsClosed ==
  ASSUME TypeSound, NEW t \in Waiting(status)
  PROVE  t \in Blocks(status) <=>
           \E u \in DependsOn[t] : \/ status[u] \in {"failed", "blocked"}
                                   \/ u \in Blocks(status) /\ Position[u] < Position[t]
<1> DEFINE B == Blocks(status)
           Asks(S, x) == \E u \in DependsOn[x] : \/ status[u] \in {"failed", "blocked"}
                                                 \/ u \in S /\ Position[u] < Position[x]
<1>1. B \subseteq Waiting(status)
  BY DEF Blocks
<1>2. \A S \in SUBSET Waiting(status) :
        ClosedUnderBlocking(S, status) <=> \A x \in Waiting(status) : Asks(S, x) => x \in S
  BY DEF ClosedUnderBlocking
<1>3. \A S \in SUBSET Waiting(status) : ClosedUnderBlocking(S, status) => B \subseteq S
  BY DEF Blocks
<1>4. \A x \in Waiting(status) :
        (\A S \in SUBSET Waiting(status) : ClosedUnderBlocking(S, status) => x \in S) => x \in B
  BY DEF Blocks
<1>5. \A x, S, T : S \subseteq T /\ Asks(S, x) => Asks(T, x)
  OBVIOUS
<1> HIDE DEF B, Asks
<1>6. ASSUME NEW x \in Waiting(status), Asks(B, x)
      PROVE  x \in B
  BY <1>2, <1>3, <1>4, <1>5, <1>6
<1>7. ASSUME t \in B, ~Asks(B, t)
      PROVE  FALSE
  <2>1. B \ {t} \in SUBSET Waiting(status) /\ B \ {t} \subseteq B
    BY <1>1
  <2>2. \A x \in Waiting(status) : Asks(B \ {t}, x) => x \in B \ {t}
    BY <1>5, <1>6, <1>7, <2>1
  <2> QED BY <1>2, <1>3, <1>7, <2>1, <2>2
<1> QED BY <1>6, <1>7 DEF B, Asks

\* What a turn makes of the task it visits, when the pass has visited exactly the
\* tasks before it.
LEMMA TurnResolves ==
  ASSUME TypeSound, NEW st \in [Tasks -> Outcomes], NEW t \in Tasks,
         \A u \in Tasks :
           st[u] = IF Position[u] < Position[t] THEN ResolveDependencies(status)[u] ELSE status[u]
  PROVE  Resolve(st, t) = [st EXCEPT ![t] = ResolveDependencies(status)[t]]
<1>1. DependsOn[t] \subseteq Tasks /\ Position \in [Tasks -> Nat]
  BY PlanSound, SchedulerLoopsAssumption
<1>2. st[t] = status[t]
  BY <1>1
<1>3. \A u \in Tasks :
        ResolveDependencies(status)[u] =
          IF u \in Blocks(status) THEN "blocked"
          ELSE IF status[u] = "pending" /\ DependenciesDone(status, u) THEN "ready"
          ELSE status[u]
  BY DEF ResolveDependencies
<1>4. \A u \in Blocks(status) : u \in Tasks /\ status[u] \in {"pending", "ready", "blocked"}
  BY DEF Blocks, Waiting
<1>5. \A u \in Tasks : st[u] \in {"failed", "blocked"} <=>
        \/ status[u] \in {"failed", "blocked"}
        \/ u \in Blocks(status) /\ Position[u] < Position[t]
  BY <1>3, <1>4
<1>6. \A u \in Tasks : st[u] = "done" <=> status[u] = "done"
  BY <1>3, <1>4
<1>7. DependenciesDone(st, t) <=> DependenciesDone(status, t)
  BY <1>1, <1>6 DEF DependenciesDone
<1>8. CASE t \notin Waiting(status)
  <2>1. st[t] \notin {"pending", "ready", "blocked"}
    BY <1>2, <1>8 DEF Waiting
  <2>2. ResolveDependencies(status)[t] = st[t]
    BY <1>2, <1>3, <1>4, <2>1
  <2> QED BY <2>1, <2>2 DEF Resolve
<1>9. CASE t \in Waiting(status)
  <2>1. st[t] \in {"pending", "ready", "blocked"}
    BY <1>2, <1>9 DEF Waiting
  <2>2. (\E u \in DependsOn[t] : st[u] \in {"failed", "blocked"}) <=> t \in Blocks(status)
    BY <1>1, <1>5, <1>9, BlocksIsClosed
  <2>3. [st EXCEPT ![t] = st[t]] = st
    OBVIOUS
  <2> QED BY <1>2, <1>3, <1>7, <2>1, <2>2, <2>3 DEF Resolve
<1> QED BY <1>8, <1>9

LEMMA PassResolves ==
  ASSUME TypeSound
  PROVE  ResolveLoop(status) = ResolveDependencies(status)
<1> DEFINE n == Cardinality(Tasks)
           V == [Tasks -> Outcomes]
<1>1. /\ n \in Nat /\ PlanOrder \in [1..n -> Tasks] /\ SortedBy(PlanOrder)
      /\ \A t \in Tasks : \E i \in 1..n : PlanOrder[i] = t
  BY PlanOrderVisitsAll
<1>2. DOMAIN PlanOrder = 1..n /\ status \in V /\ Position \in [Tasks -> Nat]
  BY <1>1, SchedulerLoopsAssumption DEF TypeSound
<1>3. \A v \in V, t \in Tasks : Resolve(v, t) \in V
  BY DEF Resolve, Outcomes
<1> HIDE DEF n
<1>4. PICK run : /\ run[0] = status /\ run[n] = ResolveLoop(status)
                 /\ \A k \in 0..(n - 1) : run[k + 1] = Resolve(run[k], PlanOrder[k + 1])
  <2>1. ResolveStays(V, n, PlanOrder)
    BY <1>1, <1>3 DEF ResolveStays
  <2>2. n \in Nat /\ DOMAIN PlanOrder = 1..n /\ status \in V
    BY <1>1, <1>2
  <2> HIDE DEF V
  <2>3. \E run : ResolveTurns(status, n, PlanOrder, run)
    BY <2>1, <2>2, ResolveRuns
  <2> QED BY <2>3 DEF ResolveTurns, ResolveLoop
<1> DEFINE RD == ResolveDependencies(status)
           Visited(k) == {PlanOrder[i] : i \in 1..k}
           K == {k \in 0..n : /\ run[k] \in V
                              /\ \A u \in Tasks :
                                   run[k][u] = IF u \in Visited(k) THEN RD[u] ELSE status[u]}
<1>5. 0 \in K
  BY <1>1, <1>2, <1>4
<1>6. ASSUME NEW k \in 0..(n - 1), k \in K
      PROVE  k + 1 \in K
  <2> DEFINE t == PlanOrder[k + 1]
  <2>1. k \in Nat /\ k + 1 \in 1..n /\ k + 1 \in 0..n /\ t \in Tasks
    BY <1>1
  <2>2. run[k] \in V /\ \A u \in Tasks :
          run[k][u] = IF u \in Visited(k) THEN RD[u] ELSE status[u]
    BY <1>6
  <2>3. \A u \in Tasks : u \in Visited(k) <=> Position[u] < Position[t]
    <3> SUFFICES ASSUME NEW u \in Tasks
                 PROVE  u \in Visited(k) <=> Position[u] < Position[t]
      OBVIOUS
    <3>1. PICK i \in 1..n : PlanOrder[i] = u
      BY <1>1
    <3>2. i < k + 1 => Position[u] < Position[t]
      BY <1>1, <1>2, <2>1, <3>1 DEF SortedBy
    <3>3. k + 1 < i => Position[t] < Position[u]
      BY <1>1, <1>2, <2>1, <3>1 DEF SortedBy
    <3>4. Position[u] \in Nat /\ Position[t] \in Nat
      BY <1>2, <2>1
    <3>5. CASE i < k + 1
      <4>1. i \in 1..k
        BY <2>1, <3>5
      <4> QED BY <3>1, <3>2, <3>5, <4>1
    <3>6. CASE i >= k + 1
      <4>1. ~(Position[u] < Position[t])
        <5>1. i = k + 1 \/ k + 1 < i
          BY <2>1, <3>6
        <5> HIDE DEF K, V, RD, Visited
        <5> QED BY <3>1, <3>3, <3>4, <5>1
      <4>2. \A j \in 1..k : PlanOrder[j] # u
        <5> SUFFICES ASSUME NEW j \in 1..k, PlanOrder[j] = u
                     PROVE  FALSE
          OBVIOUS
        <5>1. j \in 1..n /\ j < k + 1
          <6> HIDE DEF K, V, RD, Visited, t
          <6> QED BY <1>1, <2>1
        <5>2. Position[u] < Position[t]
          BY <1>1, <1>2, <2>1, <5>1 DEF SortedBy
        <5> QED BY <4>1, <5>2
      <4> QED BY <4>1, <4>2
    <3> QED BY <2>1, <3>5, <3>6
  <2>4. run[k + 1] = [run[k] EXCEPT ![t] = RD[t]]
    <3>1. \A u \in Tasks : run[k][u] = IF Position[u] < Position[t] THEN RD[u] ELSE status[u]
      BY <2>2, <2>3
    <3>2. Resolve(run[k], t) = [run[k] EXCEPT ![t] = RD[t]]
      <4> HIDE DEF t
      <4> QED BY <2>1, <2>2, <3>1, TurnResolves
    <3> QED BY <1>4, <3>2
  <2>5. Visited(k + 1) = Visited(k) \cup {t}
    <3>1. 1..(k + 1) = (1..k) \cup {k + 1}
      BY <2>1
    <3> QED BY <3>1
  <2>6. run[k + 1] \in V
    <3>1. Resolve(run[k], t) \in V
      <4> HIDE DEF V, t
      <4> QED BY <1>3, <2>1, <2>2
    <3> QED BY <1>4, <3>1
  <2>7. ASSUME NEW u \in Tasks
        PROVE  run[k + 1][u] = IF u \in Visited(k + 1) THEN RD[u] ELSE status[u]
    <3> HIDE DEF t, Visited, RD
    <3> QED BY <2>1, <2>2, <2>4, <2>5
  <2> HIDE DEF Visited, V, RD
  <2> QED BY <2>1, <2>6, <2>7
<1>7. n \in K
  <2>1. \A k \in 0..n : k \in K
    <3> HIDE DEF K
    <3> QED BY <1>1, <1>5, <1>6, TurnByTurn
  <2> QED BY <1>1, <2>1
<1>8. \A u \in Tasks : u \in Visited(n)
  BY <1>1
<1>9. run[n] \in V /\ \A u \in Tasks : run[n][u] = RD[u]
  BY <1>7, <1>8
<1>10. RD = [u \in Tasks |-> RD[u]]
  BY DEF ResolveDependencies
<1>11. run[n] = [u \in Tasks |-> run[n][u]]
  BY <1>9
<1> HIDE DEF RD, V
<1> QED BY <1>4, <1>9, <1>10, <1>11 DEF RD

LEMMA TypeAlwaysSound == Spec => []TypeSound
<1>1. Init => TypeSound
  <2> SUFFICES ASSUME Init
               PROVE  TypeSound
    OBVIOUS
  <2>1. 0..(IF plan.policy.risk_aware THEN MaxRetries ELSE 0) \subseteq Nat
    BY SchedulerLoopsAssumption
  <2> QED BY <2>1 DEF Init, TypeSound, Outcomes
<1>2. TypeSound /\ [Next]_vars => TypeSound'
  <2> SUFFICES ASSUME TypeSound, [Next]_vars
               PROVE  TypeSound'
    OBVIOUS
  <2>1. CASE Next
    <3>1. status' = ResolveDependencies(status)
      BY <2>1, PassResolves DEF Next
    <3>2. ResolveDependencies(status) \in [Tasks -> Outcomes]
      BY DEF ResolveDependencies, TypeSound, Outcomes
    <3> QED BY <2>1, <3>1, <3>2 DEF Next, TypeSound
  <2>2. CASE UNCHANGED vars
    BY <2>2 DEF vars, TypeSound
  <2> QED BY <2>1, <2>2
<1> QED BY <1>1, <1>2, PTL DEF Spec

\* One pass of resolveDependencies, in whatever order the plan lists the tasks, does
\* what ResolveDependencies says without a loop: although the loop reads statuses it
\* has itself just written, it blocks exactly the least set closed under its rule
\* (dependency_resolver.ts).
THEOREM ResolutionIsAlwaysLeast == Spec => []ResolutionIsLeastClosure
<1>1. TypeSound => ResolutionIsLeastClosure
  BY PassResolves DEF ResolutionIsLeastClosure
<1> QED BY <1>1, TypeAlwaysSound, PTL

-----------------------------------------------------------------------------
(* Sorted queues                                                           *)

PositionOrder == {p \in Tasks \X Tasks : Position[p[1]] < Position[p[2]]}
WaveOrder == {p \in Tasks \X Tasks : Precedes(p[1], p[2], retries)}

Sorted(queue, order) ==
  \A i, j \in DOMAIN queue : i < j => <<queue[i], queue[j]>> \in order

IsStrictTotal(order) ==
  \A t, u, v \in Tasks : /\ <<t, t>> \notin order
                         /\ <<t, u>> \in order /\ <<u, v>> \in order => <<t, v>> \in order
                         /\ t = u \/ <<t, u>> \in order \/ <<u, t>> \in order

LEMMA ScoreIsNumber ==
  ASSUME TypeSound, NEW t \in Tasks
  PROVE  Score(t, retries[t]) \in Nat
<1>1. /\ Policy.explicit_risk \in Nat /\ Policy.expected_files_count \in Nat
      /\ Policy.missing_expected_files \in Nat /\ Policy.retry_weight \in Nat
      /\ Policy.preferred_agent_missing \in Nat
  BY PlanSound DEF PolicyType
<1>2. retries[t] \in Nat /\ Risk[t] \in RiskLevels /\ Cardinality(ExpectedFiles[t]) \in Nat
  BY SchedulerLoopsAssumption, FS_CardinalityType DEF TypeSound
<1>3. ExplicitRiskBase[Risk[t]] \in Nat
  BY <1>2 DEF ExplicitRiskBase, RiskLevels
<1> DEFINE base == ExplicitRiskBase[Risk[t]]
           files == Cardinality(ExpectedFiles[t])
<1>4. base * Policy.explicit_risk \in Nat /\ files * Policy.expected_files_count \in Nat
      /\ retries[t] * Policy.retry_weight \in Nat
  <2> HIDE DEF base, files
  <2>1. \A m, n \in Nat : m * n \in Nat
    OBVIOUS
  <2> QED BY <1>1, <1>2, <1>3, <2>1 DEF base, files
<1> QED BY <1>1, <1>4 DEF Score

LEMMA OrdersAreStrictTotal ==
  ASSUME TypeSound
  PROVE  IsStrictTotal(PositionOrder) /\ IsStrictTotal(WaveOrder)
<1>1. Position \in [Tasks -> Nat] /\ \A t, u \in Tasks : Position[t] = Position[u] => t = u
  BY SchedulerLoopsAssumption
<1>2. \A t \in Tasks : Score(t, retries[t]) \in Nat
  BY ScoreIsNumber
<1>3. IsStrictTotal(PositionOrder)
  BY <1>1 DEF IsStrictTotal, PositionOrder
<1>4. \A t, u \in Tasks : <<t, u>> \in WaveOrder <=> Precedes(t, u, retries)
  BY DEF WaveOrder
<1>5. IsStrictTotal(WaveOrder)
  <2> SUFFICES ASSUME NEW t \in Tasks, NEW u \in Tasks, NEW v \in Tasks
               PROVE  /\ ~Precedes(t, t, retries)
                      /\ Precedes(t, u, retries) /\ Precedes(u, v, retries)
                           => Precedes(t, v, retries)
                      /\ t = u \/ Precedes(t, u, retries) \/ Precedes(u, t, retries)
    BY <1>4 DEF IsStrictTotal
  <2> QED BY <1>1, <1>2 DEF Precedes
<1> QED BY <1>3, <1>5

LEMMA Appended ==
  ASSUME NEW T, NEW queue \in Seq(T), NEW t \in T
  PROVE  /\ Append(queue, t) \in Seq(T)
         /\ TasksIn(Append(queue, t)) = TasksIn(queue) \cup {t}
<1>1. /\ DOMAIN queue = 1..Len(queue) /\ Len(queue) \in Nat
      /\ DOMAIN Append(queue, t) = 1..(Len(queue) + 1)
      /\ Append(queue, t)[Len(queue) + 1] = t
      /\ \A i \in 1..Len(queue) : Append(queue, t)[i] = queue[i]
  OBVIOUS
<1>2. 1..(Len(queue) + 1) = (1..Len(queue)) \cup {Len(queue) + 1}
  BY <1>1
<1> QED BY <1>1, <1>2 DEF TasksIn

LEMMA AppendedSorted ==
  ASSUME NEW T, NEW order, NEW queue \in Seq(T), NEW t \in T, Sorted(queue, order),
         \A u \in TasksIn(queue) : <<u, t>> \in order
  PROVE  Sorted(Append(queue, t), order)
<1>1. /\ DOMAIN queue = 1..Len(queue) /\ Len(queue) \in Nat
      /\ DOMAIN Append(queue, t) = 1..(Len(queue) + 1)
      /\ Append(queue, t)[Len(queue) + 1] = t
      /\ \A i \in 1..Len(queue) : Append(queue, t)[i] = queue[i]
  OBVIOUS
<1> DEFINE longer == Append(queue, t)
<1> HIDE DEF longer
<1> SUFFICES ASSUME NEW i \in 1..(Len(queue) + 1), NEW j \in 1..(Len(queue) + 1), i < j
             PROVE  <<longer[i], longer[j]>> \in order
  BY <1>1 DEF Sorted, longer
<1>2. i \in 1..Len(queue) /\ longer[i] = queue[i]
  BY <1>1 DEF longer
<1>3. CASE j = Len(queue) + 1
  BY <1>1, <1>2, <1>3 DEF TasksIn, longer
<1>4. CASE j # Len(queue) + 1
  <2>1. j \in 1..Len(queue) /\ longer[j] = queue[j]
    BY <1>1, <1>4 DEF longer
  <2> QED BY <1>1, <1>2, <2>1 DEF Sorted
<1> QED BY <1>3, <1>4

-----------------------------------------------------------------------------
(* The ready tasks, in the order they are considered                       *)

LEMMA ReadyTasksInPlanOrder ==
  ASSUME TypeSound
  PROVE  /\ ReadyTasks \in Seq(Tasks) /\ TasksIn(ReadyTasks) = Ready(status)
         /\ Sorted(ReadyTasks, PositionOrder)
<1> DEFINE n == Cardinality(Tasks)
           V == Seq(Tasks)
<1>1. /\ n \in Nat /\ PlanOrder \in [1..n -> Tasks] /\ SortedBy(PlanOrder)
      /\ \A t \in Tasks : \E i \in 1..n : PlanOrder[i] = t
  BY PlanOrderVisitsAll
<1>2. DOMAIN PlanOrder = 1..n /\ <<>> \in V
  BY <1>1
<1>3. \A v \in V, t \in Tasks : KeepReady(v, t) \in V
  BY DEF KeepReady
<1> HIDE DEF n, V
<1>4. PICK run : /\ run[0] = <<>> /\ run[n] = ReadyTasks
                 /\ \A k \in 0..(n - 1) : run[k + 1] = KeepReady(run[k], PlanOrder[k + 1])
  <2>1. KeepStays(V, n, PlanOrder)
    BY <1>1, <1>3 DEF KeepStays
  <2>2. n \in Nat /\ DOMAIN PlanOrder = 1..n /\ <<>> \in V
    BY <1>1, <1>2
  <2>3. \E run : KeepTurns(<<>>, n, PlanOrder, run)
    BY <2>1, <2>2, KeepReadyRuns
  <2> QED BY <2>3 DEF KeepTurns, ReadyTasks
<1> DEFINE Visited(k) == {PlanOrder[i] : i \in 1..k}
           K == {k \in 0..n : /\ run[k] \in Seq(Tasks) /\ Sorted(run[k], PositionOrder)
                              /\ TasksIn(run[k]) = {t \in Visited(k) : status[t] = "ready"}}
<1>5. 0 \in K
  <2>1. run[0] \in Seq(Tasks) /\ DOMAIN run[0] = {}
    BY <1>4
  <2>2. Sorted(run[0], PositionOrder) /\ TasksIn(run[0]) = {}
    BY <2>1 DEF Sorted, TasksIn
  <2>3. Visited(0) = {} /\ 0 \in 0..n
    BY <1>1
  <2> QED BY <2>1, <2>2, <2>3
<1>6. ASSUME NEW k \in 0..(n - 1), k \in K
      PROVE  k + 1 \in K
  <2> DEFINE t == PlanOrder[k + 1]
  <2>1. k \in Nat /\ k + 1 \in 1..n /\ k + 1 \in 0..n /\ t \in Tasks
    BY <1>1
  <2>2. /\ run[k] \in Seq(Tasks) /\ Sorted(run[k], PositionOrder)
        /\ TasksIn(run[k]) = {u \in Visited(k) : status[u] = "ready"}
    BY <1>6
  <2>3. Visited(k + 1) = Visited(k) \cup {t}
    <3>1. 1..(k + 1) = (1..k) \cup {k + 1}
      BY <2>1
    <3> QED BY <3>1
  <2>4. \A u \in Visited(k) : <<u, t>> \in PositionOrder
    <3> SUFFICES ASSUME NEW i \in 1..k
                 PROVE  <<PlanOrder[i], t>> \in PositionOrder
      OBVIOUS
    <3>1. i \in 1..n /\ i < k + 1
      <4> HIDE DEF K, Visited, t
      <4> QED BY <1>1, <2>1
    <3>2. Position[PlanOrder[i]] < Position[t] /\ PlanOrder[i] \in Tasks
      BY <1>1, <1>2, <2>1, <3>1 DEF SortedBy
    <3> QED BY <2>1, <3>2 DEF PositionOrder
  <2>5. run[k + 1] = KeepReady(run[k], t)
    BY <1>4
  <2> HIDE DEF t, Visited
  <2>6. CASE status[t] = "ready"
    <3>1. run[k + 1] = Append(run[k], t)
      BY <2>5, <2>6 DEF KeepReady
    <3>2. run[k + 1] \in Seq(Tasks) /\ TasksIn(run[k + 1]) = TasksIn(run[k]) \cup {t}
      BY <2>1, <2>2, <3>1, Appended
    <3>3. Sorted(run[k + 1], PositionOrder)
      <4>1. \A u \in TasksIn(run[k]) : <<u, t>> \in PositionOrder
        BY <2>2, <2>4
      <4> QED BY <2>1, <2>2, <3>1, <4>1, AppendedSorted
    <3> QED BY <2>1, <2>2, <2>3, <2>6, <3>2, <3>3
  <2>7. CASE status[t] # "ready"
    <3>1. run[k + 1] = run[k]
      BY <2>5, <2>7 DEF KeepReady
    <3> QED BY <2>1, <2>2, <2>3, <2>7, <3>1
  <2> QED BY <2>6, <2>7
<1>7. n \in K
  <2>1. \A k \in 0..n : k \in K
    <3> HIDE DEF K
    <3> QED BY <1>1, <1>5, <1>6, TurnByTurn
  <2> QED BY <1>1, <2>1
<1>8. Visited(n) = Tasks
  BY <1>1
<1>9. ReadyTasks = run[n]
  BY <1>4
<1> HIDE DEF Visited
<1> QED BY <1>7, <1>8, <1>9 DEF Ready

LEMMA InsertPlace ==
  ASSUME NEW queue \in Seq(Tasks), NEW t \in Tasks
  PROVE  \E b \in 0..Len(queue) :
           /\ b = Cardinality({i \in DOMAIN queue :
                               Score(queue[i], retries[queue[i]]) <= Score(t, retries[t])})
           /\ InsertByScore(queue, t) \in Seq(Tasks)
           /\ Len(InsertByScore(queue, t)) = Len(queue) + 1
           /\ \A i \in 1..(Len(queue) + 1) :
                InsertByScore(queue, t)[i] =
                  IF i <= b THEN queue[i] ELSE IF i = b + 1 THEN t ELSE queue[i - 1]
<1> DEFINE before == {i \in DOMAIN queue :
                        Score(queue[i], retries[queue[i]]) <= Score(t, retries[t])}
           b == Cardinality(before)
           m == Len(queue)
<1>1. m \in Nat /\ DOMAIN queue = 1..m /\ before \in SUBSET (1..m)
  OBVIOUS
<1>2. IsFiniteSet(1..m) /\ Cardinality(1..m) = m
  <2> HIDE DEF m
  <2>1. 1 \in Int /\ m \in Int
    BY <1>1
  <2>2. IsFiniteSet(1..m) /\ Cardinality(1..m) = IF 1 > m THEN 0 ELSE m - 1 + 1
    BY <2>1, FS_Interval
  <2> QED BY <1>1, <2>2
<1>3. b \in Nat /\ b <= m
  <2> HIDE DEF before, m
  <2>1. IsFiniteSet(before) /\ Cardinality(before) <= Cardinality(1..m)
    BY <1>1, <1>2, FS_Subset
  <2> QED BY <1>2, <2>1, FS_CardinalityType
<1> DEFINE place == b + 1
<1>4. InsertByScore(queue, t) = SubSeq(queue, 1, place - 1) \o <<t>> \o SubSeq(queue, place, m)
  <2>1. InsertByScore(queue, t) = InsertAt(queue, place, t)
    BY Zenon DEF InsertByScore
  <2> HIDE DEF place
  <2>2. InsertAt(queue, place, t)
          = SubSeq(queue, 1, place - 1) \o <<t>> \o SubSeq(queue, place, Len(queue))
    BY DEF InsertAt
  <2> QED BY <2>1, <2>2
<1> HIDE DEF b, before, m
<1>5. place - 1 = b
  BY <1>3
<1> DEFINE front == SubSeq(queue, 1, b)
           back == SubSeq(queue, b + 1, m)
<1>6. /\ front \in Seq(Tasks) /\ Len(front) = b
      /\ \A i \in 1..b : front[i] = queue[i]
  BY <1>1, <1>3
<1>7. /\ back \in Seq(Tasks) /\ Len(back) = m - b
      /\ \A i \in 1..(m - b) : back[i] = queue[b + i]
  <2>1. \A i \in 1..(m - b) : b + 1 + i - 1 = b + i
    BY <1>1, <1>3
  <2> QED BY <1>1, <1>3, <2>1
<1> HIDE DEF front, back
<1>8. /\ front \o <<t>> \in Seq(Tasks) /\ Len(front \o <<t>>) = b + 1
      /\ \A i \in 1..b : (front \o <<t>>)[i] = queue[i]
      /\ (front \o <<t>>)[b + 1] = t
  BY <1>3, <1>6
<1> DEFINE head == front \o <<t>>
<1> HIDE DEF head
<1>9. /\ head \o back \in Seq(Tasks) /\ Len(head \o back) = m + 1
      /\ \A i \in 1..(b + 1) : (head \o back)[i] = head[i]
      /\ \A i \in 1..(m - b) : (head \o back)[b + 1 + i] = back[i]
  <2>1. head \in Seq(Tasks) /\ back \in Seq(Tasks) /\ Len(head) = b + 1 /\ Len(back) = m - b
    BY <1>7, <1>8 DEF head
  <2>2. /\ head \o back \in Seq(Tasks) /\ Len(head \o back) = Len(head) + Len(back)
        /\ \A i \in 1..(Len(head) + Len(back)) :
             (head \o back)[i] = IF i <= Len(head) THEN head[i] ELSE back[i - Len(head)]
    BY <2>1, ConcatProperties
  <2>3. Len(head) + Len(back) = m + 1
    BY <1>1, <1>3, <2>1
  <2>4. \A i \in 1..(b + 1) : i \in 1..(m + 1) /\ i <= b + 1
    BY <1>1, <1>3
  <2>5. \A i \in 1..(m - b) : /\ b + 1 + i \in 1..(m + 1) /\ ~(b + 1 + i <= b + 1)
                              /\ b + 1 + i - (b + 1) = i
    BY <1>1, <1>3
  <2> QED BY <2>1, <2>2, <2>3, <2>4, <2>5
<1>10. ASSUME NEW i \in 1..(m + 1)
       PROVE  (head \o back)[i] =
                IF i <= b THEN queue[i] ELSE IF i = b + 1 THEN t ELSE queue[i - 1]
  <2>1. CASE i <= b
    <3>1. i \in 1..b /\ i \in 1..(b + 1)
      BY <1>3, <2>1
    <3> QED BY <1>8, <1>9, <2>1, <3>1 DEF head
  <2>2. CASE i = b + 1
    BY <1>3, <1>8, <1>9, <2>2 DEF head
  <2>3. CASE i > b + 1
    <3> DEFINE j == i - b - 1
    <3>1. j \in 1..(m - b) /\ b + 1 + j = i /\ b + j = i - 1 /\ ~(i <= b) /\ i # b + 1
      BY <1>1, <1>3, <2>3
    <3> HIDE DEF j
    <3>2. (head \o back)[i] = back[j] /\ back[j] = queue[i - 1]
      BY <1>7, <1>9, <3>1
    <3> QED BY <3>1, <3>2
  <2>4. i <= b \/ i = b + 1 \/ i > b + 1
    BY <1>1, <1>3
  <2> QED BY <2>1, <2>2, <2>3, <2>4
<1>11. InsertByScore(queue, t) = head \o back
  BY <1>4, <1>5 DEF head, front, back
<1>12. b \in 0..Len(queue)
  BY <1>1, <1>3 DEF m
<1> WITNESS b \in 0..Len(queue)
<1>13. Len(queue) = m
  BY DEF m
<1>14. b = Cardinality({i \in DOMAIN queue :
                          Score(queue[i], retries[queue[i]]) <= Score(t, retries[t])})
  BY Zenon DEF b, before
<1>15. /\ InsertByScore(queue, t) \in Seq(Tasks)
       /\ Len(InsertByScore(queue, t)) = Len(queue) + 1
       /\ \A i \in 1..(Len(queue) + 1) :
            InsertByScore(queue, t)[i] =
              IF i <= b THEN queue[i] ELSE IF i = b + 1 THEN t ELSE queue[i - 1]
  BY <1>9, <1>10, <1>11, <1>13
<1> QED BY <1>14, <1>15, Zenon

\* The queue is sorted by score, so what scores no more than t stands in front.
LEMMA InsertKeepsSorted ==
  ASSUME TypeSound, Policy.risk_aware, NEW queue \in Seq(Tasks), NEW t \in Tasks,
         Sorted(queue, WaveOrder),
         \A u \in TasksIn(queue) : <<u, t>> \in PositionOrder
  PROVE  /\ TasksIn(InsertByScore(queue, t)) = TasksIn(queue) \cup {t}
         /\ Sorted(InsertByScore(queue, t), WaveOrder)
<1> DEFINE Sc(u) == Score(u, retries[u])
           before == {i \in DOMAIN queue : Sc(queue[i]) <= Sc(t)}
           m == Len(queue)
           longer == InsertByScore(queue, t)
<1>1. PICK b \in 0..m :
        /\ b = Cardinality(before)
        /\ longer \in Seq(Tasks) /\ Len(longer) = m + 1
        /\ \A i \in 1..(m + 1) :
             longer[i] = IF i <= b THEN queue[i] ELSE IF i = b + 1 THEN t ELSE queue[i - 1]
  BY InsertPlace
<1>2. m \in Nat /\ b \in Nat /\ b <= m /\ DOMAIN queue = 1..m /\ DOMAIN longer = 1..(m + 1)
  BY <1>1
<1>3. \A i \in 1..m : queue[i] \in Tasks /\ <<queue[i], t>> \in PositionOrder
  BY DEF TasksIn
<1>4. \A u \in Tasks : Sc(u) \in Nat
  BY ScoreIsNumber
<1>5. \A u, v \in Tasks : <<u, v>> \in WaveOrder <=>
        IF Sc(u) # Sc(v) THEN Sc(u) < Sc(v) ELSE Position[u] < Position[v]
  BY DEF WaveOrder, Precedes
<1> HIDE DEF m, longer, Sc
<1>6. \A i, j \in 1..m : i < j => Sc(queue[i]) <= Sc(queue[j])
  <2> SUFFICES ASSUME NEW i \in 1..m, NEW j \in 1..m, i < j
               PROVE  Sc(queue[i]) <= Sc(queue[j])
    OBVIOUS
  <2>1. <<queue[i], queue[j]>> \in WaveOrder
    BY <1>2 DEF Sorted
  <2>2. Sc(queue[i]) # Sc(queue[j]) => Sc(queue[i]) < Sc(queue[j])
    BY <1>3, <1>5, <2>1
  <2>3. Sc(queue[i]) \in Nat /\ Sc(queue[j]) \in Nat
    BY <1>3, <1>4
  <2> QED BY <2>2, <2>3
<1>7. before = 1..b
  <2>1. before \in SUBSET (1..m)
    BY <1>2
  <2>2. CASE before = {}
    <3>1. b = 0
      BY <1>1, <2>2, FS_EmptySet
    <3> QED BY <2>2, <3>1
  <2>3. CASE before # {}
    <3>1. PICK k \in before : \A i \in before : i <= k
      <4> HIDE DEF before
      <4> QED BY <1>2, <2>1, <2>3, LastPosition
    <3>2. k \in 1..m /\ Sc(queue[k]) <= Sc(t)
      BY <2>1, <3>1
    <3>3. \A i \in 1..m : i < k => i \in before
      <4> SUFFICES ASSUME NEW i \in 1..m, i < k
                   PROVE  Sc(queue[i]) <= Sc(t)
        BY <1>2
      <4>1. Sc(queue[i]) <= Sc(queue[k])
        BY <1>6, <3>2
      <4> QED BY <1>3, <1>4, <3>2, <4>1
    <3> HIDE DEF before
    <3>4. before = 1..k
      <4>1. \A i \in before : i \in 1..k
        BY <1>2, <2>1, <3>1, <3>2
      <4>2. \A i \in 1..k : i \in before
        <5> SUFFICES ASSUME NEW i \in 1..k
                     PROVE  i \in before
          OBVIOUS
        <5>1. i \in 1..m /\ (i < k \/ i = k)
          BY <1>2, <3>2
        <5> QED BY <3>1, <3>3, <5>1
      <4> QED BY <4>1, <4>2
    <3>5. Cardinality(1..k) = k
      <4>1. 1 \in Int /\ k \in Int /\ k >= 1
        BY <1>2, <3>2
      <4>2. Cardinality(1..k) = IF 1 > k THEN 0 ELSE k - 1 + 1
        BY <4>1, FS_Interval
      <4> QED BY <4>1, <4>2
    <3> QED BY <1>1, <3>4, <3>5
  <2> QED BY <2>2, <2>3
<1>8. \A i \in 1..m : Sc(queue[i]) <= Sc(t) <=> i <= b
  <2> SUFFICES ASSUME NEW i \in 1..m
               PROVE  Sc(queue[i]) <= Sc(t) <=> i <= b
    OBVIOUS
  <2>1. i \in before <=> i \in 1..b
    BY <1>7
  <2>2. i \in before <=> Sc(queue[i]) <= Sc(t)
    BY <1>2
  <2>3. i \in 1..b <=> i <= b
    BY <1>2
  <2> QED BY <2>1, <2>2, <2>3
<1> HIDE DEF before
<1>9. \A i \in 1..m : i <= b => <<queue[i], t>> \in WaveOrder
  BY <1>3, <1>4, <1>5, <1>8 DEF PositionOrder
<1>10. \A i \in 1..m : i > b => <<t, queue[i]>> \in WaveOrder
  <2> SUFFICES ASSUME NEW i \in 1..m, i > b
               PROVE  <<t, queue[i]>> \in WaveOrder
    OBVIOUS
  <2>1. ~(Sc(queue[i]) <= Sc(t)) /\ Sc(queue[i]) \in Nat /\ Sc(t) \in Nat
    BY <1>2, <1>3, <1>4, <1>8
  <2>2. Sc(t) # Sc(queue[i]) /\ Sc(t) < Sc(queue[i])
    BY <2>1
  <2> QED BY <1>3, <1>5, <2>2
<1>11. TasksIn(longer) = TasksIn(queue) \cup {t}
  <2>1. \A i \in 1..(m + 1) : longer[i] = t \/ \E j \in 1..m : longer[i] = queue[j]
    <3> SUFFICES ASSUME NEW i \in 1..(m + 1)
                 PROVE  longer[i] = t \/ \E j \in 1..m : longer[i] = queue[j]
      OBVIOUS
    <3>3. CASE i = b + 1
      BY <1>1, <1>2, <3>3
    <3>1. CASE i <= b
      <4>1. i \in 1..m
        BY <1>2, <3>1
      <4> QED BY <1>1, <3>1, <4>1
    <3>2. CASE i > b + 1
      <4>1. i - 1 \in 1..m /\ ~(i <= b) /\ i # b + 1
        BY <1>2, <3>2
      <4> QED BY <1>1, <4>1
    <3> QED BY <1>2, <3>1, <3>2, <3>3
  <2>2. longer[b + 1] = t /\ b + 1 \in 1..(m + 1)
    BY <1>1, <1>2
  <2>3. \A j \in 1..m : \E i \in 1..(m + 1) : longer[i] = queue[j]
    <3> SUFFICES ASSUME NEW j \in 1..m
                 PROVE  \E i \in 1..(m + 1) : longer[i] = queue[j]
      OBVIOUS
    <3>1. CASE j <= b
      <4>1. j \in 1..(m + 1)
        BY <1>2
      <4> QED BY <1>1, <3>1, <4>1
    <3>2. CASE j > b
      <4>1. j + 1 \in 1..(m + 1) /\ ~(j + 1 <= b) /\ j + 1 # b + 1 /\ j + 1 - 1 = j
        BY <1>2, <3>2
      <4> QED BY <1>1, <4>1
    <3> QED BY <1>2, <3>1, <3>2
  <2>4. /\ TasksIn(longer) = {longer[i] : i \in 1..(m + 1)}
        /\ TasksIn(queue) = {queue[i] : i \in 1..m}
    BY <1>2 DEF TasksIn
  <2> QED BY <2>1, <2>2, <2>3, <2>4
<1>12. Sorted(longer, WaveOrder)
  <2> SUFFICES ASSUME NEW i \in 1..(m + 1), NEW j \in 1..(m + 1), i < j
               PROVE  <<longer[i], longer[j]>> \in WaveOrder
    BY <1>2 DEF Sorted
  <2>1. \A k, l \in 1..m : k < l => <<queue[k], queue[l]>> \in WaveOrder
    BY <1>2 DEF Sorted
  <2>2. CASE j <= b
    <3>1. i \in 1..m /\ j \in 1..m /\ i <= b
      BY <1>2, <2>2
    <3> QED BY <1>1, <2>1, <2>2, <3>1
  <2>3. CASE j = b + 1
    <3>1. i \in 1..m /\ i <= b /\ ~(j <= b)
      BY <1>2, <2>3
    <3> QED BY <1>1, <1>9, <2>3, <3>1
  <2>4. CASE j > b + 1
    <3>1. j - 1 \in 1..m /\ j - 1 > b /\ ~(j <= b) /\ j # b + 1
      BY <1>2, <2>4
    <3>2. longer[j] = queue[j - 1]
      BY <1>1, <3>1
    <3>3. CASE i <= b
      <4>1. i \in 1..m /\ i < j - 1
        BY <1>2, <2>4, <3>3
      <4> QED BY <1>1, <2>1, <3>1, <3>2, <3>3, <4>1
    <3>4. CASE i = b + 1
      <4>1. longer[i] = t
        BY <1>1, <1>2, <3>4
      <4> QED BY <1>10, <3>1, <3>2, <4>1
    <3>5. CASE i > b + 1
      <4>1. i - 1 \in 1..m /\ i - 1 < j - 1 /\ ~(i <= b) /\ i # b + 1
        BY <1>2, <3>5
      <4> QED BY <1>1, <2>1, <3>1, <3>2, <4>1
    <3> QED BY <1>2, <3>3, <3>4, <3>5
  <2> QED BY <1>2, <2>2, <2>3, <2>4
<1> QED BY <1>11, <1>12 DEF longer

\* Sorting keeps the ready tasks and brings them into the order of Precedes.
LEMMA ReadyInOrder ==
  ASSUME TypeSound
  PROVE  /\ ReadyOrder \in Seq(Tasks) /\ TasksIn(ReadyOrder) = Ready(status)
         /\ Sorted(ReadyOrder, WaveOrder)
<1>1. /\ ReadyTasks \in Seq(Tasks) /\ TasksIn(ReadyTasks) = Ready(status)
      /\ Sorted(ReadyTasks, PositionOrder)
  BY ReadyTasksInPlanOrder
<1>2. CASE ~Policy.risk_aware
  <2>1. ReadyOrder = ReadyTasks
    BY <1>2 DEF ReadyOrder
  <2>2. WaveOrder = PositionOrder
    BY <1>2 DEF WaveOrder, PositionOrder, Precedes
  <2> QED BY <1>1, <2>1, <2>2
<1>3. CASE Policy.risk_aware
  <2> DEFINE n == Len(ReadyTasks)
             V == Seq(Tasks)
  <2>1. n \in Nat /\ DOMAIN ReadyTasks = 1..n /\ <<>> \in V /\ \A i \in 1..n : ReadyTasks[i] \in Tasks
    BY <1>1
  <2>2. \A v \in V, t \in Tasks : InsertByScore(v, t) \in V
    BY InsertPlace
  <2> HIDE DEF n, V
  <2>3. PICK run : /\ run[0] = <<>> /\ run[n] = ReadyOrder
                   /\ \A k \in 0..(n - 1) : run[k + 1] = InsertByScore(run[k], ReadyTasks[k + 1])
    <3>1. InsertStays(V, n, ReadyTasks)
      BY <2>1, <2>2 DEF InsertStays
    <3>2. n \in Nat /\ DOMAIN ReadyTasks = 1..n /\ <<>> \in V
      BY <2>1
    <3>3. \E run : InsertTurns(<<>>, n, ReadyTasks, run)
      BY <3>1, <3>2, InsertByScoreRuns
    <3> QED BY <1>3, <3>3 DEF InsertTurns, ReadyOrder
  <2> DEFINE Visited(k) == {ReadyTasks[i] : i \in 1..k}
             K == {k \in 0..n : /\ run[k] \in V /\ Sorted(run[k], WaveOrder)
                                /\ TasksIn(run[k]) = Visited(k)}
  <2>4. 0 \in K
    <3>1. run[0] \in V /\ DOMAIN run[0] = {}
      BY <2>1, <2>3
    <3>2. Sorted(run[0], WaveOrder) /\ TasksIn(run[0]) = {}
      BY <3>1 DEF Sorted, TasksIn
    <3>3. Visited(0) = {} /\ 0 \in 0..n
      BY <2>1
    <3> QED BY <3>1, <3>2, <3>3
  <2>5. ASSUME NEW k \in 0..(n - 1), k \in K
        PROVE  k + 1 \in K
    <3> DEFINE t == ReadyTasks[k + 1]
    <3>1. k \in Nat /\ k + 1 \in 1..n /\ k + 1 \in 0..n /\ t \in Tasks
      BY <2>1
    <3>2. run[k] \in V /\ Sorted(run[k], WaveOrder) /\ TasksIn(run[k]) = Visited(k)
      BY <2>5
    <3>3. Visited(k + 1) = Visited(k) \cup {t}
      <4>1. 1..(k + 1) = (1..k) \cup {k + 1}
        BY <3>1
      <4> QED BY <4>1
    <3>4. \A u \in Visited(k) : <<u, t>> \in PositionOrder
      <4> SUFFICES ASSUME NEW i \in 1..k
                   PROVE  <<ReadyTasks[i], t>> \in PositionOrder
        OBVIOUS
      <4>1. i \in 1..n /\ i < k + 1
        <5> HIDE DEF K, Visited, t
        <5> QED BY <2>1, <3>1
      <4> QED BY <1>1, <2>1, <3>1, <4>1 DEF Sorted
    <3>5. run[k + 1] = InsertByScore(run[k], t)
      BY <2>3
    <3> HIDE DEF t, Visited
    <3>6. \A u \in TasksIn(run[k]) : <<u, t>> \in PositionOrder
      BY <3>2, <3>4
    <3>7. run[k] \in Seq(Tasks)
      BY <3>2 DEF V
    <3>8. /\ TasksIn(InsertByScore(run[k], t)) = TasksIn(run[k]) \cup {t}
          /\ Sorted(InsertByScore(run[k], t), WaveOrder)
      BY <1>3, <3>1, <3>2, <3>6, <3>7, InsertKeepsSorted
    <3>9. run[k + 1] \in V
      BY <2>2, <3>1, <3>2, <3>5
    <3> QED BY <3>1, <3>2, <3>3, <3>5, <3>8, <3>9
  <2>6. n \in K
    <3>1. \A k \in 0..n : k \in K
      <4> HIDE DEF K
      <4> QED BY <2>1, <2>4, <2>5, TurnByTurn
    <3>2. n \in 0..n
      BY <2>1
    <3> HIDE DEF K
    <3> QED BY <3>1, <3>2
  <2>7. Visited(n) = TasksIn(ReadyTasks)
    BY <2>1 DEF TasksIn
  <2>8. ReadyOrder = run[n]
    BY <2>3
  <2> HIDE DEF Visited
  <2> QED BY <1>1, <2>6, <2>7, <2>8 DEF V
<1> QED BY <1>2, <1>3

-----------------------------------------------------------------------------
(* The selection                                                           *)

Ahead(S, t) == {u \in S : Precedes(u, t, retries)}

\* What the loop has selected when it has considered the tasks C.
SelectedFrom(queue, C) ==
  /\ queue \in Seq(Tasks) /\ Sorted(queue, WaveOrder) /\ TasksIn(queue) \subseteq C
  /\ \A t \in C : t \in TasksIn(queue) <=> Admits(t, Ahead(TasksIn(queue), t))
  /\ Cardinality(AgentKeys(TasksIn(queue))) <= Policy.max_agents

\* A set of one task more has at most one agent key more.
LEMMA OneKeyMore ==
  ASSUME TypeSound, NEW S \in SUBSET Tasks, NEW t \in Tasks
  PROVE  /\ IsFiniteSet(S) /\ IsFiniteSet(AgentKeys(S))
         /\ AgentKeys(S \cup {t}) = AgentKeys(S) \cup {PreferredAgent[t]}
         /\ Cardinality(AgentKeys(S)) \in Nat
         /\ Cardinality(AgentKeys(S \cup {t})) =
              IF PreferredAgent[t] \in AgentKeys(S)
                THEN Cardinality(AgentKeys(S)) ELSE Cardinality(AgentKeys(S)) + 1
<1>1. IsFiniteSet(S)
  BY SchedulerLoopsAssumption, FS_Subset
<1>2. IsFiniteSet(AgentKeys(S))
  <2> DEFINE key == [u \in S |-> PreferredAgent[u]]
  <2>1. key \in Surjection(S, AgentKeys(S))
    BY DEF Surjection, AgentKeys
  <2> HIDE DEF key
  <2> QED BY <1>1, <2>1, FS_Surjection
<1>3. AgentKeys(S \cup {t}) = AgentKeys(S) \cup {PreferredAgent[t]}
  BY DEF AgentKeys
<1> QED BY <1>1, <1>2, <1>3, FS_AddElement, FS_CardinalityType

LEMMA SelectTaskSound ==
  ASSUME TypeSound, NEW C \in SUBSET Tasks, NEW queue, SelectedFrom(queue, C),
         NEW t \in Tasks, \A u \in C : <<u, t>> \in WaveOrder
  PROVE  SelectedFrom(SelectTask(queue, t), C \cup {t})
<1> DEFINE S == TasksIn(queue)
           longer == SelectTask(queue, t)
<1>1. /\ queue \in Seq(Tasks) /\ Sorted(queue, WaveOrder) /\ S \subseteq C /\ S \in SUBSET Tasks
      /\ \A u \in C : u \in S <=> Admits(u, Ahead(S, u))
      /\ Cardinality(AgentKeys(S)) <= Policy.max_agents
  BY DEF SelectedFrom
<1>2. IsStrictTotal(WaveOrder)
  BY OrdersAreStrictTotal
<1>3. \A u, v \in Tasks : <<u, v>> \in WaveOrder <=> Precedes(u, v, retries)
  BY DEF WaveOrder
<1>4. Ahead(S, t) = S
  BY <1>1, <1>3 DEF Ahead
<1>5. ~Precedes(t, t, retries) /\ \A u \in C : ~Precedes(t, u, retries)
  BY <1>2, <1>3 DEF IsStrictTotal
<1>6. t \notin S
  BY <1>1, <1>3, <1>5
<1>7. \A u \in C \cup {t} : Ahead(S \cup {t}, u) = Ahead(S, u)
  BY <1>5 DEF Ahead
<1>8. CASE Admits(t, S)
  <2>1. longer = Append(queue, t)
    BY <1>8 DEF SelectTask
  <2>2. longer \in Seq(Tasks) /\ TasksIn(longer) = S \cup {t}
    BY <1>1, <2>1, Appended
  <2>3. Sorted(longer, WaveOrder)
    BY <1>1, <2>1, AppendedSorted
  <2>4. Cardinality(AgentKeys(S \cup {t})) <= Policy.max_agents
    <3>1. PreferredAgent[t] \in AgentKeys(S) \/ Cardinality(AgentKeys(S)) < Policy.max_agents
      BY <1>8 DEF Admits
    <3>2. Policy.max_agents \in Nat
      BY PlanSound DEF PolicyType
    <3>3. /\ Cardinality(AgentKeys(S)) \in Nat
          /\ Cardinality(AgentKeys(S \cup {t})) =
               IF PreferredAgent[t] \in AgentKeys(S)
                 THEN Cardinality(AgentKeys(S)) ELSE Cardinality(AgentKeys(S)) + 1
      BY <1>1, OneKeyMore
    <3> QED BY <1>1, <3>1, <3>2, <3>3
  <2>5. \A u \in C \cup {t} : u \in S \cup {t} <=> Admits(u, Ahead(S \cup {t}, u))
    <3>1. \A u \in C : u \in S \cup {t} <=> u \in S
      BY <1>2, <1>3, <1>5
    <3> HIDE DEF S
    <3> QED BY <1>1, <1>4, <1>7, <1>8, <3>1
  <2> HIDE DEF S, longer
  <2> QED BY <1>1, <2>2, <2>3, <2>4, <2>5 DEF SelectedFrom, longer
<1>9. CASE ~Admits(t, S)
  <2>1. longer = queue
    BY <1>9 DEF SelectTask
  <2>2. \A u \in C \cup {t} : u \in S <=> Admits(u, Ahead(S, u))
    <3> HIDE DEF S
    <3> QED BY <1>1, <1>4, <1>6, <1>9
  <2> QED BY <1>1, <2>1, <2>2 DEF SelectedFrom
<1> QED BY <1>8, <1>9

LEMMA WaveIsSelected ==
  ASSUME TypeSound
  PROVE  SelectedFrom(WaveLoop, Ready(status))
<1> DEFINE n == Len(ReadyOrder)
           V == Seq(Tasks)
<1>1. /\ ReadyOrder \in Seq(Tasks) /\ TasksIn(ReadyOrder) = Ready(status)
      /\ Sorted(ReadyOrder, WaveOrder)
  BY ReadyInOrder
<1>2. n \in Nat /\ DOMAIN ReadyOrder = 1..n /\ <<>> \in V /\ \A i \in 1..n : ReadyOrder[i] \in Tasks
  BY <1>1
<1>3. \A v \in V, t \in Tasks : SelectTask(v, t) \in V
  BY DEF SelectTask
<1> HIDE DEF n, V
<1>4. PICK run : /\ run[0] = <<>> /\ run[n] = WaveLoop
                 /\ \A k \in 0..(n - 1) : run[k + 1] = SelectTask(run[k], ReadyOrder[k + 1])
  <2>1. SelectStays(V, n, ReadyOrder)
    BY <1>2, <1>3 DEF SelectStays
  <2>2. n \in Nat /\ DOMAIN ReadyOrder = 1..n /\ <<>> \in V
    BY <1>2
  <2>3. \E run : SelectTurns(<<>>, n, ReadyOrder, run)
    BY <2>1, <2>2, SelectTaskRuns
  <2> QED BY <2>3 DEF SelectTurns, WaveLoop
<1> DEFINE Visited(k) == {ReadyOrder[i] : i \in 1..k}
           K == {k \in 0..n : SelectedFrom(run[k], Visited(k))}
<1>5. 0 \in K
  <2>1. run[0] \in Seq(Tasks) /\ DOMAIN run[0] = {}
    BY <1>4
  <2>2. Sorted(run[0], WaveOrder) /\ TasksIn(run[0]) = {}
    BY <2>1 DEF Sorted, TasksIn
  <2>3. Visited(0) = {} /\ 0 \in 0..n
    BY <1>2
  <2>4. Cardinality(AgentKeys({})) <= Policy.max_agents
    <3>1. AgentKeys({}) = {} /\ Cardinality({}) = 0
      BY FS_EmptySet DEF AgentKeys
    <3>2. Policy.max_agents \in Nat
      BY PlanSound DEF PolicyType
    <3> QED BY <3>1, <3>2
  <2> QED BY <2>1, <2>2, <2>3, <2>4 DEF SelectedFrom
<1>6. ASSUME NEW k \in 0..(n - 1), k \in K
      PROVE  k + 1 \in K
  <2> DEFINE t == ReadyOrder[k + 1]
  <2>1. k \in Nat /\ k + 1 \in 1..n /\ k + 1 \in 0..n /\ t \in Tasks
    BY <1>2
  <2>2. SelectedFrom(run[k], Visited(k))
    BY <1>6
  <2>3. Visited(k + 1) = Visited(k) \cup {t}
    <3>1. 1..(k + 1) = (1..k) \cup {k + 1}
      BY <2>1
    <3> QED BY <3>1
  <2>4. \A i \in 1..k : i \in 1..n /\ i < k + 1
    <3> HIDE DEF K, Visited, t
    <3> QED BY <1>2, <2>1
  <2>5. \A u \in Visited(k) : u \in Tasks /\ <<u, t>> \in WaveOrder
    BY <1>1, <1>2, <2>1, <2>4 DEF Sorted
  <2>6. run[k + 1] = SelectTask(run[k], t)
    BY <1>4
  <2> HIDE DEF t, Visited
  <2>7. SelectedFrom(run[k + 1], Visited(k) \cup {t})
    <3>1. Visited(k) \in SUBSET Tasks
      BY <2>5
    <3>2. SelectedFrom(SelectTask(run[k], t), Visited(k) \cup {t})
      BY <2>1, <2>2, <2>5, <3>1, SelectTaskSound
    <3> QED BY <2>6, <3>2
  <2> QED BY <2>1, <2>3, <2>7
<1>7. n \in K
  <2>1. \A k \in 0..n : k \in K
    <3> HIDE DEF K
    <3> QED BY <1>2, <1>5, <1>6, TurnByTurn
  <2>2. n \in 0..n
    BY <1>2
  <2> HIDE DEF K
  <2> QED BY <2>1, <2>2
<1>8. Visited(n) = Ready(status)
  BY <1>1, <1>2 DEF TasksIn
<1>9. WaveLoop = run[n]
  BY <1>4
<1> HIDE DEF Visited
<1> QED BY <1>7, <1>8, <1>9

\* The test is passed again when others are taken away, as long as what was there has
\* not used more agents than allowed.
LEMMA AdmitsIsAntitone ==
  ASSUME TypeSound, NEW S \in SUBSET Tasks, NEW P \in SUBSET S, NEW t \in Tasks,
         Cardinality(AgentKeys(S)) <= Policy.max_agents, Admits(t, S)
  PROVE  Admits(t, P)
<1> DEFINE High(X) == {u \in X : IsHighRisk(u)}
<1>1. /\ Policy.max_parallel_tasks \in Nat /\ Policy.max_agents \in Nat
      /\ Policy.high_risk_parallel_limit \in Nat
  BY PlanSound DEF PolicyType
<1>2. Cardinality(P) < Policy.max_parallel_tasks
  <2>1. IsFiniteSet(S)
    BY OneKeyMore
  <2>2. Cardinality(P) <= Cardinality(S) /\ Cardinality(P) \in Nat /\ Cardinality(S) \in Nat
    BY <2>1, FS_Subset, FS_CardinalityType
  <2>3. Cardinality(S) < Policy.max_parallel_tasks
    BY DEF Admits
  <2> QED BY <1>1, <2>2, <2>3
<1>3. IsHighRisk(t) => Cardinality(High(P)) < Policy.high_risk_parallel_limit
  <2>1. IsFiniteSet(S) /\ High(S) \in SUBSET S /\ High(P) \in SUBSET High(S)
    BY OneKeyMore
  <2>2. IsHighRisk(t) => Cardinality(High(S)) < Policy.high_risk_parallel_limit
    BY DEF Admits
  <2> HIDE DEF High
  <2>3. IsFiniteSet(High(S)) /\ IsFiniteSet(High(P))
    BY <2>1, FS_Subset
  <2>4. /\ Cardinality(High(P)) <= Cardinality(High(S))
        /\ Cardinality(High(P)) \in Nat /\ Cardinality(High(S)) \in Nat
    BY <2>1, <2>3, FS_Subset, FS_CardinalityType
  <2> QED BY <1>1, <2>2, <2>4
<1>4. PreferredAgent[t] \in AgentKeys(P) \/ Cardinality(AgentKeys(P)) < Policy.max_agents
  <2> SUFFICES ASSUME PreferredAgent[t] \notin AgentKeys(P)
               PROVE  Cardinality(AgentKeys(P)) < Policy.max_agents
    OBVIOUS
  <2>1. P \in SUBSET Tasks /\ AgentKeys(P) \in SUBSET AgentKeys(S)
    BY DEF AgentKeys
  <2>2. /\ IsFiniteSet(AgentKeys(S)) /\ Cardinality(AgentKeys(S)) \in Nat
        /\ IsFiniteSet(AgentKeys(P)) /\ Cardinality(AgentKeys(P)) \in Nat
    BY <2>1, OneKeyMore
  <2>3. CASE PreferredAgent[t] \in AgentKeys(S)
    <3>1. Cardinality(AgentKeys(P)) <= Cardinality(AgentKeys(S))
      BY <2>1, <2>2, FS_Subset
    <3>2. Cardinality(AgentKeys(P)) # Cardinality(AgentKeys(S))
      BY <2>1, <2>2, <2>3, FS_Subset
    <3> QED BY <1>1, <2>2, <3>1, <3>2
  <2>4. CASE PreferredAgent[t] \notin AgentKeys(S)
    <3>1. Cardinality(AgentKeys(S)) < Policy.max_agents
      BY <2>4 DEF Admits
    <3>2. Cardinality(AgentKeys(P)) <= Cardinality(AgentKeys(S))
      BY <2>1, <2>2, FS_Subset
    <3> QED BY <1>1, <2>2, <3>1, <3>2
  <2> QED BY <2>3, <2>4
<1>5. /\ P # {} => t \notin NonParallel
      /\ P \cap NonParallel = {}
      /\ \A u \in P : ~Conflict(t, u)
  BY DEF Admits
<1> QED BY <1>2, <1>3, <1>4, <1>5 DEF Admits

\* Two selections differ in no task: not in the first one the loop comes to, since
\* what is ahead of that one is the same in both.
LEMMA SelectionsAgree ==
  ASSUME TypeSound, NEW S \in SUBSET Ready(status), NEW T \in SUBSET Ready(status),
         IsSelection(S, status, retries), IsSelection(T, status, retries)
  PROVE  S = T
<1> DEFINE n == Len(ReadyOrder)
           D == {i \in 1..n : ~(ReadyOrder[i] \in S <=> ReadyOrder[i] \in T)}
<1>1. /\ ReadyOrder \in Seq(Tasks) /\ TasksIn(ReadyOrder) = Ready(status)
      /\ Sorted(ReadyOrder, WaveOrder)
  BY ReadyInOrder
<1>2. n \in Nat /\ DOMAIN ReadyOrder = 1..n
  BY <1>1
<1>3. \A t \in Ready(status) : t \in Tasks /\ \E i \in 1..n : ReadyOrder[i] = t
  BY <1>1, <1>2 DEF TasksIn, Ready
<1>4. IsStrictTotal(WaveOrder)
  BY OrdersAreStrictTotal
<1>5. \A u, v \in Tasks : <<u, v>> \in WaveOrder <=> Precedes(u, v, retries)
  BY DEF WaveOrder
<1> HIDE DEF n
<1>6. ASSUME D # {}
      PROVE  FALSE
  <2>1. D \in SUBSET Nat
    BY <1>2
  <2>2. PICK i \in D : \A j \in D : i <= j
    <3> HIDE DEF D
    <3> QED BY <1>6, <2>1, LeastNumber
  <2> DEFINE t == ReadyOrder[i]
  <2>3. i \in 1..n /\ t \in Ready(status) /\ t \in Tasks
    BY <1>1, <1>2, <1>3, <2>2 DEF TasksIn
  <2>4. \A u \in Ready(status) : Precedes(u, t, retries) => (u \in S <=> u \in T)
    <3> SUFFICES ASSUME NEW u \in Ready(status), Precedes(u, t, retries)
                 PROVE  u \in S <=> u \in T
      OBVIOUS
    <3>1. PICK j \in 1..n : ReadyOrder[j] = u
      BY <1>3
    <3>2. u \in Tasks /\ <<u, t>> \in WaveOrder
      BY <1>3, <1>5, <2>3
    <3>3. i < j => <<t, u>> \in WaveOrder
      BY <1>1, <1>2, <2>3, <3>1 DEF Sorted
    <3>4. ~(i < j) /\ i # j
      BY <1>4, <2>3, <3>1, <3>2, <3>3 DEF IsStrictTotal
    <3>5. j < i
      <4> HIDE DEF t, D
      <4> QED BY <1>2, <2>3, <3>4
    <3>6. j \notin D
      <4> HIDE DEF D
      <4> QED BY <1>2, <2>1, <2>2, <3>5
    <3> QED BY <3>1, <3>6
  <2>5. Ahead(S, t) = Ahead(T, t)
    BY <2>4 DEF Ahead
  <2>6. t \in S <=> t \in T
    <3> HIDE DEF t
    <3> QED BY <2>3, <2>5 DEF IsSelection, Ahead
  <2> QED BY <2>2, <2>6
<1>7. \A t \in Ready(status) : t \in S <=> t \in T
  BY <1>3, <1>6
<1> QED BY <1>7

\* As many places as one has, so many has the other, with the same tasks.
LEMMA SortedAgreeTo ==
  ASSUME NEW order, IsStrictTotal(order), NEW m \in Nat, NEW n \in Nat,
         NEW p \in [1..m -> Tasks], NEW q \in [1..n -> Tasks],
         Sorted(p, order), Sorted(q, order), TasksIn(p) = TasksIn(q)
  PROVE  \A i \in 1..m : i \in 1..n /\ p[i] = q[i]
<1> DEFINE D == {i \in 1..m : ~(i \in 1..n /\ p[i] = q[i])}
<1>1. DOMAIN p = 1..m /\ DOMAIN q = 1..n
  OBVIOUS
<1>2. /\ \A i \in 1..m : \E j \in 1..n : q[j] = p[i]
      /\ \A i \in 1..n : \E j \in 1..m : p[j] = q[i]
  BY <1>1 DEF TasksIn
<1>3. /\ \A i, j \in 1..m : i < j => <<p[i], p[j]>> \in order
      /\ \A i, j \in 1..n : i < j => <<q[i], q[j]>> \in order
  BY <1>1 DEF Sorted
<1>4. \A t, u \in Tasks : <<t, u>> \in order => t # u /\ <<u, t>> \notin order
  BY DEF IsStrictTotal
<1>5. /\ \A i, j \in 1..m : i < j => p[i] # p[j] /\ <<p[j], p[i]>> \notin order
      /\ \A i, j \in 1..n : i < j => q[i] # q[j] /\ <<q[j], q[i]>> \notin order
  BY <1>3, <1>4
<1>6. ASSUME D # {}
      PROVE  FALSE
  <2>1. D \in SUBSET Nat
    OBVIOUS
  <2>2. PICK i \in D : \A j \in D : i <= j
    <3> HIDE DEF D
    <3> QED BY <1>6, <2>1, LeastNumber
  <2>3. i \in 1..m /\ ~(i \in 1..n /\ p[i] = q[i])
    BY <2>2
  <2>4. \A j \in 1..m : j < i => j \in 1..n /\ p[j] = q[j]
    <3> SUFFICES ASSUME NEW j \in 1..m, j < i, j \in D
                 PROVE  FALSE
      OBVIOUS
    <3>1. i <= j
      BY <2>2
    <3> QED BY <2>3, <3>1
  <2>5. PICK j \in 1..n : q[j] = p[i]
    BY <1>2, <2>3
  <2>6. ~(j < i)
    <3> SUFFICES ASSUME j < i
                 PROVE  FALSE
      OBVIOUS
    <3>1. j \in 1..m
      BY <2>3
    <3>2. p[j] = q[j] /\ p[j] # p[i]
      BY <1>5, <2>3, <2>4, <3>1
    <3> QED BY <2>5, <3>2
  <2>7. i < j /\ i \in 1..n
    <3>1. i # j
      BY <2>3, <2>5
    <3> HIDE DEF D
    <3> QED BY <2>3, <2>6, <3>1
  <2>8. PICK k \in 1..m : p[k] = q[i]
    BY <1>2, <2>7
  <2>9. ~(k < i)
    <3> SUFFICES ASSUME k < i
                 PROVE  FALSE
      OBVIOUS
    <3>1. k \in 1..n /\ p[k] = q[k]
      BY <2>4
    <3>2. q[k] # q[i]
      BY <1>5, <2>7, <3>1
    <3> QED BY <2>8, <3>1, <3>2
  <2>10. <<q[i], q[j]>> \in order
    BY <1>3, <2>7
  <2>11. k = i \/ i < k
    <3> HIDE DEF D
    <3> QED BY <2>3, <2>9
  <2>12. CASE k = i
    BY <2>3, <2>7, <2>8, <2>12
  <2>13. CASE i < k
    BY <1>5, <2>3, <2>5, <2>8, <2>10, <2>13
  <2> QED BY <2>11, <2>12, <2>13
<1> QED BY <1>6

LEMMA QueuesAgree ==
  ASSUME TypeSound, NEW m \in Nat, NEW n \in Nat,
         NEW p \in [1..m -> Tasks], NEW q \in [1..n -> Tasks],
         Sorted(p, WaveOrder), Sorted(q, WaveOrder), TasksIn(p) = TasksIn(q)
  PROVE  p = q
<1>1. IsStrictTotal(WaveOrder)
  BY OrdersAreStrictTotal
<1>2. /\ \A i \in 1..m : i \in 1..n /\ p[i] = q[i]
      /\ \A i \in 1..n : i \in 1..m /\ q[i] = p[i]
  BY <1>1, SortedAgreeTo
<1>3. 1..m = 1..n
  BY <1>2
<1> QED BY <1>2, <1>3

LEMMA WaveIsQueue ==
  ASSUME TypeSound
  PROVE  WaveLoop \in WaveQueues(status, retries)
<1> DEFINE n == Len(WaveLoop)
           R == Ready(status)
<1>1. SelectedFrom(WaveLoop, R)
  BY WaveIsSelected
<1>2. /\ WaveLoop \in Seq(Tasks) /\ Sorted(WaveLoop, WaveOrder) /\ TasksIn(WaveLoop) \subseteq R
      /\ \A t \in R : t \in TasksIn(WaveLoop) <=> Admits(t, Ahead(TasksIn(WaveLoop), t))
  BY <1>1 DEF SelectedFrom
<1>3. n \in Nat /\ DOMAIN WaveLoop = 1..n /\ WaveLoop \in [1..n -> Tasks]
  BY <1>2
<1>4. WaveLoop \in [1..n -> R]
  BY <1>2, <1>3 DEF TasksIn
<1>5. n \in 0..Cardinality(R)
  <2>1. IsStrictTotal(WaveOrder)
    BY OrdersAreStrictTotal
  <2>2. IsFiniteSet(R)
    BY SchedulerLoopsAssumption, FS_Subset DEF Ready
  <2> HIDE DEF n, R
  <2>3. \A i, j \in 1..n : i # j => WaveLoop[i] # WaveLoop[j]
    <3> SUFFICES ASSUME NEW i \in 1..n, NEW j \in 1..n, i < j
                 PROVE  WaveLoop[i] # WaveLoop[j]
      BY <1>3
    <3>1. <<WaveLoop[i], WaveLoop[j]>> \in WaveOrder /\ WaveLoop[i] \in Tasks
      BY <1>2, <1>3 DEF Sorted
    <3> QED BY <2>1, <3>1 DEF IsStrictTotal
  <2>4. WaveLoop \in Injection(1..n, R)
    BY <1>4, <2>3 DEF Injection, IsInjective
  <2>5. Cardinality(1..n) = n
    <3>1. 1 \in Int /\ n \in Int
      BY <1>3
    <3>2. Cardinality(1..n) = IF 1 > n THEN 0 ELSE n - 1 + 1
      BY <3>1, FS_Interval
    <3> QED BY <1>3, <3>2
  <2>6. Cardinality(1..n) <= Cardinality(R) /\ Cardinality(R) \in Nat
    BY <2>2, <2>4, FS_Injection, FS_CardinalityType
  <2> QED BY <1>3, <2>5, <2>6
<1>6. IsSelection(TasksIn(WaveLoop), status, retries)
  BY <1>2 DEF IsSelection, Ahead
<1>7. \A i, j \in DOMAIN WaveLoop : i < j => Precedes(WaveLoop[i], WaveLoop[j], retries)
  BY <1>2, <1>3 DEF Sorted, WaveOrder
<1> HIDE DEF n, R
<1>8. WaveLoop \in UNION {[1..k -> Ready(status)] : k \in 0..Cardinality(Ready(status))}
  BY <1>4, <1>5 DEF R
<1> QED BY <1>6, <1>7, <1>8 DEF WaveQueues

\* The loop of generateNextWave ends with the one queue WaveQueues describes, for every
\* plan, policy and state of the tasks: so a wave is determined by what it must satisfy,
\* each ready task being in it exactly if it fits with those ahead of it
\* (scheduler.ts).
THEOREM SelectionIsAlwaysUnique == Spec => []SelectionIsUnique
<1>1. TypeSound => SelectionIsUnique
  <2> SUFFICES ASSUME TypeSound
               PROVE  SelectionIsUnique
    OBVIOUS
  <2>1. WaveLoop \in WaveQueues(status, retries)
    BY WaveIsQueue
  <2>2. \A queue \in WaveQueues(status, retries) :
          \E n \in Nat : /\ queue \in [1..n -> Tasks] /\ Sorted(queue, WaveOrder)
                        /\ TasksIn(queue) \in SUBSET Ready(status)
                        /\ IsSelection(TasksIn(queue), status, retries)
    <3> SUFFICES ASSUME NEW queue \in WaveQueues(status, retries)
                 PROVE  \E n \in Nat : /\ queue \in [1..n -> Tasks] /\ Sorted(queue, WaveOrder)
                                      /\ TasksIn(queue) \in SUBSET Ready(status)
                                      /\ IsSelection(TasksIn(queue), status, retries)
      OBVIOUS
    <3>1. PICK n \in 0..Cardinality(Ready(status)) : queue \in [1..n -> Ready(status)]
      BY DEF WaveQueues
    <3>2. n \in Nat /\ queue \in [1..n -> Tasks] /\ DOMAIN queue = 1..n
      BY <3>1 DEF Ready
    <3>3. /\ \A i, j \in DOMAIN queue : i < j => Precedes(queue[i], queue[j], retries)
          /\ IsSelection(TasksIn(queue), status, retries)
      BY DEF WaveQueues
    <3>4. Sorted(queue, WaveOrder)
      BY <3>2, <3>3 DEF Sorted, WaveOrder
    <3>5. TasksIn(queue) \in SUBSET Ready(status)
      BY <3>1, <3>2 DEF TasksIn
    <3> QED BY <3>2, <3>3, <3>4, <3>5
  <2>3. ASSUME NEW queue \in WaveQueues(status, retries)
        PROVE  queue = WaveLoop
    <3>1. PICK m \in Nat : /\ queue \in [1..m -> Tasks] /\ Sorted(queue, WaveOrder)
                           /\ TasksIn(queue) \in SUBSET Ready(status)
                           /\ IsSelection(TasksIn(queue), status, retries)
      BY <2>2
    <3>2. PICK n \in Nat : /\ WaveLoop \in [1..n -> Tasks] /\ Sorted(WaveLoop, WaveOrder)
                           /\ TasksIn(WaveLoop) \in SUBSET Ready(status)
                           /\ IsSelection(TasksIn(WaveLoop), status, retries)
      BY <2>1, <2>2
    <3>3. TasksIn(queue) = TasksIn(WaveLoop)
      BY <3>1, <3>2, SelectionsAgree
    <3> QED BY <3>1, <3>2, <3>3, QueuesAgree
  <2> QED BY <2>1, <2>3 DEF SelectionIsUnique
<1> QED BY <1>1, TypeAlwaysSound, PTL

\* A ready task that is left out of a wave would not fit even beside the tasks selected
\* after it was refused: the greedy pass never gives a place away in vain
\* (scheduler.ts getSkipDecision).
THEOREM WavesAreMaximal == Spec => []NoReadyTaskLeftOutInVain
<1>1. TypeSound => NoReadyTaskLeftOutInVain
  <2> SUFFICES ASSUME TypeSound, NEW t \in Ready(status) \ TasksIn(WaveLoop),
                      Admits(t, TasksIn(WaveLoop))
               PROVE  FALSE
    BY DEF NoReadyTaskLeftOutInVain
  <2> DEFINE S == TasksIn(WaveLoop)
  <2>1. /\ S \subseteq Ready(status) /\ Ready(status) \subseteq Tasks
        /\ \A u \in Ready(status) : u \in S <=> Admits(u, Ahead(S, u))
        /\ Cardinality(AgentKeys(S)) <= Policy.max_agents
    BY WaveIsSelected DEF SelectedFrom, Ready
  <2>2. Ahead(S, t) \in SUBSET S
    BY DEF Ahead
  <2> HIDE DEF S
  <2>3. Admits(t, Ahead(S, t))
    BY <2>1, <2>2, AdmitsIsAntitone DEF S
  <2> QED BY <2>1, <2>3 DEF S
<1> QED BY <1>1, TypeAlwaysSound, PTL
===============================================================================
