------------------------------ MODULE SumLemmas ------------------------------
(***************************************************************************)
(* Facts about least and greatest numbers, induction and finite sums that  *)
(* the proofs about the components share.  The community modules define a  *)
(* sum as a recursive function on the subsets of the index set, which      *)
(* takes out one element after the other, each chosen by CHOOSE.  What is  *)
(* proved here is that this function exists, that the order does not       *)
(* matter, and what follows from that.  Induction is on sets of numbers,   *)
(* not on predicates: the provers can instantiate the former only.         *)
(***************************************************************************)
EXTENDS Functions, FiniteSets, FiniteSetTheorems, WellFoundedInduction, TLAPS

-----------------------------------------------------------------------------
(* Numbers                                                                 *)

Below == {p \in Nat \X Nat : p[1] < p[2]}

LEMMA LeastNumber ==
  ASSUME NEW S \in SUBSET Nat, S # {}
  PROVE  \E m \in S : \A n \in S : m <= n
<1>1. OpToRel(<, Nat) = Below
  BY DEF OpToRel, Below
<1>2. IsWellFoundedOn(Below, Nat)
  BY <1>1, NatLessThanWellFounded
<1>3. PICK m \in S : \A n \in S : <<n, m>> \notin Below
  BY <1>2, WFMin
<1>4. ASSUME NEW n \in S
      PROVE  m <= n
  <2>1. <<n, m>> \notin Below /\ <<n, m>> \in Nat \X Nat
    BY <1>3
  <2>2. ~(n < m)
    BY <2>1 DEF Below
  <2> QED BY <2>2
<1> QED BY <1>4

\* Some position of a set of positions is the last.
LEMMA LastPosition ==
  ASSUME NEW n \in Nat, NEW D \in SUBSET (1..n), D # {}
  PROVE  \E k \in D : \A j \in D : j <= k
<1>1. PICK T : T = {n - k : k \in D}
  OBVIOUS
<1>2. T \subseteq Nat /\ T # {}
  <2>1. \A k \in D : k \in 1..n /\ n - k \in Nat
    OBVIOUS
  <2>2. PICK k \in D : TRUE
    OBVIOUS
  <2>3. n - k \in T
    BY <1>1, <2>2
  <2>4. \A l \in T : l \in Nat
    BY <1>1, <2>1
  <2> QED BY <2>3, <2>4
<1>3. PICK m \in T : \A l \in T : m <= l
  BY <1>2, LeastNumber
<1>4. PICK k \in D : m = n - k
  BY <1>1
<1>5. ASSUME NEW j \in D
      PROVE  j <= k
  <2>1. n - j \in T /\ n - k <= n - j /\ j \in Int /\ k \in Int
    BY <1>1, <1>3, <1>4
  <2> QED BY <2>1
<1> QED BY <1>5

LEMMA NumberInduction ==
  ASSUME NEW P \in SUBSET Nat, 0 \in P, \A n \in P : n + 1 \in P
  PROVE  \A n \in Nat : n \in P
<1>1. SUFFICES ASSUME Nat \ P # {}
               PROVE  FALSE
  OBVIOUS
<1>2. PICK m \in Nat \ P : \A n \in Nat \ P : m <= n
  BY <1>1, LeastNumber
<1>3. m # 0 /\ m - 1 \in Nat
  BY <1>2
<1>4. m - 1 \in P
  BY <1>2, <1>3
<1>5. (m - 1) + 1 \in P
  BY <1>4
<1> QED BY <1>2, <1>5

-----------------------------------------------------------------------------
(* The recursion behind a sum                                              *)

Chosen(s) == CHOOSE x \in s : TRUE

\* it adds up f over each of the sets in C.
AddsUp(f, C, it) ==
  it = [s \in C |-> IF s = {} THEN 0 ELSE f[Chosen(s)] + it[s \ {Chosen(s)}]]

\* The subsets of S of at most n elements.
UpTo(S, n) == {s \in SUBSET S : Cardinality(s) <= n}

LEMMA ChosenIsMember ==
  ASSUME NEW s, s # {}
  PROVE  Chosen(s) \in s
BY DEF Chosen

LEMMA SumIsRecursive ==
  ASSUME NEW f, NEW S
  PROVE  SumFunctionOnSet(f, S) = (CHOOSE it : AddsUp(f, SUBSET S, it))[S]
BY DEF SumFunctionOnSet, FoldFunctionOnSet, MapThenFoldSet, AddsUp, Chosen

LEMMA Removed ==
  ASSUME NEW s, IsFiniteSet(s), s # {}, NEW n \in Nat, Cardinality(s) <= n + 1
  PROVE  /\ IsFiniteSet(s \ {Chosen(s)})
         /\ Cardinality(s \ {Chosen(s)}) \in Nat /\ Cardinality(s \ {Chosen(s)}) <= n
         /\ Cardinality(s \ {Chosen(s)}) < Cardinality(s)
<1>1. Chosen(s) \in s
  BY ChosenIsMember
<1>2. Cardinality(s) \in Nat
  BY FS_CardinalityType
<1>3. /\ IsFiniteSet(s \ {Chosen(s)})
      /\ Cardinality(s \ {Chosen(s)}) = Cardinality(s) - 1
  BY <1>1, FS_RemoveElement
<1>4. Cardinality(s \ {Chosen(s)}) \in Nat
  BY <1>3, FS_CardinalityType
<1> QED BY <1>2, <1>3, <1>4

\* The recursion is well-founded: it ends, so that there is such a function.
LEMMA SumExists ==
  ASSUME NEW f, NEW S, IsFiniteSet(S)
  PROVE  \E it : AddsUp(f, SUBSET S, it)
<1> DEFINE P == {n \in Nat : \E it : AddsUp(f, UpTo(S, n), it)}
<1>1. 0 \in P
  <2>1. UpTo(S, 0) = {{}}
    <3>1. \A s \in SUBSET S : Cardinality(s) <= 0 <=> s = {}
      <4>1. \A s \in SUBSET S : IsFiniteSet(s) /\ Cardinality(s) \in Nat
        BY FS_Subset, FS_CardinalityType
      <4> QED BY <4>1, FS_EmptySet
    <3> QED BY <3>1 DEF UpTo
  <2>2. AddsUp(f, {{}}, [s \in {{}} |-> 0])
    BY DEF AddsUp
  <2> QED BY <2>1, <2>2
<1>2. ASSUME NEW n \in P
      PROVE  n + 1 \in P
  <2>1. PICK it : AddsUp(f, UpTo(S, n), it)
    OBVIOUS
  <2> DEFINE next == [s \in UpTo(S, n + 1) |->
                        IF s = {} THEN 0 ELSE f[Chosen(s)] + it[s \ {Chosen(s)}]]
  <2>2. \A s \in UpTo(S, n) : s \in UpTo(S, n + 1)
    <3>1. ASSUME NEW s \in UpTo(S, n)
          PROVE  s \in UpTo(S, n + 1)
      <4>1. s \in SUBSET S /\ Cardinality(s) <= n
        BY DEF UpTo
      <4>2. IsFiniteSet(s) /\ Cardinality(s) \in Nat
        BY <4>1, FS_Subset, FS_CardinalityType
      <4>3. Cardinality(s) <= n + 1
        BY <4>1, <4>2
      <4> QED BY <4>1, <4>3 DEF UpTo
    <3> QED BY <3>1
  <2>3. \A s \in UpTo(S, n) : next[s] = it[s]
    BY <2>1, <2>2 DEF AddsUp
  <2>4. ASSUME NEW s \in UpTo(S, n + 1), s # {}
        PROVE  s \ {Chosen(s)} \in UpTo(S, n)
    <3>1. s \in SUBSET S /\ Cardinality(s) <= n + 1
      BY DEF UpTo
    <3>2. IsFiniteSet(s)
      BY <3>1, FS_Subset
    <3>3. Cardinality(s \ {Chosen(s)}) <= n
      BY <2>4, <3>1, <3>2, Removed
    <3> QED BY <3>1, <3>3 DEF UpTo
  <2>5. next = [s \in UpTo(S, n + 1) |->
                  IF s = {} THEN 0 ELSE f[Chosen(s)] + next[s \ {Chosen(s)}]]
    <3> DEFINE again == [s \in UpTo(S, n + 1) |->
                  IF s = {} THEN 0 ELSE f[Chosen(s)] + next[s \ {Chosen(s)}]]
    <3>1. \A s \in UpTo(S, n + 1) : next[s] = again[s]
      <4>1. ASSUME NEW s \in UpTo(S, n + 1)
            PROVE  next[s] = again[s]
        <5>1. CASE s = {}
          BY <5>1
        <5>2. CASE s # {}
          <6>1. next[s \ {Chosen(s)}] = it[s \ {Chosen(s)}]
            BY <2>3, <2>4, <5>2
          <6>2. next[s] = f[Chosen(s)] + it[s \ {Chosen(s)}]
            BY <5>2
          <6>3. again[s] = f[Chosen(s)] + next[s \ {Chosen(s)}]
            BY <5>2
          <6> QED BY <6>1, <6>2, <6>3
        <5> QED BY <5>1, <5>2
      <4> QED BY <4>1
    <3>2. DOMAIN next = DOMAIN again
      OBVIOUS
    <3> QED BY <3>1, <3>2
  <2>6. AddsUp(f, UpTo(S, n + 1), next)
    BY <2>5 DEF AddsUp
  <2> QED BY <2>6
<1>3. Cardinality(S) \in Nat
  BY FS_CardinalityType
<1>4. Cardinality(S) \in P
  <2> HIDE DEF P
  <2>1. P \in SUBSET Nat
    BY DEF P
  <2> QED BY <1>1, <1>2, <1>3, <2>1, NumberInduction
<1>5. UpTo(S, Cardinality(S)) = SUBSET S
  BY FS_Subset DEF UpTo
<1> QED BY <1>4, <1>5

\* ... and one only: functions that agree on the elements of r agree on their sum.
LEMMA SumsAgree ==
  ASSUME NEW f, NEW g, NEW S, NEW T, NEW it, NEW jt,
         AddsUp(f, SUBSET S, it), AddsUp(g, SUBSET T, jt),
         NEW R \in SUBSET (S \cap T), IsFiniteSet(R), \A x \in R : f[x] = g[x]
  PROVE  it[R] = jt[R]
<1> DEFINE P == {n \in Nat : \A r \in SUBSET R : Cardinality(r) <= n => it[r] = jt[r]}
<1>1. ASSUME NEW r \in SUBSET R
      PROVE  /\ r \in SUBSET S /\ r \in SUBSET T /\ IsFiniteSet(r) /\ Cardinality(r) \in Nat
             /\ it[r] = IF r = {} THEN 0 ELSE f[Chosen(r)] + it[r \ {Chosen(r)}]
             /\ jt[r] = IF r = {} THEN 0 ELSE g[Chosen(r)] + jt[r \ {Chosen(r)}]
  <2>1. r \in SUBSET S /\ r \in SUBSET T
    OBVIOUS
  <2>2. IsFiniteSet(r) /\ Cardinality(r) \in Nat
    BY FS_Subset, FS_CardinalityType
  <2> QED BY <2>1, <2>2 DEF AddsUp
<1>2. 0 \in P
  <2>1. \A r \in SUBSET R : IsFiniteSet(r) /\ Cardinality(r) \in Nat
    BY <1>1
  <2>2. \A r \in SUBSET R : Cardinality(r) <= 0 => r = {}
    BY <2>1, FS_EmptySet
  <2> QED BY <1>1, <2>2
<1>3. ASSUME NEW n \in P
      PROVE  n + 1 \in P
  <2>1. ASSUME NEW r \in SUBSET R, Cardinality(r) <= n + 1, r # {}
        PROVE  it[r] = jt[r]
    <3> DEFINE q == r \ {Chosen(r)}
    <3>1. Cardinality(q) <= n /\ q \in SUBSET R
      BY <1>1, <2>1, Removed
    <3>2. it[q] = jt[q]
      BY <3>1
    <3>3. f[Chosen(r)] = g[Chosen(r)]
      BY <2>1, ChosenIsMember
    <3> QED BY <1>1, <2>1, <3>2, <3>3
  <2>2. \A r \in SUBSET R : Cardinality(r) <= n + 1 => it[r] = jt[r]
    BY <1>1, <2>1
  <2> QED BY <2>2
<1>4. Cardinality(R) \in Nat /\ P \in SUBSET Nat
  BY FS_CardinalityType
<1>5. Cardinality(R) \in P
  <2> HIDE DEF P
  <2> QED BY <1>2, <1>3, <1>4, NumberInduction
<1> QED BY <1>4, <1>5

LEMMA SumSatisfies ==
  ASSUME NEW f, NEW S, IsFiniteSet(S)
  PROVE  \E it : AddsUp(f, SUBSET S, it) /\ SumFunctionOnSet(f, S) = it[S]
BY SumExists, SumIsRecursive

-----------------------------------------------------------------------------
(* Sums                                                                    *)

LEMMA SumEmpty ==
  ASSUME NEW f
  PROVE  SumFunctionOnSet(f, {}) = 0
<1>1. IsFiniteSet({})
  BY FS_EmptySet
<1>2. PICK it : AddsUp(f, SUBSET {}, it) /\ SumFunctionOnSet(f, {}) = it[{}]
  BY <1>1, SumSatisfies
<1> QED BY <1>2 DEF AddsUp

\* Only the values at the elements count.
LEMMA SumOfEquals ==
  ASSUME NEW f, NEW g, NEW S, IsFiniteSet(S), \A x \in S : f[x] = g[x]
  PROVE  SumFunctionOnSet(f, S) = SumFunctionOnSet(g, S)
<1>1. PICK it : AddsUp(f, SUBSET S, it) /\ SumFunctionOnSet(f, S) = it[S]
  BY SumSatisfies
<1>2. PICK jt : AddsUp(g, SUBSET S, jt) /\ SumFunctionOnSet(g, S) = jt[S]
  BY SumSatisfies
<1>3. S \in SUBSET (S \cap S)
  OBVIOUS
<1>4. it[S] = jt[S]
  BY <1>1, <1>2, <1>3, SumsAgree
<1> QED BY <1>1, <1>2, <1>4

LEMMA SumTakesOut ==
  ASSUME NEW f, NEW S, IsFiniteSet(S), S # {}
  PROVE  SumFunctionOnSet(f, S) = f[Chosen(S)] + SumFunctionOnSet(f, S \ {Chosen(S)})
<1> DEFINE R == S \ {Chosen(S)}
<1>1. IsFiniteSet(R)
  BY FS_Subset
<1>2. PICK it : AddsUp(f, SUBSET S, it) /\ SumFunctionOnSet(f, S) = it[S]
  BY SumSatisfies
<1>3. PICK jt : AddsUp(f, SUBSET R, jt) /\ SumFunctionOnSet(f, R) = jt[R]
  BY <1>1, SumSatisfies
<1>4. R \in SUBSET (S \cap R) /\ \A x \in R : f[x] = f[x]
  OBVIOUS
<1>5. it[R] = jt[R]
  <2> HIDE DEF R
  <2> QED BY <1>1, <1>2, <1>3, <1>4, SumsAgree
<1>6. it[S] = f[Chosen(S)] + it[R]
  BY <1>2 DEF AddsUp
<1> QED BY <1>2, <1>3, <1>5, <1>6

\* Induction over the size of a set, for a family of sets closed under taking one out.
LEMMA SetInduction ==
  ASSUME NEW S, IsFiniteSet(S), NEW G \in SUBSET SUBSET S, {} \in G,
         \A R \in SUBSET S : R # {} /\ (\A Q \in SUBSET R : Q # R => Q \in G) => R \in G
  PROVE  S \in G
<1> DEFINE P == {n \in Nat : \A R \in SUBSET S : Cardinality(R) <= n => R \in G}
<1>1. \A R \in SUBSET S : IsFiniteSet(R) /\ Cardinality(R) \in Nat
  BY FS_Subset, FS_CardinalityType
<1>2. 0 \in P
  <2>1. \A R \in SUBSET S : Cardinality(R) <= 0 => R = {}
    BY <1>1, FS_EmptySet
  <2> QED BY <2>1
<1>3. ASSUME NEW n \in P
      PROVE  n + 1 \in P
  <2>1. ASSUME NEW R \in SUBSET S, Cardinality(R) <= n + 1
        PROVE  R \in G
    <3>1. ASSUME NEW Q \in SUBSET R, Q # R
          PROVE  Q \in G
      <4>1. Cardinality(Q) <= Cardinality(R) /\ Cardinality(Q) # Cardinality(R)
        BY <1>1, <3>1, FS_Subset
      <4>2. Cardinality(Q) <= n /\ Q \in SUBSET S
        BY <1>1, <2>1, <4>1
      <4> QED BY <4>2
    <3> QED BY <3>1
  <2> QED BY <2>1
<1>4. Cardinality(S) \in Nat /\ P \in SUBSET Nat
  BY FS_CardinalityType
<1>5. Cardinality(S) \in P
  <2> HIDE DEF P
  <2> QED BY <1>2, <1>3, <1>4, NumberInduction
<1> QED BY <1>4, <1>5

LEMMA SumOfIntegers ==
  ASSUME NEW f, NEW S, IsFiniteSet(S), \A x \in S : f[x] \in Int
  PROVE  SumFunctionOnSet(f, S) \in Int
<1> DEFINE G == {R \in SUBSET S : SumFunctionOnSet(f, R) \in Int}
<1>1. {} \in G
  BY SumEmpty
<1>2. ASSUME NEW R \in SUBSET S, R # {}, \A Q \in SUBSET R : Q # R => Q \in G
      PROVE  R \in G
  <2>1. Chosen(R) \in R /\ IsFiniteSet(R)
    BY <1>2, ChosenIsMember, FS_Subset
  <2>2. SumFunctionOnSet(f, R) = f[Chosen(R)] + SumFunctionOnSet(f, R \ {Chosen(R)})
    BY <1>2, <2>1, SumTakesOut
  <2>3. SumFunctionOnSet(f, R \ {Chosen(R)}) \in Int
    BY <1>2, <2>1
  <2> QED BY <2>1, <2>2, <2>3
<1>3. G \in SUBSET SUBSET S
  OBVIOUS
<1>4. S \in G
  <2> HIDE DEF G
  <2> QED BY <1>1, <1>2, <1>3, SetInduction
<1> QED BY <1>4

\* The order of the elements does not matter: any of them can be taken out.
LEMMA SumWithout ==
  ASSUME NEW f, NEW S, IsFiniteSet(S), \A x \in S : f[x] \in Int, NEW y \in S
  PROVE  SumFunctionOnSet(f, S) = f[y] + SumFunctionOnSet(f, S \ {y})
<1> DEFINE G == {R \in SUBSET S : \A x \in R :
                   SumFunctionOnSet(f, R) = f[x] + SumFunctionOnSet(f, R \ {x})}
<1>1. {} \in G
  OBVIOUS
<1>2. ASSUME NEW R \in SUBSET S, R # {}, \A Q \in SUBSET R : Q # R => Q \in G,
             NEW x \in R
      PROVE  SumFunctionOnSet(f, R) = f[x] + SumFunctionOnSet(f, R \ {x})
  <2> DEFINE c == Chosen(R)
             rest == R \ {c, x}
  <2>1. c \in R /\ IsFiniteSet(R) /\ IsFiniteSet(rest)
    BY <1>2, ChosenIsMember, FS_Subset
  <2>2. SumFunctionOnSet(f, R) = f[c] + SumFunctionOnSet(f, R \ {c})
    BY <1>2, <2>1, SumTakesOut
  <2>3. CASE x = c
    BY <2>2, <2>3
  <2>4. CASE x # c
    <3>1. R \ {c} \in G /\ R \ {x} \in G
      BY <1>2, <2>1
    <3>2. x \in R \ {c} /\ c \in R \ {x} /\ (R \ {c}) \ {x} = rest /\ (R \ {x}) \ {c} = rest
      BY <2>1, <2>4
    <3>3. /\ SumFunctionOnSet(f, R \ {c}) = f[x] + SumFunctionOnSet(f, rest)
          /\ SumFunctionOnSet(f, R \ {x}) = f[c] + SumFunctionOnSet(f, rest)
      BY <3>1, <3>2
    <3>4. f[x] \in Int /\ f[c] \in Int /\ SumFunctionOnSet(f, rest) \in Int
      BY <2>1, SumOfIntegers
    <3> QED BY <2>2, <3>3, <3>4
  <2> QED BY <2>3, <2>4
<1>3. G \in SUBSET SUBSET S
  OBVIOUS
<1>4. \A R \in SUBSET S : R # {} /\ (\A Q \in SUBSET R : Q # R => Q \in G) => R \in G
  BY <1>2
<1>5. S \in G
  <2> HIDE DEF G
  <2> QED BY <1>1, <1>3, <1>4, SetInduction
<1> QED BY <1>5

LEMMA SumMonotone ==
  ASSUME NEW f, NEW g, NEW S, IsFiniteSet(S),
         \A x \in S : f[x] \in Int /\ g[x] \in Int /\ f[x] <= g[x]
  PROVE  SumFunctionOnSet(f, S) <= SumFunctionOnSet(g, S)
<1> DEFINE G == {R \in SUBSET S : SumFunctionOnSet(f, R) <= SumFunctionOnSet(g, R)}
<1>1. {} \in G
  BY SumEmpty
<1>2. ASSUME NEW R \in SUBSET S, R # {}, \A Q \in SUBSET R : Q # R => Q \in G
      PROVE  R \in G
  <2> DEFINE c == Chosen(R)
             rest == R \ {c}
  <2>1. c \in R /\ IsFiniteSet(R) /\ IsFiniteSet(rest)
    BY <1>2, ChosenIsMember, FS_Subset
  <2>2. /\ SumFunctionOnSet(f, R) = f[c] + SumFunctionOnSet(f, rest)
        /\ SumFunctionOnSet(g, R) = g[c] + SumFunctionOnSet(g, rest)
    BY <1>2, <2>1, SumTakesOut
  <2>3. SumFunctionOnSet(f, rest) <= SumFunctionOnSet(g, rest)
    BY <1>2, <2>1
  <2>4. SumFunctionOnSet(f, rest) \in Int /\ SumFunctionOnSet(g, rest) \in Int
    BY <2>1, SumOfIntegers
  <2> QED BY <2>1, <2>2, <2>3, <2>4
<1>3. G \in SUBSET SUBSET S
  OBVIOUS
<1>4. S \in G
  <2> HIDE DEF G
  <2> QED BY <1>1, <1>2, <1>3, SetInduction
<1> QED BY <1>4

LEMMA SumOfZeros ==
  ASSUME NEW f, NEW S, IsFiniteSet(S), \A x \in S : f[x] = 0
  PROVE  SumFunctionOnSet(f, S) = 0
<1> DEFINE G == {R \in SUBSET S : SumFunctionOnSet(f, R) = 0}
<1>1. {} \in G
  BY SumEmpty
<1>2. ASSUME NEW R \in SUBSET S, R # {}, \A Q \in SUBSET R : Q # R => Q \in G
      PROVE  R \in G
  <2>1. Chosen(R) \in R /\ IsFiniteSet(R)
    BY <1>2, ChosenIsMember, FS_Subset
  <2>2. SumFunctionOnSet(f, R) = f[Chosen(R)] + SumFunctionOnSet(f, R \ {Chosen(R)})
    BY <1>2, <2>1, SumTakesOut
  <2>3. SumFunctionOnSet(f, R \ {Chosen(R)}) = 0
    BY <1>2, <2>1
  <2> QED BY <2>1, <2>2, <2>3
<1>3. G \in SUBSET SUBSET S
  OBVIOUS
<1>4. S \in G
  <2> HIDE DEF G
  <2> QED BY <1>1, <1>2, <1>3, SetInduction
<1> QED BY <1>4

LEMMA SumOfNaturals ==
  ASSUME NEW f, NEW S, IsFiniteSet(S), \A x \in S : f[x] \in Nat
  PROVE  SumFunctionOnSet(f, S) \in Nat
<1>1. SumFunctionOnSet(f, S) \in Int
  BY SumOfIntegers
<1>2. PICK zero : zero = [x \in S |-> 0]
  OBVIOUS
<1>3. SumFunctionOnSet(zero, S) = 0
  BY <1>2, SumOfZeros
<1>4. \A x \in S : zero[x] \in Int /\ f[x] \in Int /\ zero[x] <= f[x]
  BY <1>2
<1>5. SumFunctionOnSet(zero, S) <= SumFunctionOnSet(f, S)
  BY <1>4, SumMonotone
<1> QED BY <1>1, <1>3, <1>5

\* One more at one place is one more in all.
LEMMA SumOneMore ==
  ASSUME NEW f, NEW g, NEW S, IsFiniteSet(S), \A x \in S : f[x] \in Int, NEW y \in S,
         g[y] = f[y] + 1, \A x \in S \ {y} : g[x] = f[x]
  PROVE  SumFunctionOnSet(g, S) = SumFunctionOnSet(f, S) + 1
<1>1. \A x \in S : g[x] \in Int
  OBVIOUS
<1>2. SumFunctionOnSet(f, S) = f[y] + SumFunctionOnSet(f, S \ {y})
  BY SumWithout
<1>3. SumFunctionOnSet(g, S) = g[y] + SumFunctionOnSet(g, S \ {y})
  BY <1>1, SumWithout
<1>4. IsFiniteSet(S \ {y})
  BY FS_Subset
<1>5. SumFunctionOnSet(g, S \ {y}) = SumFunctionOnSet(f, S \ {y})
  BY <1>4, SumOfEquals
<1>6. SumFunctionOnSet(f, S \ {y}) \in Int
  BY <1>4, SumOfIntegers
<1> QED BY <1>2, <1>3, <1>5, <1>6
===============================================================================
