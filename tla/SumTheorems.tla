---------------------------- MODULE SumTheorems ----------------------------
(***************************************************************************)
(* Sums over finite sets: what the models count with MapThenSumSet and     *)
(* FoldSeq, and the facts about it that their proofs use.  The prover has  *)
(* no induction rule with an operator parameter; BySize is the rule for a  *)
(* set instead, and every sum is first shown to be the value of a function *)
(* that adds one element after the other (Adds).                           *)
(***************************************************************************)
EXTENDS Integers, Sequences, SequencesExt, FiniteSets, FiniteSetsExt,
        FiniteSetTheorems, WellFoundedInduction, TLAPS

Total(g, S) == MapThenSumSet(LAMBDA x : g[x], S)

\* The element a sum takes first, and what it is to add up all subsets of S.
Pick(s) == CHOOSE x \in s : TRUE

Adds(f, g, S) ==
  f = [s \in SUBSET S |-> IF s = {} THEN 0 ELSE g[Pick(s)] + f[s \ {Pick(s)}]]

-----------------------------------------------------------------------------
\* Induction over the natural numbers, for a set.
LEMMA FromZero ==
  ASSUME NEW T, 0 \in T, \A n \in Nat : n \in T => n + 1 \in T
  PROVE  Nat \subseteq T
  <1>. SUFFICES ASSUME Nat \ T # {} PROVE FALSE
    OBVIOUS
  <1>1. PICK m \in Nat \ T : \A n \in Nat \ T : ~(<<n, m>> \in OpToRel(<, Nat))
    BY NatLessThanWellFounded, WFMin
  <1>2. m \in Nat /\ m # 0 /\ m - 1 \in Nat
    <2>1. m \in Nat /\ m # 0
      BY <1>1
    <2>. QED
      BY <2>1
  <1>3. <<m - 1, m>> \in OpToRel(<, Nat)
    BY <1>2 DEF OpToRel
  <1>4. m - 1 \in T
    BY <1>1, <1>2, <1>3
  <1>5. (m - 1) + 1 \in T /\ (m - 1) + 1 = m
    BY <1>2, <1>4
  <1>. QED
    BY <1>1, <1>5

\* Induction over the subsets of a finite set by their size.
LEMMA BySize ==
  ASSUME NEW S, IsFiniteSet(S), NEW T, {} \in T,
         \A R \in SUBSET S : R # {} /\ (\A x \in R : R \ {x} \in T) => R \in T
  PROVE  SUBSET S \subseteq T
  <1>. DEFINE N == {n \in Nat : \A R \in SUBSET S : Cardinality(R) = n => R \in T}
  <1>1. \A R \in SUBSET S : IsFiniteSet(R) /\ Cardinality(R) \in Nat
    BY FS_Subset, FS_CardinalityType
  <1>2. 0 \in N
    BY <1>1, FS_EmptySet
  <1>3. ASSUME NEW n \in Nat, n \in N PROVE n + 1 \in N
    <2>1. ASSUME NEW R \in SUBSET S, Cardinality(R) = n + 1 PROVE R \in T
      <3>1. ASSUME NEW x \in R PROVE R \ {x} \in T
        <4>1. Cardinality(R \ {x}) = n /\ R \ {x} \in SUBSET S
          BY <1>1, <2>1, FS_RemoveElement
        <4>. QED
          BY <1>3, <4>1
      <3>2. R # {}
        <4>1. Cardinality({}) = 0
          BY FS_EmptySet
        <4>2. Cardinality(R) # 0
          BY <2>1
        <4>. QED
          BY <4>1, <4>2
      <3>. QED
        BY <3>1, <3>2
    <2>. QED
      BY <2>1
  <1>. HIDE DEF N
  <1>4. Nat \subseteq N
    BY <1>2, <1>3, FromZero
  <1>. QED
    BY <1>1, <1>4 DEF N

-----------------------------------------------------------------------------
LEMMA PickIn == ASSUME NEW s, s # {} PROVE Pick(s) \in s
  BY DEF Pick

\* Two functions that add up agree wherever both are defined.
LEMMA AddsAgree ==
  ASSUME NEW A, NEW B, NEW S, S \subseteq A, S \subseteq B, IsFiniteSet(S),
         NEW f, NEW h, NEW g, Adds(f, g, A), Adds(h, g, B)
  PROVE  f[S] = h[S]
  <1>. DEFINE T == {R \in SUBSET S : f[R] = h[R]}
  <1>1. \A R \in SUBSET S :
          /\ f[R] = IF R = {} THEN 0 ELSE g[Pick(R)] + f[R \ {Pick(R)}]
          /\ h[R] = IF R = {} THEN 0 ELSE g[Pick(R)] + h[R \ {Pick(R)}]
    <2>. SUFFICES ASSUME NEW R \in SUBSET S
                  PROVE  /\ f[R] = IF R = {} THEN 0 ELSE g[Pick(R)] + f[R \ {Pick(R)}]
                         /\ h[R] = IF R = {} THEN 0 ELSE g[Pick(R)] + h[R \ {Pick(R)}]
      OBVIOUS
    <2>1. R \in SUBSET A /\ R \in SUBSET B
      OBVIOUS
    <2>. QED
      BY <2>1, Zenon DEF Adds
  <1>2. {} \in T
    BY <1>1
  <1>3. ASSUME NEW R \in SUBSET S, R # {}, \A x \in R : R \ {x} \in T PROVE R \in T
    BY <1>1, <1>3, PickIn
  <1>. HIDE DEF T
  <1>4. SUBSET S \subseteq T
    BY <1>2, <1>3, BySize
  <1>. QED
    BY <1>4 DEF T

\* What adds up the subsets of A adds up those of a subset of A.
LEMMA AddsWithin ==
  ASSUME NEW A, NEW B, B \subseteq A, NEW f, NEW g, Adds(f, g, A)
  PROVE  Adds([s \in SUBSET B |-> f[s]], g, B)
  <1>. DEFINE h == [s \in SUBSET B |-> f[s]]
  <1>1. ASSUME NEW s \in SUBSET B
        PROVE  f[s] = IF s = {} THEN 0 ELSE g[Pick(s)] + h[s \ {Pick(s)}]
    <2>1. s \in SUBSET A /\ s \ {Pick(s)} \in SUBSET B
      OBVIOUS
    <2>2. f[s] = IF s = {} THEN 0 ELSE g[Pick(s)] + f[s \ {Pick(s)}]
      BY <2>1, Zenon DEF Adds
    <2>. QED
      BY <2>1, <2>2
  <1>. QED
    BY <1>1 DEF Adds

\* A sum is what any function that adds up says it is.
LEMMA TotalIs ==
  ASSUME NEW S, IsFiniteSet(S), NEW f, NEW g, Adds(f, g, S)
  PROVE  Total(g, S) = f[S]
  <1>. DEFINE c == CHOOSE h : Adds(h, g, S)
  <1>1. Total(g, S) = c[S]
    BY DEF Total, MapThenSumSet, MapThenFoldSet, Adds, Pick
  <1>2. Adds(c, g, S)
    OBVIOUS
  <1>. HIDE DEF c
  <1>. QED
    BY <1>1, <1>2, AddsAgree

\* Every finite set can be added up.
LEMMA AddsExists ==
  ASSUME NEW S, IsFiniteSet(S), NEW g
  PROVE  \E f : Adds(f, g, S)
  <1>. DEFINE T == {R \in SUBSET S : \E f : Adds(f, g, R)}
  <1>1. {} \in T
    <2>. DEFINE f == [s \in SUBSET {} |-> 0]
    <2>1. Adds(f, g, {})
      BY DEF Adds
    <2>. QED
      BY <2>1
  <1>2. ASSUME NEW R \in SUBSET S, R # {}, \A x \in R : R \ {x} \in T PROVE R \in T
    <2>. DEFINE f == [s \in SUBSET R |-> IF s = {} THEN 0 ELSE g[Pick(s)] + Total(g, s \ {Pick(s)})]
    <2>1. ASSUME NEW s \in SUBSET R, s # {} PROVE f[s \ {Pick(s)}] = Total(g, s \ {Pick(s)})
      <3>. DEFINE q == s \ {Pick(s)}
                  B == R \ {Pick(s)}
      <3>1. q \in SUBSET R /\ q \subseteq B /\ B \in T
        BY <1>2, <2>1, PickIn
      <3>2. PICK h : Adds(h, g, B)
        BY <3>1
      <3>3. \A p \in SUBSET q : Total(g, p) = h[p]
        <4>. SUFFICES ASSUME NEW p \in SUBSET q PROVE Total(g, p) = h[p]
          OBVIOUS
        <4>1. IsFiniteSet(p) /\ p \subseteq B
          BY <3>1, FS_Subset
        <4>2. Adds([t \in SUBSET p |-> h[t]], g, p)
          BY <3>2, <4>1, AddsWithin
        <4>. QED
          BY <4>1, <4>2, TotalIs
      <3>4. h[q] = IF q = {} THEN 0 ELSE g[Pick(q)] + h[q \ {Pick(q)}]
        BY <3>1, <3>2, Zenon DEF Adds
      <3>5. q \ {Pick(q)} \in SUBSET q /\ q \in SUBSET q
        OBVIOUS
      <3>. HIDE DEF q, B
      <3>6. f[q] = IF q = {} THEN 0 ELSE g[Pick(q)] + Total(g, q \ {Pick(q)})
        BY <3>1
      <3>. QED
        BY <3>3, <3>4, <3>5, <3>6 DEF q
    <2>2. f = [s \in SUBSET R |-> IF s = {} THEN 0 ELSE g[Pick(s)] + f[s \ {Pick(s)}]]
      BY <2>1
    <2>. HIDE DEF f
    <2>3. Adds(f, g, R)
      BY <2>2 DEF Adds
    <2>. QED
      BY <2>3
  <1>. HIDE DEF T
  <1>3. SUBSET S \subseteq T
    BY <1>1, <1>2, BySize
  <1>. QED
    BY <1>3 DEF T

-----------------------------------------------------------------------------
\* The sum of nothing, and the sum as the code of a fold computes it.
LEMMA TotalEmpty == ASSUME NEW g PROVE Total(g, {}) = 0
  <1>1. IsFiniteSet({})
    BY FS_EmptySet
  <1>2. PICK f : Adds(f, g, {})
    BY <1>1, AddsExists
  <1>. QED
    BY <1>1, <1>2, TotalIs DEF Adds

LEMMA TotalFirst ==
  ASSUME NEW S, IsFiniteSet(S), S # {}, NEW g
  PROVE  Total(g, S) = g[Pick(S)] + Total(g, S \ {Pick(S)})
  <1>. DEFINE q == S \ {Pick(S)}
  <1>1. PICK f : Adds(f, g, S)
    BY AddsExists
  <1>2. Total(g, S) = f[S]
    BY <1>1, TotalIs
  <1>3. IsFiniteSet(q) /\ q \subseteq S
    BY FS_Subset
  <1>4. Adds([t \in SUBSET q |-> f[t]], g, q)
    BY <1>1, <1>3, AddsWithin
  <1>5. Total(g, q) = f[q]
    BY <1>3, <1>4, TotalIs
  <1>6. f[S] = g[Pick(S)] + f[q]
    BY <1>1, Zenon DEF Adds
  <1>. QED
    BY <1>2, <1>5, <1>6

LEMMA TotalInt ==
  ASSUME NEW S, IsFiniteSet(S), NEW g, \A x \in S : g[x] \in Int
  PROVE  \A R \in SUBSET S : Total(g, R) \in Int
  <1>. DEFINE T == {R \in SUBSET S : Total(g, R) \in Int}
  <1>1. {} \in T
    BY TotalEmpty
  <1>2. ASSUME NEW R \in SUBSET S, R # {}, \A x \in R : R \ {x} \in T PROVE R \in T
    <2>1. IsFiniteSet(R) /\ Pick(R) \in R
      BY <1>2, FS_Subset, PickIn
    <2>2. Total(g, R) = g[Pick(R)] + Total(g, R \ {Pick(R)})
      BY <1>2, <2>1, TotalFirst
    <2>. QED
      BY <1>2, <2>1, <2>2
  <1>. HIDE DEF T
  <1>3. SUBSET S \subseteq T
    BY <1>1, <1>2, BySize
  <1>. QED
    BY <1>3 DEF T

\* The order of addition does not matter: any element may be taken out.
LEMMA TotalSplit ==
  ASSUME NEW S, IsFiniteSet(S), NEW g, \A x \in S : g[x] \in Int, NEW y \in S
  PROVE  Total(g, S) = g[y] + Total(g, S \ {y})
  <1>. DEFINE T == {R \in SUBSET S : \A x \in R : Total(g, R) = g[x] + Total(g, R \ {x})}
  <1>1. {} \in T
    OBVIOUS
  <1>2. ASSUME NEW R \in SUBSET S, R # {}, \A x \in R : R \ {x} \in T PROVE R \in T
    <2>. DEFINE p == Pick(R)
    <2>1. IsFiniteSet(R) /\ p \in R
      BY <1>2, FS_Subset, PickIn
    <2>2. Total(g, R) = g[p] + Total(g, R \ {p})
      BY <1>2, <2>1, TotalFirst
    <2>. HIDE DEF p
    <2>3. ASSUME NEW x \in R, x # p PROVE Total(g, R) = g[x] + Total(g, R \ {x})
      <3>1. Total(g, R \ {p}) = g[x] + Total(g, (R \ {p}) \ {x})
        BY <1>2, <2>1, <2>3
      <3>2. Total(g, R \ {x}) = g[p] + Total(g, (R \ {x}) \ {p})
        BY <1>2, <2>1, <2>3
      <3>3. Total(g, (R \ {p}) \ {x}) = Total(g, (R \ {x}) \ {p})
        <4>1. (R \ {p}) \ {x} = (R \ {x}) \ {p}
          OBVIOUS
        <4>. QED
          BY <4>1, Zenon
      <3>4. Total(g, (R \ {x}) \ {p}) \in Int /\ g[x] \in Int /\ g[p] \in Int
        <4>1. (R \ {x}) \ {p} \in SUBSET S /\ x \in S /\ p \in S
          BY <2>1
        <4>. QED
          BY <4>1, TotalInt
      <3>. QED
        BY <2>2, <3>1, <3>2, <3>3, <3>4
    <2>. QED
      BY <2>2, <2>3
  <1>. HIDE DEF T
  <1>3. SUBSET S \subseteq T
    BY <1>1, <1>2, BySize
  <1>. QED
    BY <1>3 DEF T

LEMMA TotalSame ==
  ASSUME NEW S, IsFiniteSet(S), NEW g, NEW h, \A x \in S : g[x] = h[x]
  PROVE  Total(g, S) = Total(h, S)
  <1>. DEFINE T == {R \in SUBSET S : Total(g, R) = Total(h, R)}
  <1>1. {} \in T
    BY TotalEmpty
  <1>2. ASSUME NEW R \in SUBSET S, R # {}, \A x \in R : R \ {x} \in T PROVE R \in T
    <2>1. IsFiniteSet(R) /\ Pick(R) \in R
      BY <1>2, FS_Subset, PickIn
    <2>2. /\ Total(g, R) = g[Pick(R)] + Total(g, R \ {Pick(R)})
          /\ Total(h, R) = h[Pick(R)] + Total(h, R \ {Pick(R)})
      BY <1>2, <2>1, TotalFirst
    <2>. QED
      BY <1>2, <2>1, <2>2
  <1>. HIDE DEF T
  <1>3. SUBSET S \subseteq T
    BY <1>1, <1>2, BySize
  <1>. QED
    BY <1>3 DEF T

\* One summand changes: the sum changes by the difference.
LEMMA TotalChange ==
  ASSUME NEW S, IsFiniteSet(S), NEW g, NEW h, NEW y \in S,
         \A x \in S : g[x] \in Int /\ h[x] \in Int,
         \A x \in S \ {y} : h[x] = g[x]
  PROVE  Total(h, S) = Total(g, S) + h[y] - g[y]
  <1>1. IsFiniteSet(S \ {y}) /\ S \ {y} \in SUBSET S
    BY FS_Subset
  <1>2. Total(g, S) = g[y] + Total(g, S \ {y}) /\ Total(h, S) = h[y] + Total(h, S \ {y})
    BY TotalSplit
  <1>3. Total(g, S \ {y}) = Total(h, S \ {y})
    BY <1>1, TotalSame
  <1>4. Total(g, S \ {y}) \in Int /\ g[y] \in Int /\ h[y] \in Int
    BY <1>1, TotalInt
  <1>. QED
    BY <1>2, <1>3, <1>4

\* A sum of at most c times something is at most c times the sum of it.
LEMMA TotalBound ==
  ASSUME NEW S, IsFiniteSet(S), NEW g, NEW h,
         \A x \in S : g[x] \in Nat /\ h[x] \in Nat /\ h[x] <= g[x] /\ g[x] <= 5 * h[x]
  PROVE  /\ Total(g, S) \in Nat /\ Total(h, S) \in Nat
         /\ Total(h, S) <= Total(g, S) /\ Total(g, S) <= 5 * Total(h, S)
  <1>. DEFINE Ok(R) == /\ Total(g, R) \in Nat /\ Total(h, R) \in Nat
                       /\ Total(h, R) <= Total(g, R) /\ Total(g, R) <= 5 * Total(h, R)
              T == {R \in SUBSET S : Ok(R)}
  <1>1. {} \in T
    BY TotalEmpty
  <1>2. ASSUME NEW R \in SUBSET S, R # {}, \A x \in R : R \ {x} \in T PROVE R \in T
    <2>1. IsFiniteSet(R) /\ Pick(R) \in R
      BY <1>2, FS_Subset, PickIn
    <2>2. /\ Total(g, R) = g[Pick(R)] + Total(g, R \ {Pick(R)})
          /\ Total(h, R) = h[Pick(R)] + Total(h, R \ {Pick(R)})
      BY <1>2, <2>1, TotalFirst
    <2>3. Ok(R \ {Pick(R)}) /\ g[Pick(R)] \in Nat /\ h[Pick(R)] \in Nat
            /\ h[Pick(R)] <= g[Pick(R)] /\ g[Pick(R)] <= 5 * h[Pick(R)]
      BY <1>2, <2>1
    <2>. QED
      BY <2>2, <2>3
  <1>. HIDE DEF T, Ok
  <1>3. SUBSET S \subseteq T
    BY <1>1, <1>2, BySize
  <1>. QED
    BY <1>3 DEF T, Ok

LEMMA TotalNat ==
  ASSUME NEW S, IsFiniteSet(S), NEW g, \A x \in S : g[x] \in Nat
  PROVE  Total(g, S) \in Nat /\ \A x \in S : g[x] <= Total(g, S)
  <1>1. IsFiniteSet(S) /\ \A x \in S : g[x] \in Nat /\ g[x] <= g[x] /\ g[x] <= 5 * g[x]
    OBVIOUS
  <1>2. Total(g, S) \in Nat
    BY <1>1, TotalBound
  <1>3. ASSUME NEW x \in S PROVE g[x] <= Total(g, S)
    <2>1. IsFiniteSet(S \ {x}) /\ Total(g, S) = g[x] + Total(g, S \ {x})
      BY TotalSplit, FS_Subset
    <2>2. Total(g, S \ {x}) \in Nat
      BY <1>1, <2>1, TotalBound
    <2>. QED
      BY <2>1, <2>2
  <1>. QED
    BY <1>2, <1>3

\* What is zero does not count, and what is one counts the elements.
LEMMA TotalWithout ==
  ASSUME NEW S, IsFiniteSet(S), NEW A, A \subseteq S, NEW g, \A x \in S : g[x] \in Int,
         \A x \in S \ A : g[x] = 0
  PROVE  Total(g, S) = Total(g, A)
  <1>. DEFINE T == {R \in SUBSET S : Total(g, R) = Total(g, R \cap A)}
  <1>1. {} \in T
    <2>1. {} \cap A = {}
      OBVIOUS
    <2>. QED
      BY <2>1
  <1>2. ASSUME NEW R \in SUBSET S, R # {}, \A x \in R : R \ {x} \in T PROVE R \in T
    <2>. DEFINE p == Pick(R)
    <2>1. IsFiniteSet(R) /\ p \in R /\ IsFiniteSet(R \cap A)
      <3>1. R \cap A \in SUBSET S
        OBVIOUS
      <3>. QED
        BY <1>2, <3>1, FS_Subset, PickIn
    <2>2. Total(g, R) = g[p] + Total(g, R \ {p})
      BY <1>2, <2>1, TotalFirst
    <2>. HIDE DEF p
    <2>3. Total(g, R \ {p}) = Total(g, (R \ {p}) \cap A) /\ Total(g, R \ {p}) \in Int
      <3>1. R \ {p} \in SUBSET S
        OBVIOUS
      <3>. QED
        BY <1>2, <2>1, <3>1, TotalInt
    <2>4. CASE p \in A
      <3>1. (R \ {p}) \cap A = (R \cap A) \ {p} /\ p \in R \cap A
        BY <2>1, <2>4
      <3>2. Total(g, R \cap A) = g[p] + Total(g, (R \cap A) \ {p})
        BY <2>1, <3>1, TotalSplit
      <3>. QED
        BY <2>2, <2>3, <3>1, <3>2
    <2>5. CASE p \notin A
      <3>1. (R \ {p}) \cap A = R \cap A /\ g[p] = 0
        BY <2>1, <2>5
      <3>2. Total(g, (R \ {p}) \cap A) = Total(g, R \cap A)
        BY <3>1, Zenon
      <3>3. Total(g, R) = Total(g, R \cap A)
        BY <2>2, <2>3, <3>1, <3>2
      <3>. QED
        BY <3>3
    <2>. QED
      BY <2>4, <2>5
  <1>. HIDE DEF T
  <1>3. SUBSET S \subseteq T
    BY <1>1, <1>2, BySize
  <1>4. S \cap A = A
    OBVIOUS
  <1>. QED
    BY <1>3, <1>4 DEF T

LEMMA TotalOnes ==
  ASSUME NEW S, IsFiniteSet(S), NEW g, \A x \in S : g[x] = 1
  PROVE  Total(g, S) = Cardinality(S)
  <1>. DEFINE T == {R \in SUBSET S : Total(g, R) = Cardinality(R)}
  <1>1. {} \in T
    BY TotalEmpty, FS_EmptySet
  <1>2. ASSUME NEW R \in SUBSET S, R # {}, \A x \in R : R \ {x} \in T PROVE R \in T
    <2>1. IsFiniteSet(R) /\ Pick(R) \in R
      BY <1>2, FS_Subset, PickIn
    <2>2. Total(g, R) = 1 + Cardinality(R \ {Pick(R)})
      BY <1>2, <2>1, TotalFirst
    <2>3. Cardinality(R \ {Pick(R)}) = Cardinality(R) - 1 /\ Cardinality(R) \in Nat
      BY <2>1, FS_RemoveElement, FS_CardinalityType
    <2>. QED
      BY <2>2, <2>3
  <1>. HIDE DEF T
  <1>3. SUBSET S \subseteq T
    BY <1>1, <1>2, BySize
  <1>. QED
    BY <1>3 DEF T

-----------------------------------------------------------------------------
\* A fold over a sequence is the sum of it.
LEMMA FoldIsTotal == ASSUME NEW s PROVE FoldSeq(+, 0, s) = Total(s, DOMAIN s)
  BY DEF Total, FoldSeq, FoldFunction, FoldFunctionOnSet, MapThenSumSet, MapThenFoldSet

=============================================================================
