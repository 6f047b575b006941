------------------------------- MODULE SumLemmas -------------------------------
(***************************************************************************)
(* Facts about SumFunctionOnSet, the community modules' sum of a function  *)
(* over a finite set, by which the ledgers' properties state that energy   *)
(* and money are conserved.  The operator is a recursive function over the *)
(* subsets that takes a chosen element first; what the proofs need is that *)
(* any element may be taken first, that sums of naturals are naturals, and *)
(* how a sum moves with one term or one index.  The induction is the       *)
(* well-foundedness of strict inclusion among finite sets.                 *)
(***************************************************************************)
EXTENDS Naturals, FiniteSetsExt, Functions, FiniteSetTheorems, WellFoundedInduction, TLAPS

\* The element a sum over S takes first.
Pick(S) == CHOOSE x \in S : TRUE

\* h is the table of the sums of f over the subsets of S.
IsTable(f, S, h) ==
  h = [s \in SUBSET S |-> IF s = {} THEN 0 ELSE f[Pick(s)] + h[s \ {Pick(s)}]]

-----------------------------------------------------------------------------
(* The tables behind a sum.                                                *)

\* The sum over S is the last line of its table.
LEMMA SumDef ==
  ASSUME NEW f, NEW S
  PROVE  SumFunctionOnSet(f, S) =
           (CHOOSE h : IsTable(f, S, h))[S]
BY DEF SumFunctionOnSet, FoldFunctionOnSet, MapThenFoldSet, IsTable, Pick

\* What holds of a subset once it holds of the smaller ones holds of all: I is
\* the set of the subsets it holds of.
LEMMA SubsetInduction ==
  ASSUME NEW S, IsFiniteSet(S), NEW I,
         \A T \in SUBSET S : (\A U \in SUBSET T : U # T => U \in I) => T \in I
  PROVE  SUBSET S \subseteq I
<1> DEFINE Bad == {T \in SUBSET S : T \notin I}
<1>1. IsWellFoundedOn(StrictSubsetOrdering(S), SUBSET S)
  BY FS_StrictSubsetOrderingWellFounded, FS_FiniteSubsetsOfFinite
<1>2. SUFFICES ASSUME Bad # {} PROVE FALSE
  OBVIOUS
<1>3. PICK T \in Bad : \A U \in Bad : <<U, T>> \notin StrictSubsetOrdering(S)
  <2> HIDE DEF Bad
  <2>1. Bad \subseteq SUBSET S
    BY DEF Bad
  <2>2. QED
    BY <1>1, <1>2, <2>1, WFMin
<1>4. \A U \in SUBSET T : U # T => U \in I
  BY <1>3 DEF StrictSubsetOrdering
<1>5. QED
  BY <1>3, <1>4

\* The element taken first is one of the set.
LEMMA PickInSet ==
  ASSUME NEW S, S # {}
  PROVE  Pick(S) \in S
BY DEF Pick

\* The lines of a table.
LEMMA TableLine ==
  ASSUME NEW f, NEW S, NEW h, IsTable(f, S, h), NEW T \in SUBSET S
  PROVE  h[T] = IF T = {} THEN 0 ELSE f[Pick(T)] + h[T \ {Pick(T)}]
BY DEF IsTable

\* The tables of a set and of a subset of it have the same lines in common.
LEMMA TablesAgree ==
  ASSUME NEW f, NEW S, NEW h, IsTable(f, S, h),
         NEW T \in SUBSET S, NEW k, IsTable(f, T, k), IsFiniteSet(T)
  PROVE  \A U \in SUBSET T : h[U] = k[U]
<1> DEFINE I == {U \in SUBSET T : h[U] = k[U]}
<1>1. ASSUME NEW U \in SUBSET T, \A W \in SUBSET U : W # U => W \in I
      PROVE  U \in I
  <2>1. h[U] = (IF U = {} THEN 0 ELSE f[Pick(U)] + h[U \ {Pick(U)}])
    BY TableLine
  <2>2. k[U] = (IF U = {} THEN 0 ELSE f[Pick(U)] + k[U \ {Pick(U)}])
    <3> HIDE DEF I
    <3>1. IsTable(f, T, k) /\ U \in SUBSET T
      OBVIOUS
    <3>2. QED
      BY <3>1, TableLine
  <2>3. CASE U = {}
    BY <2>1, <2>2, <2>3
  <2>4. CASE U # {}
    <3>1. Pick(U) \in U
      BY <2>4, PickInSet
    <3>2. U \ {Pick(U)} \in I
      BY <1>1, <3>1
    <3>3. QED
      BY <2>1, <2>2, <2>4, <3>2
  <2>5. QED
    BY <2>3, <2>4
<1>2. SUBSET T \subseteq I
  <2> HIDE DEF I
  <2>1. QED
    BY <1>1, SubsetInduction
<1>3. QED
  BY <1>2

\* Every finite set has its table.
LEMMA TableExists ==
  ASSUME NEW f, NEW S, IsFiniteSet(S)
  PROVE  \E h : IsTable(f, S, h)
<1> DEFINE Table(U) == CHOOSE k : IsTable(f, U, k)
           I == {T \in SUBSET S : \E h : IsTable(f, T, h)}
<1>1. ASSUME NEW T \in SUBSET S, \A U \in SUBSET T : U # T => U \in I
      PROVE  T \in I
  <2> DEFINE h == [s \in SUBSET T |-> IF s = {} THEN 0
                      ELSE f[Pick(s)] + Table(s \ {Pick(s)})[s \ {Pick(s)}]]
  <2>1. ASSUME NEW U \in SUBSET T, U # T
        PROVE  IsTable(f, U, Table(U))
    BY <1>1, <2>1
  <2>2. ASSUME NEW U \in SUBSET T, U # T
        PROVE  h[U] = Table(U)[U]
    <3>1. Table(U)[U] = IF U = {} THEN 0 ELSE f[Pick(U)] + Table(U)[U \ {Pick(U)}]
      <4> HIDE DEF Table
      <4>1. IsTable(f, U, Table(U))
        BY <2>1, <2>2
      <4>2. QED
        BY <4>1, TableLine
    <3>2. CASE U = {}
      BY <3>1, <3>2
    <3>3. CASE U # {}
      <4> DEFINE W == U \ {Pick(U)}
      <4>1. W \in SUBSET U /\ W # U /\ W # T /\ W \in SUBSET T
        BY <3>3, PickInSet
      <4>2. IsTable(f, W, Table(W)) /\ IsTable(f, U, Table(U))
        BY <2>1, <2>2, <4>1
      <4>3. IsFiniteSet(W)
        BY <4>1, FS_Subset
      <4>4. Table(U)[W] = Table(W)[W]
        <5> HIDE DEF Table, W
        <5>1. QED
          BY <4>1, <4>2, <4>3, TablesAgree
      <4>5. h[U] = f[Pick(U)] + Table(W)[W]
        BY <3>3
      <4>6. QED
        BY <3>1, <3>3, <4>4, <4>5
    <3>4. QED
      BY <3>2, <3>3
  <2>3. ASSUME NEW s \in SUBSET T, s # {}
        PROVE  h[s] = f[Pick(s)] + h[s \ {Pick(s)}]
    <3>1. Pick(s) \in s
      BY <2>3, PickInSet
    <3>2. s \ {Pick(s)} \in SUBSET T /\ s \ {Pick(s)} # T
      BY <3>1
    <3>3. h[s \ {Pick(s)}] = Table(s \ {Pick(s)})[s \ {Pick(s)}]
      BY <2>2, <3>2
    <3>4. QED
      BY <2>3, <3>3
  <2>4. IsTable(f, T, h)
    <3> DEFINE g == [s \in SUBSET T |-> IF s = {} THEN 0 ELSE f[Pick(s)] + h[s \ {Pick(s)}]]
    <3>1. \A s \in SUBSET T : h[s] = g[s]
      BY <2>3
    <3>2. h = g
      BY <3>1
    <3>3. QED
      BY <3>2 DEF IsTable
  <2>5. QED
    BY <2>4
<1>2. SUBSET S \subseteq I
  <2> HIDE DEF I
  <2>1. QED
    BY <1>1, SubsetInduction
<1>3. QED
  BY <1>2
-----------------------------------------------------------------------------
(* What the proofs of the ledgers cite.                                    *)

\* A sum is its first term and the sum of the others.
LEMMA SumLine ==
  ASSUME NEW f, NEW S, IsFiniteSet(S)
  PROVE  SumFunctionOnSet(f, S) =
           IF S = {} THEN 0
           ELSE f[Pick(S)] + SumFunctionOnSet(f, S \ {Pick(S)})
<1> DEFINE Table(U) == CHOOSE h : IsTable(f, U, h)
           W == S \ {Pick(S)}
<1>1. SumFunctionOnSet(f, S) = Table(S)[S] /\ SumFunctionOnSet(f, W) = Table(W)[W]
  BY SumDef
<1>2. IsFiniteSet(W) /\ W \in SUBSET S
  BY FS_Subset
<1>3. IsTable(f, S, Table(S)) /\ IsTable(f, W, Table(W))
  BY <1>2, TableExists
<1> HIDE DEF Table, W
<1>4. Table(S)[S] = IF S = {} THEN 0 ELSE f[Pick(S)] + Table(S)[W]
  BY <1>3, TableLine DEF W
<1>5. Table(S)[W] = Table(W)[W]
  BY <1>2, <1>3, TablesAgree
<1>6. QED
  BY <1>1, <1>4, <1>5 DEF W

\* The sum over no index.
LEMMA SumEmpty ==
  ASSUME NEW f
  PROVE  SumFunctionOnSet(f, {}) = 0
BY SumLine, FS_EmptySet

\* Sums of naturals are naturals, and any element may be taken first.
LEMMA SumRemove ==
  ASSUME NEW S, IsFiniteSet(S), NEW f, \A x \in S : f[x] \in Nat
  PROVE  /\ SumFunctionOnSet(f, S) \in Nat
         /\ \A x \in S : SumFunctionOnSet(f, S) = f[x] + SumFunctionOnSet(f, S \ {x})
<1> DEFINE Total(T) == SumFunctionOnSet(f, T)
           I == {T \in SUBSET S :
                   /\ Total(T) \in Nat
                   /\ \A x \in T : Total(T) = f[x] + Total(T \ {x})}
<1>1. ASSUME NEW T \in SUBSET S, \A U \in SUBSET T : U # T => U \in I
      PROVE  T \in I
  <2>1. IsFiniteSet(T)
    BY FS_Subset
  <2>2. CASE T = {}
    BY <2>2, SumEmpty
  <2>3. CASE T # {}
    <3> DEFINE p == Pick(T)
    <3>1. p \in T
      BY <2>3, PickInSet
    <3>2. Total(T) = f[p] + Total(T \ {p})
      BY <2>1, <2>3, SumLine
    <3>3. \A x \in T : T \ {x} \in I
      BY <1>1
    <3> HIDE DEF p
    <3>4. f[p] \in Nat /\ Total(T \ {p}) \in Nat
      BY <3>1, <3>3
    <3>5. Total(T) \in Nat
      BY <3>2, <3>4
    <3>6. ASSUME NEW x \in T, x # p
          PROVE  Total(T) = f[x] + Total(T \ {x})
      <4>1. T \ {p} \in I /\ T \ {x} \in I
        BY <3>1, <3>3
      <4>2. Total(T \ {p}) = f[x] + Total((T \ {p}) \ {x})
        BY <3>6, <4>1
      <4>3. Total(T \ {x}) = f[p] + Total((T \ {x}) \ {p})
        BY <3>1, <3>6, <4>1
      <4>4. (T \ {p}) \ {x} = (T \ {x}) \ {p}
        OBVIOUS
      <4>5. (T \ {x}) \ {p} \in I
        BY <1>1, <3>6
      <4>6. Total((T \ {x}) \ {p}) \in Nat /\ f[x] \in Nat
        BY <4>5, <3>6
      <4> HIDE DEF Total, I
      <4>7. QED
        BY <3>2, <3>4, <4>2, <4>3, <4>4, <4>6
    <3>7. QED
      BY <3>2, <3>5, <3>6
  <2>4. QED
    BY <2>2, <2>3
<1>2. SUBSET S \subseteq I
  <2> HIDE DEF I
  <2>1. QED
    BY <1>1, SubsetInduction
<1>3. QED
  BY <1>2

\* Sums of equal terms are equal.
LEMMA SumSame ==
  ASSUME NEW S, IsFiniteSet(S), NEW f, NEW g, \A x \in S : f[x] = g[x]
  PROVE  SumFunctionOnSet(f, S) = SumFunctionOnSet(g, S)
<1> DEFINE I == {T \in SUBSET S : SumFunctionOnSet(f, T) = SumFunctionOnSet(g, T)}
<1>1. ASSUME NEW T \in SUBSET S, \A U \in SUBSET T : U # T => U \in I
      PROVE  T \in I
  <2>1. IsFiniteSet(T)
    BY FS_Subset
  <2>2. CASE T = {}
    BY <2>2, SumEmpty
  <2>3. CASE T # {}
    <3>1. Pick(T) \in T
      BY <2>3, PickInSet
    <3>2. T \ {Pick(T)} \in I /\ f[Pick(T)] = g[Pick(T)]
      BY <1>1, <3>1
    <3>3. QED
      BY <2>1, <2>3, <3>2, SumLine
  <2>4. QED
    BY <2>2, <2>3
<1>2. SUBSET S \subseteq I
  <2> HIDE DEF I
  <2>1. QED
    BY <1>1, SubsetInduction
<1>3. QED
  BY <1>2

\* An element's change is the sum's change.
LEMMA SumUpdate ==
  ASSUME NEW S, IsFiniteSet(S), NEW f, NEW g, NEW x \in S,
         \A y \in S : f[y] \in Nat /\ g[y] \in Nat,
         \A y \in S \ {x} : f[y] = g[y]
  PROVE  SumFunctionOnSet(g, S) + f[x] = SumFunctionOnSet(f, S) + g[x]
<1>1. IsFiniteSet(S \ {x})
  BY FS_Subset
<1>2. /\ SumFunctionOnSet(f, S) = f[x] + SumFunctionOnSet(f, S \ {x})
      /\ SumFunctionOnSet(g, S) = g[x] + SumFunctionOnSet(g, S \ {x})
  BY SumRemove
<1>3. SumFunctionOnSet(f, S \ {x}) = SumFunctionOnSet(g, S \ {x})
  BY <1>1, SumSame
<1>4. SumFunctionOnSet(f, S \ {x}) \in Nat
  BY <1>1, SumRemove
<1>5. QED
  BY <1>2, <1>3, <1>4

\* Adding an index.
LEMMA SumAdd ==
  ASSUME NEW S, IsFiniteSet(S), NEW f, NEW x, x \notin S,
         \A y \in S \cup {x} : f[y] \in Nat
  PROVE  SumFunctionOnSet(f, S \cup {x}) = f[x] + SumFunctionOnSet(f, S)
<1>1. IsFiniteSet(S \cup {x})
  BY FS_AddElement
<1>2. (S \cup {x}) \ {x} = S
  OBVIOUS
<1>3. QED
  BY <1>1, <1>2, SumRemove

\* Terms of zero sum to zero.
LEMMA SumZero ==
  ASSUME NEW S, IsFiniteSet(S), NEW f, \A x \in S : f[x] = 0
  PROVE  SumFunctionOnSet(f, S) = 0
<1> DEFINE I == {T \in SUBSET S : SumFunctionOnSet(f, T) = 0}
<1>1. ASSUME NEW T \in SUBSET S, \A U \in SUBSET T : U # T => U \in I
      PROVE  T \in I
  <2>1. IsFiniteSet(T)
    BY FS_Subset
  <2>2. CASE T = {}
    BY <2>2, SumEmpty
  <2>3. CASE T # {}
    <3>1. Pick(T) \in T
      BY <2>3, PickInSet
    <3>2. T \ {Pick(T)} \in I /\ f[Pick(T)] = 0
      BY <1>1, <3>1
    <3>3. QED
      BY <2>1, <2>3, <3>2, SumLine
  <2>4. QED
    BY <2>2, <2>3
<1>2. SUBSET S \subseteq I
  <2> HIDE DEF I
  <2>1. QED
    BY <1>1, SubsetInduction
<1>3. QED
  BY <1>2
-----------------------------------------------------------------------------
(* Induction along a list, in the same form: I is the set of the indices   *)
(* for which the fact holds.                                               *)

LEMMA IndexInduction ==
  ASSUME NEW n \in Nat, NEW I, 0 \in I, \A i \in 0 .. n - 1 : i \in I => i + 1 \in I
  PROVE  0 .. n \subseteq I
<1> DEFINE S == 0 .. n
           Done == {T \in SUBSET S : \A m \in S : T = 0 .. m => m \in I}
<1>1. ASSUME NEW T \in SUBSET S, \A U \in SUBSET T : U # T => U \in Done
      PROVE  T \in Done
  <2> SUFFICES ASSUME NEW m \in 0 .. n, T = 0 .. m PROVE m \in I
    OBVIOUS
  <2>1. CASE m = 0
    BY <2>1
  <2>2. CASE m # 0
    <3>1. m - 1 \in 0 .. n - 1 /\ m - 1 \in 0 .. n /\ (m - 1) + 1 = m
      BY <2>2
    <3>2. 0 .. m - 1 \in SUBSET T /\ m \in T /\ m \notin 0 .. m - 1
      BY <2>2
    <3>3. 0 .. m - 1 \in Done
      <4> HIDE DEF Done
      <4>1. 0 .. m - 1 # T
        BY <3>2
      <4>2. QED
        BY <1>1, <3>2, <4>1
    <3>4. m - 1 \in I
      BY <3>1, <3>3
    <3>5. QED
      BY <3>1, <3>4
  <2>3. QED
    BY <2>1, <2>2
<1>2. SUBSET S \subseteq Done
  <2>1. IsFiniteSet(S)
    BY FS_Interval
  <2> HIDE DEF Done, S
  <2>2. QED
    BY <1>1, <2>1, SubsetInduction
<1>3. ASSUME NEW m \in 0 .. n PROVE m \in I
  <2>1. 0 .. m \in SUBSET S
    OBVIOUS
  <2>2. QED
    BY <1>2, <2>1
<1>4. QED
  BY <1>3
=============================================================================
