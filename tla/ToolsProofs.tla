---------------------------- MODULE ToolsProofs ----------------------------
(***************************************************************************)
(* The tools around the ledger keep their promises for any number of       *)
(* clients, attempts and messages, any files and shells and any limits:    *)
(* the API's rate limits, its mode, the scripts that run and wait for the  *)
(* stack, the off-ramp, the preflight, the Wormhole client and the         *)
(* builders' calls.                                                        *)
(***************************************************************************)
EXTENDS ApiAccess, Deployment, DevStack, MoveCalls, OffRamp, Preflight,
        VaaClient, SumLemmas, SequenceTheorems, TLAPS

-----------------------------------------------------------------------------
(* The API's limits.  The last Window ticks fall into the bucket that is   *)
(* open, which began Window - left ticks ago, and what is left of the one  *)
(* before it; when no bucket is open all of them are of the last one.      *)

Fresh(l) == IF l = 0 THEN {} ELSE 0 .. Window - l
Past(l) == Ticks \ Fresh(l)

Terms == [Ticks -> 0 .. AboveLimits]

\* n requests are counted with l ticks to go; a are those of each tick, m those
\* let through.
BucketOK(n, l, a, m) ==
  /\ l > 0 => n > 0 /\ SumFunctionOnSet(a, Fresh(l)) >= n
  /\ \A k \in Kinds :
       /\ SumFunctionOnSet(m[k], Fresh(l)) <= n
       /\ SumFunctionOnSet(m[k], Fresh(l)) <= Limit(k)
       /\ SumFunctionOnSet(m[k], Past(l)) <= Limit(k)
       /\ l = 0 => m[k][0] = 0

AccessInv ==
  /\ AccessTypeOK
  /\ \A c \in Clients : BucketOK(count[c], left[c], asked[c], admitted[c])
  /\ RefusedIsOverLimit

LEMMA AccessConstants ==
  /\ ReadLimit \in Nat /\ WriteLimit \in Nat /\ ReadLimit > 0 /\ WriteLimit > 0
  /\ Window \in Nat /\ Window > 0
  /\ AboveLimits \in Nat /\ AboveLimits > ReadLimit /\ AboveLimits > WriteLimit
<1>1. ReadLimit \in Nat \ {0} /\ WriteLimit \in Nat \ {0} /\ Window \in Nat \ {0}
  BY AccessAssumption
<1>2. QED
  BY <1>1 DEF AboveLimits

LEMMA LimitsAreNumbers ==
  \A k \in Kinds : Limit(k) \in Nat /\ Limit(k) > 0 /\ Limit(k) < AboveLimits
  BY AccessConstants DEF Limit

LEMMA TicksAreFinite ==
  /\ IsFiniteSet(Ticks) /\ 0 \in Ticks /\ Ticks \subseteq Nat
  /\ \A T \in SUBSET Ticks : IsFiniteSet(T)
<1>1. IsFiniteSet(Ticks)
  BY AccessConstants, FS_Interval DEF Ticks
<1>2. 0 \in Ticks /\ Ticks \subseteq Nat
  BY AccessConstants DEF Ticks
<1>3. \A T \in SUBSET Ticks : IsFiniteSet(T)
  BY <1>1, FS_Subset
<1>4. QED
  BY <1>1, <1>2, <1>3

-----------------------------------------------------------------------------
(* Sums over ticks.                                                        *)

LEMMA TermsAreNumbers ==
  ASSUME NEW f \in Terms, NEW T \in SUBSET Ticks
  PROVE  /\ \A t \in T : f[t] \in Nat
         /\ SumFunctionOnSet(f, T) \in Nat
<1>1. \A t \in T : f[t] \in Nat
  BY AccessConstants DEF Terms
<1>2. QED
  BY <1>1, TicksAreFinite, SumRemove

\* A sum falls into two.
LEMMA SumSplit ==
  ASSUME NEW S, IsFiniteSet(S), NEW f, \A x \in S : f[x] \in Nat, NEW T \in SUBSET S
  PROVE  SumFunctionOnSet(f, S) = SumFunctionOnSet(f, T) + SumFunctionOnSet(f, S \ T)
<1> DEFINE I == {U \in SUBSET S :
                   SumFunctionOnSet(f, S) = SumFunctionOnSet(f, U) + SumFunctionOnSet(f, S \ U)}
<1>0. \A U \in SUBSET S : SumFunctionOnSet(f, U) \in Nat
  BY SumRemove, FS_Subset
<1>1. ASSUME NEW U \in SUBSET S, \A W \in SUBSET U : W # U => W \in I
      PROVE  U \in I
  <2>1. CASE U = {}
    <3>1. S \ U = S
      BY <2>1
    <3>2. QED
      BY <1>0, <2>1, <3>1, SumEmpty
  <2>2. CASE U # {}
    <3>1. PICK x \in U : TRUE
      BY <2>2
    <3> DEFINE W == U \ {x}
    <3>2. W \in SUBSET U /\ W # U /\ W \in SUBSET S /\ x \notin W /\ U = W \cup {x}
      BY <3>1
    <3>3. W \in I
      BY <1>1, <3>2
    <3>4. (S \ W) \ {x} = S \ U /\ x \in S \ W /\ S \ W \in SUBSET S
      BY <3>1
    <3> HIDE DEF W
    <3>5. IsFiniteSet(S \ W) /\ IsFiniteSet(U)
      BY <3>4, FS_Subset
    <3>6. SumFunctionOnSet(f, S \ W) = f[x] + SumFunctionOnSet(f, S \ U)
      <4>1. SumFunctionOnSet(f, S \ W) = f[x] + SumFunctionOnSet(f, (S \ W) \ {x})
        BY <3>4, <3>5, SumRemove
      <4>2. QED
        BY <3>4, <4>1
    <3>7. SumFunctionOnSet(f, U) = f[x] + SumFunctionOnSet(f, W)
      <4>1. SumFunctionOnSet(f, U) = f[x] + SumFunctionOnSet(f, U \ {x})
        BY <3>1, <3>5, SumRemove
      <4>2. QED
        BY <4>1 DEF W
    <3>8. U \ {x} = W /\ f[x] \in Nat
      BY <3>1 DEF W
    <3>9. SumFunctionOnSet(f, S) = SumFunctionOnSet(f, W) + SumFunctionOnSet(f, S \ W)
      BY <3>3
    <3>10. /\ SumFunctionOnSet(f, W) \in Nat /\ SumFunctionOnSet(f, S \ U) \in Nat
           /\ SumFunctionOnSet(f, U) \in Nat
      BY <1>0, <3>2
    <3>11. SumFunctionOnSet(f, S) = SumFunctionOnSet(f, U) + SumFunctionOnSet(f, S \ U)
      BY <3>6, <3>7, <3>8, <3>9, <3>10
    <3>12. QED
      BY <3>11
  <2>3. QED
    BY <2>1, <2>2
<1>2. SUBSET S \subseteq I
  <2> HIDE DEF I
  <2>1. QED
    BY <1>1, SubsetInduction
<1>3. QED
  BY <1>2

\* The ticks after those of T.
After(T) == {t \in Ticks : t > 0 /\ t - 1 \in T}

\* A tick further on the sum is the same, but for what has fallen out.
LEMMA SumLater ==
  ASSUME NEW f \in Terms
  PROVE  \A T \in SUBSET Ticks :
           /\ SumFunctionOnSet(Later(f), After(T)) <= SumFunctionOnSet(f, T)
           /\ Window - 1 \notin T =>
                SumFunctionOnSet(Later(f), After(T)) = SumFunctionOnSet(f, T)
<1> DEFINE Moved(T) == SumFunctionOnSet(Later(f), After(T))
           Still(T) == SumFunctionOnSet(f, T)
           I == {T \in SUBSET Ticks : /\ Moved(T) <= Still(T)
                                      /\ Window - 1 \notin T => Moved(T) = Still(T)}
<1>1. Later(f) \in Terms /\ \A t \in Ticks : t > 0 => Later(f)[t] = f[t - 1]
  <2>1. \A t \in Ticks : t > 0 => t - 1 \in Ticks
    BY AccessConstants DEF Ticks
  <2>2. 0 \in 0 .. AboveLimits
    BY AccessConstants
  <2>3. \A t \in Ticks : (IF t = 0 THEN 0 ELSE f[t - 1]) \in 0 .. AboveLimits
    BY <2>1, <2>2, TicksAreFinite DEF Terms
  <2>4. QED
    BY <2>3 DEF Later, Terms
<1>2. \A T \in SUBSET Ticks : After(T) \in SUBSET Ticks
  BY DEF After
<1>3. \A T \in SUBSET Ticks : Moved(T) \in Nat /\ Still(T) \in Nat
  BY <1>1, <1>2, TermsAreNumbers
<1>4. ASSUME NEW T \in SUBSET Ticks, \A U \in SUBSET T : U # T => U \in I
      PROVE  T \in I
  <2>1. CASE T = {}
    <3>1. After(T) = {}
      BY <2>1 DEF After
    <3>2. Moved(T) = 0 /\ Still(T) = 0
      BY <2>1, <3>1, SumEmpty
    <3>3. QED
      BY <3>2
  <2>2. CASE T # {}
    <3>1. PICK x \in T : TRUE
      BY <2>2
    <3> DEFINE U == T \ {x}
    <3>2. U \in SUBSET T /\ U # T /\ U \in SUBSET Ticks /\ x \in Ticks
      BY <3>1
    <3>3. U \in I
      BY <1>4, <3>2
    <3>4. Still(T) = f[x] + Still(U) /\ f[x] \in Nat
      <4>1. IsFiniteSet(T) /\ \A t \in T : f[t] \in Nat
        BY TicksAreFinite, TermsAreNumbers
      <4>2. QED
        BY <3>1, <4>1, SumRemove
    <3>5. Moved(U) <= Still(U) /\ (Window - 1 \notin U => Moved(U) = Still(U))
      BY <3>3
    <3>6. Moved(T) \in Nat /\ Still(T) \in Nat /\ Moved(U) \in Nat /\ Still(U) \in Nat
      BY <1>3, <3>2
    <3>7. CASE x = Window - 1
      <4>1. After(T) = After(U)
        BY <3>2, <3>7, AccessConstants DEF After, Ticks
      <4>2. Moved(T) = Moved(U)
        BY <4>1
      <4> HIDE DEF Moved, Still, U
      <4>3. Moved(T) <= Still(T)
        BY <3>4, <3>5, <3>6, <4>2
      <4>4. QED
        BY <3>1, <3>7, <4>3 DEF Moved, Still
    <3>8. CASE x # Window - 1
      <4>1. x + 1 \in Ticks /\ x + 1 > 0 /\ x \in Nat
        BY <3>2, <3>8, AccessConstants DEF Ticks
      <4>2. After(T) = After(U) \cup {x + 1} /\ x + 1 \notin After(U)
        BY <3>1, <4>1, TicksAreFinite DEF After
      <4>3. Later(f)[x + 1] = f[x]
        BY <1>1, <4>1
      <4>4. After(U) \cup {x + 1} \in SUBSET Ticks /\ After(U) \in SUBSET Ticks
        BY <1>2, <3>2, <4>1
      <4>5. IsFiniteSet(After(U)) /\ \A t \in After(U) \cup {x + 1} : Later(f)[t] \in Nat
        BY <1>1, <4>4, TicksAreFinite, TermsAreNumbers
      <4>6. SumFunctionOnSet(Later(f), After(U) \cup {x + 1})
              = Later(f)[x + 1] + SumFunctionOnSet(Later(f), After(U))
        <5> DEFINE B == After(U)
                   y == x + 1
                   g == Later(f)
        <5>1. IsFiniteSet(B) /\ y \notin B /\ \A t \in B \cup {y} : g[t] \in Nat
          BY <4>2, <4>5
        <5> HIDE DEF B, y, g
        <5>2. SumFunctionOnSet(g, B \cup {y}) = g[y] + SumFunctionOnSet(g, B)
          BY <5>1, SumAdd
        <5>3. QED
          BY <5>2 DEF B, y, g
      <4>7. Moved(T) = f[x] + Moved(U)
        BY <4>2, <4>3, <4>6
      <4>8. Window - 1 \notin T => Window - 1 \notin U
        OBVIOUS
      <4> HIDE DEF Moved, Still, U
      <4>9. Moved(T) <= Still(T) /\ (Window - 1 \notin T => Moved(T) = Still(T))
        BY <3>4, <3>5, <3>6, <4>7, <4>8
      <4>10. QED
        BY <4>9
    <3>9. QED
      BY <3>7, <3>8
  <2>3. QED
    BY <2>1, <2>2
<1>5. SUBSET Ticks \subseteq I
  <2> HIDE DEF I
  <2>1. QED
    BY <1>4, TicksAreFinite, SubsetInduction
<1>6. QED
  BY <1>5

LEMMA LaterIsTerms ==
  ASSUME NEW f \in Terms
  PROVE  Later(f) \in Terms /\ Later(f)[0] = 0
<1>1. \A t \in Ticks : t > 0 => t - 1 \in Ticks
  BY AccessConstants DEF Ticks
<1>2. 0 \in 0 .. AboveLimits
  BY AccessConstants
<1>3. \A t \in Ticks : (IF t = 0 THEN 0 ELSE f[t - 1]) \in 0 .. AboveLimits
  BY <1>1, <1>2, TicksAreFinite DEF Terms
<1>4. QED
  BY <1>3, TicksAreFinite DEF Later, Terms

\* A tick further on, with the new tick itself.
LEMMA SumLaterWithNew ==
  ASSUME NEW f \in Terms, NEW T \in SUBSET Ticks
  PROVE  /\ SumFunctionOnSet(Later(f), {0} \cup After(T)) = SumFunctionOnSet(Later(f), After(T))
         /\ {0} \cup After(T) \in SUBSET Ticks
<1> DEFINE g == Later(f)
           B == After(T)
<1>1. g \in Terms /\ g[0] = 0
  BY LaterIsTerms
<1>2. B \in SUBSET Ticks /\ 0 \notin B /\ B \cup {0} \in SUBSET Ticks /\ B \cup {0} = {0} \cup B
  BY TicksAreFinite DEF After
<1> HIDE DEF g, B
<1>3. IsFiniteSet(B) /\ (\A t \in B \cup {0} : g[t] \in Nat) /\ SumFunctionOnSet(g, B) \in Nat
  BY <1>1, <1>2, TicksAreFinite, TermsAreNumbers
<1>4. SumFunctionOnSet(g, B \cup {0}) = g[0] + SumFunctionOnSet(g, B)
  BY <1>2, <1>3, SumAdd
<1>5. SumFunctionOnSet(g, {0} \cup B) = SumFunctionOnSet(g, B)
  <2>1. SumFunctionOnSet(g, {0} \cup B) = SumFunctionOnSet(g, B \cup {0})
    BY <1>2
  <2>2. QED
    BY <1>1, <1>3, <1>4, <2>1
<1>6. QED
  BY <1>2, <1>5 DEF g, B

\* Of two that differ now only.
LEMMA SumsDiffer ==
  ASSUME NEW f \in Terms, NEW g \in Terms, NEW T \in SUBSET Ticks, NEW z \in T,
         \A t \in T \ {z} : f[t] = g[t]
  PROVE  SumFunctionOnSet(g, T) + f[z] = SumFunctionOnSet(f, T) + g[z]
<1>1. IsFiniteSet(T) /\ \A t \in T : f[t] \in Nat /\ g[t] \in Nat
  BY TicksAreFinite, TermsAreNumbers
<1>2. QED
  BY <1>1, SumUpdate

\* One more request in this tick.
LEMMA SumBumped ==
  ASSUME NEW f \in Terms, NEW g, g = [f EXCEPT ![0] = Capped(f[0] + 1)]
  PROVE  /\ g \in Terms /\ g[0] = Capped(f[0] + 1)
         /\ \A T \in SUBSET Ticks :
              /\ 0 \in T => /\ SumFunctionOnSet(g, T) <= SumFunctionOnSet(f, T) + 1
                            /\ \/ SumFunctionOnSet(g, T) = SumFunctionOnSet(f, T) + 1
                               \/ SumFunctionOnSet(g, T) >= AboveLimits
              /\ 0 \notin T => SumFunctionOnSet(g, T) = SumFunctionOnSet(f, T)
<1>1. f[0] \in Nat /\ f[0] <= AboveLimits /\ AboveLimits \in Nat
  BY TicksAreFinite, AccessConstants DEF Terms
<1>2. /\ Capped(f[0] + 1) \in 0 .. AboveLimits
      /\ Capped(f[0] + 1) = f[0] + 1 \/ (Capped(f[0] + 1) = AboveLimits /\ f[0] = AboveLimits)
  BY <1>1 DEF Capped
<1>3. g \in Terms /\ g[0] = Capped(f[0] + 1) /\ \A t \in Ticks : t # 0 => g[t] = f[t]
  BY <1>2, TicksAreFinite DEF Terms
<1>4. ASSUME NEW T \in SUBSET Ticks, 0 \in T
      PROVE  /\ SumFunctionOnSet(g, T) <= SumFunctionOnSet(f, T) + 1
             /\ \/ SumFunctionOnSet(g, T) = SumFunctionOnSet(f, T) + 1
                \/ SumFunctionOnSet(g, T) >= AboveLimits
  <2>1. IsFiniteSet(T) /\ \A t \in T : f[t] \in Nat /\ g[t] \in Nat
    BY <1>3, TicksAreFinite, TermsAreNumbers
  <2>2. \A t \in T \ {0} : f[t] = g[t]
    BY <1>3
  <2>3. SumFunctionOnSet(g, T) + f[0] = SumFunctionOnSet(f, T) + g[0]
    <3>1. ASSUME NEW z \in T, \A t \in T \ {z} : f[t] = g[t]
          PROVE  SumFunctionOnSet(g, T) + f[z] = SumFunctionOnSet(f, T) + g[z]
      BY <1>3, <3>1, SumsDiffer
    <3>2. QED
      BY <1>4, <2>2, <3>1
  <2>4. SumFunctionOnSet(f, T) \in Nat /\ SumFunctionOnSet(g, T) \in Nat
    BY <1>3, TermsAreNumbers
  <2>5. SumFunctionOnSet(g, T) = g[0] + SumFunctionOnSet(g, T \ {0})
    BY <1>4, <2>1, SumRemove
  <2>6. SumFunctionOnSet(g, T \ {0}) \in Nat
    BY <1>3, TermsAreNumbers
  <2>7. g[0] \in Nat /\ (g[0] = f[0] + 1 \/ (g[0] = AboveLimits /\ f[0] = AboveLimits))
    BY <1>1, <1>2, <1>3
  <2>8. QED
    BY <1>1, <2>3, <2>4, <2>5, <2>6, <2>7
<1>5. ASSUME NEW T \in SUBSET Ticks, 0 \notin T
      PROVE  SumFunctionOnSet(g, T) = SumFunctionOnSet(f, T)
  <2>1. IsFiniteSet(T) /\ \A t \in T : g[t] = f[t]
    BY <1>3, <1>5, TicksAreFinite
  <2>2. QED
    BY <2>1, SumSame
<1>6. QED
  BY <1>3, <1>4, <1>5

-----------------------------------------------------------------------------
(* The ticks of the bucket.                                                *)

LEMMA FreshTicks ==
  ASSUME NEW l \in 0 .. Window
  PROVE  /\ Fresh(l) \in SUBSET Ticks /\ Past(l) \in SUBSET Ticks
         /\ l = 0 => Fresh(l) = {} /\ Past(l) = Ticks
         /\ l > 0 => 0 \in Fresh(l) /\ 0 \notin Past(l)
         /\ l = Window => Fresh(l) = {0}
<1>1. l \in Nat /\ l <= Window /\ Window \in Nat /\ Window > 0
  BY AccessConstants
<1>2. CASE l = 0
  BY <1>1, <1>2 DEF Fresh, Past
<1>3. CASE l > 0
  <2>1. Fresh(l) = 0 .. Window - l
    BY <1>3 DEF Fresh
  <2>2. QED
    BY <1>1, <1>3, <2>1 DEF Past, Ticks
<1>4. QED
  BY <1>1, <1>2, <1>3

LEMMA FreshTicksLater ==
  ASSUME NEW l \in 1 .. Window
  PROVE  /\ l > 1 => /\ Fresh(l - 1) = {0} \cup After(Fresh(l))
                     /\ Past(l - 1) = After(Past(l))
                     /\ Window - 1 \notin Fresh(l)
         /\ l = 1 => Ticks = {0} \cup After(Fresh(l))
<1>1. l \in Nat /\ l >= 1 /\ l <= Window /\ Window \in Nat
  BY AccessConstants
<1>2. Fresh(l) = 0 .. Window - l
  BY <1>1 DEF Fresh
<1>3. ASSUME l > 1
      PROVE  /\ Fresh(l - 1) = {0} \cup After(Fresh(l)) /\ Past(l - 1) = After(Past(l))
             /\ Window - 1 \notin Fresh(l)
  <2>1. Fresh(l - 1) = 0 .. Window - (l - 1)
    BY <1>1, <1>3 DEF Fresh
  <2>2. Fresh(l - 1) = {0} \cup After(Fresh(l))
    BY <1>1, <1>2, <1>3, <2>1 DEF After, Ticks
  <2>3. Past(l - 1) = After(Past(l))
    BY <1>1, <1>2, <1>3, <2>1 DEF After, Past, Ticks
  <2>4. QED
    BY <1>1, <1>2, <1>3, <2>2, <2>3
<1>4. l = 1 => Ticks = {0} \cup After(Fresh(l))
  BY <1>1, <1>2 DEF After, Ticks
<1>5. QED
  BY <1>3, <1>4

-----------------------------------------------------------------------------
(* A bucket through a request and through a tick.                          *)

\* One that is let through.
LEMMA AdmittedKeepsBucket ==
  ASSUME NEW n \in 0 .. AboveLimits, NEW l \in 0 .. Window, NEW k \in Kinds, NEW f \in Terms,
         SumFunctionOnSet(f, Fresh(l)) <= n, SumFunctionOnSet(f, Fresh(l)) <= Limit(k),
         SumFunctionOnSet(f, Past(l)) <= Limit(k), l = 0 => f[0] = 0,
         NEW g, NEW bumped \in BOOLEAN,
         g = IF bumped THEN [f EXCEPT ![0] = Capped(f[0] + 1)] ELSE f,
         NEW n2, n2 = IF l = 0 THEN 1 ELSE Capped(n + 1),
         NEW l2, l2 = IF l = 0 THEN Window ELSE l,
         bumped => n2 <= Limit(k)
  PROVE  /\ g \in Terms
         /\ SumFunctionOnSet(g, Fresh(l2)) <= n2
         /\ SumFunctionOnSet(g, Fresh(l2)) <= Limit(k)
         /\ SumFunctionOnSet(g, Past(l2)) <= Limit(k)
         /\ l2 # 0
<1>1. /\ l2 \in 0 .. Window /\ l2 > 0 /\ Limit(k) \in Nat /\ Limit(k) > 0 /\ Limit(k) < AboveLimits
      /\ n \in Nat /\ AboveLimits \in Nat
  BY AccessConstants, LimitsAreNumbers
<1>2. /\ Fresh(l2) \in SUBSET Ticks /\ Past(l2) \in SUBSET Ticks /\ 0 \in Fresh(l2) /\ 0 \notin Past(l2)
      /\ Fresh(l) \in SUBSET Ticks /\ Past(l) \in SUBSET Ticks
  BY <1>1, FreshTicks
<1>3. /\ n2 \in Nat /\ n2 >= 1 /\ (l # 0 => n2 >= n)
      /\ n2 <= Limit(k) /\ l # 0 => n2 = n + 1
  BY <1>1 DEF Capped
<1>4. /\ SumFunctionOnSet(f, Fresh(l2)) \in Nat /\ SumFunctionOnSet(f, Past(l2)) \in Nat
  BY <1>2, TermsAreNumbers
<1>5. /\ SumFunctionOnSet(f, Fresh(l2)) <= (IF l = 0 THEN 0 ELSE n)
      /\ SumFunctionOnSet(f, Fresh(l2)) <= Limit(k)
      /\ SumFunctionOnSet(f, Past(l2)) <= Limit(k)
  <2>1. CASE l = 0
    <3>1. Fresh(l2) = {0} /\ Past(l2) = Ticks \ {0} /\ Past(l) = Ticks
      BY <1>1, <2>1, FreshTicks DEF Past
    <3>2. IsFiniteSet(Ticks) /\ 0 \in Ticks /\ \A t \in Ticks : f[t] \in Nat
      BY TicksAreFinite, TermsAreNumbers
    <3>3. SumFunctionOnSet(f, Ticks) = f[0] + SumFunctionOnSet(f, Ticks \ {0})
      BY <3>2, SumRemove
    <3>4. SumFunctionOnSet(f, {0}) = 0
      <4>1. IsFiniteSet({0}) /\ \A x \in {0} : f[x] = 0
        BY <2>1, TicksAreFinite
      <4>2. QED
        BY <4>1, SumZero
    <3>5. f[0] = 0 /\ SumFunctionOnSet(f, Ticks) <= Limit(k)
      BY <2>1, <3>1
    <3>6. SumFunctionOnSet(f, Past(l2)) = SumFunctionOnSet(f, Ticks \ {0})
      BY <3>1
    <3>7. SumFunctionOnSet(f, Past(l2)) <= Limit(k)
      BY <1>1, <1>4, <3>3, <3>5, <3>6
    <3>8. SumFunctionOnSet(f, Fresh(l2)) = 0
      BY <3>1, <3>4
    <3>9. QED
      BY <1>1, <2>1, <3>7, <3>8
  <2>2. CASE l # 0
    BY <2>2
  <2>3. QED
    BY <2>1, <2>2
<1>6. CASE bumped
  <2>1. g = [f EXCEPT ![0] = Capped(f[0] + 1)]
    BY <1>6
  <2>2. /\ g \in Terms
        /\ SumFunctionOnSet(g, Fresh(l2)) <= SumFunctionOnSet(f, Fresh(l2)) + 1
        /\ SumFunctionOnSet(g, Past(l2)) = SumFunctionOnSet(f, Past(l2))
    <3>1. g \in Terms
          /\ \A T \in SUBSET Ticks :
               /\ 0 \in T => SumFunctionOnSet(g, T) <= SumFunctionOnSet(f, T) + 1
               /\ 0 \notin T => SumFunctionOnSet(g, T) = SumFunctionOnSet(f, T)
      BY <2>1, SumBumped
    <3>2. QED
      BY <1>2, <3>1
  <2>3. SumFunctionOnSet(g, Fresh(l2)) \in Nat
    BY <1>2, <2>2, TermsAreNumbers
  <2>4. (l = 0 => n2 = 1) /\ (l # 0 => n2 = n + 1) /\ n2 <= Limit(k)
    BY <1>3, <1>6
  <2>5. SumFunctionOnSet(g, Fresh(l2)) <= n2
    BY <1>1, <1>4, <1>5, <2>2, <2>3, <2>4
  <2>6. QED
    BY <1>1, <1>3, <1>5, <2>2, <2>3, <2>4, <2>5
<1>7. CASE ~bumped
  BY <1>1, <1>3, <1>4, <1>5, <1>7
<1>8. QED
  BY <1>6, <1>7

LEMMA TickKeepsBucket ==
  ASSUME NEW n \in 0 .. AboveLimits, NEW l \in 0 .. Window, NEW a \in Terms,
         NEW m, \A k \in Kinds : m[k] \in Terms, BucketOK(n, l, a, m),
         NEW b, b = Later(a), NEW w, \A k \in Kinds : w[k] = Later(m[k]),
         NEW l2, l2 = IF l = 0 THEN 0 ELSE l - 1
  PROVE  BucketOK(n, l2, b, w)
<1>1. /\ l2 \in 0 .. Window /\ n \in Nat /\ l \in Nat /\ (l = 0 => l2 = 0) /\ (l = 1 => l2 = 0)
      /\ l > 1 => l2 = l - 1 /\ l2 > 0
  BY AccessConstants
<1>2. ASSUME NEW k \in Kinds
      PROVE  /\ SumFunctionOnSet(w[k], Fresh(l2)) <= n
             /\ SumFunctionOnSet(w[k], Fresh(l2)) <= Limit(k)
             /\ SumFunctionOnSet(w[k], Past(l2)) <= Limit(k)
             /\ w[k][0] = 0
  <2> DEFINE f == m[k]
             g == w[k]
  <2>1. f \in Terms /\ g = Later(f) /\ g \in Terms /\ g[0] = 0
    BY <1>2, LaterIsTerms
  <2>2. /\ SumFunctionOnSet(f, Fresh(l)) <= n /\ SumFunctionOnSet(f, Fresh(l)) <= Limit(k)
        /\ SumFunctionOnSet(f, Past(l)) <= Limit(k) /\ Limit(k) \in Nat
    BY LimitsAreNumbers DEF BucketOK
  <2> HIDE DEF f, g
  <2>3. Fresh(l) \in SUBSET Ticks /\ Past(l) \in SUBSET Ticks
    BY FreshTicks
  <2>4. \A T \in SUBSET Ticks :
          /\ SumFunctionOnSet(f, T) \in Nat /\ SumFunctionOnSet(g, T) \in Nat
          /\ SumFunctionOnSet(g, After(T)) <= SumFunctionOnSet(f, T)
          /\ SumFunctionOnSet(g, {0} \cup After(T)) = SumFunctionOnSet(g, After(T))
    BY <2>1, TermsAreNumbers, SumLater, SumLaterWithNew
  <2>5. \A T \in SUBSET Ticks : SumFunctionOnSet(g, After(T)) \in Nat
    BY <2>4 DEF After
  <2>6. SumFunctionOnSet(g, {}) = 0
    BY SumEmpty
  <2>7. CASE l = 0
    <3>1. Fresh(l2) = {} /\ Past(l2) = Ticks /\ Past(l) = Ticks
      BY <1>1, <2>7, FreshTicks
    <3>2. Ticks = {0} \cup After(Ticks)
      BY AccessConstants DEF After, Ticks
    <3>3. SumFunctionOnSet(g, Ticks) <= SumFunctionOnSet(f, Ticks)
      BY <2>4, <3>2
    <3>4. Ticks \in SUBSET Ticks
      OBVIOUS
    <3>5. SumFunctionOnSet(g, Ticks) \in Nat /\ SumFunctionOnSet(f, Ticks) \in Nat
      BY <2>4, <3>4
    <3>6. SumFunctionOnSet(g, Ticks) <= Limit(k)
      BY <2>2, <3>1, <3>3, <3>5
    <3>7. /\ SumFunctionOnSet(g, Fresh(l2)) = 0
          /\ SumFunctionOnSet(g, Past(l2)) = SumFunctionOnSet(g, Ticks)
      BY <2>6, <3>1
    <3>8. QED
      BY <1>1, <2>1, <2>2, <3>6, <3>7 DEF g
  <2>8. CASE l = 1
    <3>1. Fresh(l2) = {} /\ Past(l2) = Ticks
      BY <1>1, <2>8, FreshTicks
    <3>2. l \in 1 .. Window
      BY <2>8, AccessConstants
    <3>3. Ticks = {0} \cup After(Fresh(l))
      BY <2>8, <3>2, FreshTicksLater
    <3>4. SumFunctionOnSet(g, Ticks) <= SumFunctionOnSet(f, Fresh(l))
      BY <2>3, <2>4, <3>3
    <3>5. Ticks \in SUBSET Ticks
      OBVIOUS
    <3>6. SumFunctionOnSet(g, Ticks) \in Nat /\ SumFunctionOnSet(f, Fresh(l)) \in Nat
      BY <2>3, <2>4, <3>5
    <3>7. SumFunctionOnSet(g, Ticks) <= Limit(k)
      BY <2>2, <3>4, <3>6
    <3>8. /\ SumFunctionOnSet(g, Fresh(l2)) = 0
          /\ SumFunctionOnSet(g, Past(l2)) = SumFunctionOnSet(g, Ticks)
      BY <2>6, <3>1
    <3>9. QED
      BY <1>1, <2>1, <2>2, <3>7, <3>8 DEF g
  <2>9. CASE l > 1
    <3>1. l \in 1 .. Window /\ l2 = l - 1
      BY <1>1, <2>9
    <3>2. Fresh(l2) = {0} \cup After(Fresh(l)) /\ Past(l2) = After(Past(l))
      BY <2>9, <3>1, FreshTicksLater
    <3>3. SumFunctionOnSet(g, Fresh(l2)) <= SumFunctionOnSet(f, Fresh(l))
      BY <2>3, <2>4, <3>2
    <3>4. SumFunctionOnSet(g, Past(l2)) <= SumFunctionOnSet(f, Past(l))
      BY <2>3, <2>4, <3>2
    <3>5. /\ SumFunctionOnSet(g, Fresh(l2)) \in Nat /\ SumFunctionOnSet(g, Past(l2)) \in Nat
          /\ SumFunctionOnSet(f, Fresh(l)) \in Nat /\ SumFunctionOnSet(f, Past(l)) \in Nat
      BY <1>1, <2>3, <2>4, FreshTicks
    <3>6. QED
      BY <1>1, <2>1, <2>2, <3>3, <3>4, <3>5 DEF g
  <2>10. QED
    BY <1>1, <2>7, <2>8, <2>9
<1>3. ASSUME l2 > 0 PROVE n > 0 /\ SumFunctionOnSet(b, Fresh(l2)) >= n
  <2>1. l \in 1 .. Window /\ l > 1 /\ l2 = l - 1
    BY <1>1, <1>3
  <2>2. Fresh(l2) = {0} \cup After(Fresh(l)) /\ Window - 1 \notin Fresh(l)
    BY <2>1, FreshTicksLater
  <2>3. Fresh(l) \in SUBSET Ticks
    BY FreshTicks
  <2>4. SumFunctionOnSet(b, {0} \cup After(Fresh(l))) = SumFunctionOnSet(b, After(Fresh(l)))
    BY <2>3, SumLaterWithNew
  <2>5. SumFunctionOnSet(b, After(Fresh(l))) = SumFunctionOnSet(a, Fresh(l))
    BY <2>2, <2>3, SumLater
  <2>6. n > 0 /\ SumFunctionOnSet(a, Fresh(l)) >= n
    BY <2>1 DEF BucketOK
  <2>7. QED
    BY <2>2, <2>4, <2>5, <2>6
<1>4. QED
  BY <1>2, <1>3 DEF BucketOK

-----------------------------------------------------------------------------

LEMMA AccessTypes ==
  AccessTypeOK <=>
    /\ keySet \in BOOLEAN /\ publicRead \in BOOLEAN
    /\ count \in [Clients -> 0 .. AboveLimits]
    /\ left \in [Clients -> 0 .. Window]
    /\ last \in {Quiet} \cup [client : Clients, kind : Kinds \cup {"preflight"}, answer : Answers]
    /\ asked \in [Clients -> Terms]
    /\ admitted \in [Clients -> [Kinds -> Terms]]
    /\ \A c \in Clients : left[c] > 0 => count[c] > 0
<1>1. {keySet, publicRead} \subseteq BOOLEAN <=> keySet \in BOOLEAN /\ publicRead \in BOOLEAN
  OBVIOUS
<1>2. QED
  BY <1>1, Zenon DEF AccessTypeOK, Terms

\* What a process of the API starts with.
EmptyBuckets ==
  /\ count = [c \in Clients |-> 0]
  /\ left = [c \in Clients |-> 0]
  /\ last = Quiet
  /\ asked = [c \in Clients |-> [t \in Ticks |-> 0]]
  /\ admitted = [c \in Clients |-> [k \in Kinds |-> [t \in Ticks |-> 0]]]

SettingsOK == keySet \in BOOLEAN /\ publicRead \in BOOLEAN

LEMMA EmptyBucketsAreOK == SettingsOK /\ EmptyBuckets => AccessInv
<1> SUFFICES ASSUME keySet \in BOOLEAN, publicRead \in BOOLEAN, EmptyBuckets PROVE AccessInv
  BY DEF SettingsOK
<1> DEFINE nothing == [t \in Ticks |-> 0]
<1>1. nothing \in Terms /\ nothing[0] = 0 /\ \A t \in Ticks : nothing[t] = 0
  BY AccessConstants, TicksAreFinite DEF Terms
<1>2. /\ count = [c \in Clients |-> 0] /\ left = [c \in Clients |-> 0] /\ last = Quiet
      /\ asked = [c \in Clients |-> nothing]
      /\ admitted = [c \in Clients |-> [k \in Kinds |-> nothing]]
      /\ keySet \in BOOLEAN /\ publicRead \in BOOLEAN
  BY DEF EmptyBuckets
<1> HIDE DEF nothing
<1>3. AccessTypeOK
  <2>1. 0 \in 0 .. AboveLimits /\ 0 \in 0 .. Window
    BY AccessConstants
  <2>2. QED
    BY <1>1, <1>2, <2>1, AccessTypes
<1>4. ASSUME NEW c \in Clients PROVE BucketOK(count[c], left[c], asked[c], admitted[c])
  <2>1. \A T \in SUBSET Ticks : SumFunctionOnSet(nothing, T) = 0
    BY <1>1, TicksAreFinite, SumZero
  <2>2. Fresh(0) = {} /\ Past(0) = Ticks
    BY AccessConstants, FreshTicks
  <2>3. SumFunctionOnSet(nothing, Fresh(0)) = 0 /\ SumFunctionOnSet(nothing, Past(0)) = 0
    BY <2>1, <2>2
  <2>4. count[c] = 0 /\ left[c] = 0 /\ asked[c] = nothing /\ \A k \in Kinds : admitted[c][k] = nothing
    BY <1>2
  <2>5. QED
    BY <1>1, <2>3, <2>4, LimitsAreNumbers DEF BucketOK
<1>5. RefusedIsOverLimit
  BY <1>2 DEF RefusedIsOverLimit
<1>6. QED
  BY <1>3, <1>4, <1>5 DEF AccessInv

LEMMA AccessInvStarts == AccessInit => AccessInv
BY EmptyBucketsAreOK DEF AccessInit, EmptyBuckets, SettingsOK

LEMMA RequestKeepsAccessInv ==
  ASSUME AccessInv, NEW c \in Clients, NEW kind \in Kinds, NEW route \in Routes,
         NEW withKey \in BOOLEAN, Request(c, kind, route, withKey)
  PROVE  AccessInv'
<1> DEFINE n == count[c]
           l == left[c]
           n2 == Count(c)
           l2 == Left(c)
           a == asked[c]
           b == [a EXCEPT ![0] = Capped(a[0] + 1)]
           m == admitted[c]
           through == ~(n2 > Limit(kind))
           w == [k \in Kinds |-> IF through /\ k = kind THEN [m[k] EXCEPT ![0] = Capped(m[k][0] + 1)]
                                                        ELSE m[k]]
<1>1. /\ count \in [Clients -> 0 .. AboveLimits] /\ left \in [Clients -> 0 .. Window]
      /\ asked \in [Clients -> Terms] /\ admitted \in [Clients -> [Kinds -> Terms]]
      /\ keySet \in BOOLEAN /\ publicRead \in BOOLEAN
      /\ \A d \in Clients : left[d] > 0 => count[d] > 0
  BY AccessTypes DEF AccessInv
<1>3. /\ n2 = IF l = 0 THEN 1 ELSE Capped(n + 1)
      /\ l2 = IF l = 0 THEN Window ELSE l
  BY DEF Count, Left
<1>4. /\ n \in 0 .. AboveLimits /\ l \in 0 .. Window /\ a \in Terms /\ m \in [Kinds -> Terms]
      /\ BucketOK(n, l, a, m)
  BY <1>1 DEF AccessInv
<1>5. /\ count' = [count EXCEPT ![c] = n2] /\ left' = [left EXCEPT ![c] = l2]
      /\ last' = [client |-> c, kind |-> kind, answer |-> Answer(c, kind, route, withKey)]
      /\ asked' = [asked EXCEPT ![c] = b]
      /\ UNCHANGED <<keySet, publicRead>>
  <2>1. asked' = [asked EXCEPT ![c][0] = Capped(@ + 1)]
    BY DEF Request
  <2>2. QED
    BY <1>1, <2>1 DEF Request, accessSettings
<1>6. admitted' = [admitted EXCEPT ![c] = w]
  <2>1. admitted' = IF n2 > Limit(kind) THEN admitted
                    ELSE [admitted EXCEPT ![c][kind][0] = Capped(@ + 1)]
    BY DEF Request
  <2>2. CASE n2 > Limit(kind)
    <3>1. w = m
      BY <1>4, <2>2
    <3> HIDE DEF w, n2
    <3>2. admitted' = admitted
      BY <2>1, <2>2
    <3>3. QED
      BY <1>1, <3>1, <3>2
  <2>3. CASE ~(n2 > Limit(kind))
    <3>1. w = [m EXCEPT ![kind] = [m[kind] EXCEPT ![0] = Capped(m[kind][0] + 1)]]
      BY <1>4, <2>3
    <3>2. admitted' = [admitted EXCEPT ![c][kind][0] = Capped(@ + 1)]
      BY <2>1, <2>3
    <3> HIDE DEF w, n2
    <3>3. QED
      BY <1>1, <3>1, <3>2
  <2>4. QED
    BY <2>2, <2>3
<1> HIDE DEF n, l, n2, l2, a, b, m, through, w
<1>7. /\ b \in Terms /\ n2 \in 0 .. AboveLimits /\ l2 \in 0 .. Window /\ n2 > 0
      /\ SumFunctionOnSet(b, Fresh(l2)) >= n2
  <2>1. l > 0 => n > 0 /\ SumFunctionOnSet(a, Fresh(l)) >= n
    BY <1>4 DEF BucketOK
  <2>2. b = [a EXCEPT ![0] = Capped(a[0] + 1)]
    BY DEF b
  <2>3. /\ l2 \in 0 .. Window /\ l2 > 0 /\ n \in Nat /\ n <= AboveLimits
        /\ AboveLimits \in Nat /\ AboveLimits >= 1
    BY <1>3, <1>4, AccessConstants
  <2>4. Fresh(l2) \in SUBSET Ticks /\ 0 \in Fresh(l2)
    BY <2>3, FreshTicks
  <2>5. n2 \in Nat /\ n2 >= 1 /\ n2 <= AboveLimits /\ (l # 0 => n2 <= n + 1) /\ (l = 0 => n2 = 1)
    BY <1>3, <2>3 DEF Capped
  <2>6. b \in Terms
        /\ \/ SumFunctionOnSet(b, Fresh(l2)) = SumFunctionOnSet(a, Fresh(l2)) + 1
           \/ SumFunctionOnSet(b, Fresh(l2)) >= AboveLimits
    BY <1>4, <2>2, <2>4, SumBumped
  <2>7. SumFunctionOnSet(a, Fresh(l2)) \in Nat /\ SumFunctionOnSet(b, Fresh(l2)) \in Nat
    BY <1>4, <2>4, <2>6, TermsAreNumbers
  <2>8. l # 0 => l > 0 /\ l2 = l
    BY <1>3, <1>4
  <2>9. SumFunctionOnSet(b, Fresh(l2)) >= n2
    BY <2>1, <2>3, <2>5, <2>6, <2>7, <2>8
  <2>10. QED
    BY <2>3, <2>5, <2>6, <2>9
<1>8. ASSUME NEW k \in Kinds
      PROVE  /\ w[k] \in Terms
             /\ SumFunctionOnSet(w[k], Fresh(l2)) <= n2
             /\ SumFunctionOnSet(w[k], Fresh(l2)) <= Limit(k)
             /\ SumFunctionOnSet(w[k], Past(l2)) <= Limit(k)
             /\ l2 # 0
  <2> DEFINE f == m[k]
             g == w[k]
             bumped == through /\ k = kind
  <2>1. g = IF bumped THEN [f EXCEPT ![0] = Capped(f[0] + 1)] ELSE f
    BY DEF w
  <2>2. /\ SumFunctionOnSet(f, Fresh(l)) <= n /\ SumFunctionOnSet(f, Fresh(l)) <= Limit(k)
        /\ SumFunctionOnSet(f, Past(l)) <= Limit(k) /\ (l = 0 => f[0] = 0) /\ f \in Terms
    BY <1>4 DEF BucketOK
  <2>3. bumped \in BOOLEAN
    BY DEF through
  <2>4. bumped => n2 <= Limit(k)
    BY <1>7, LimitsAreNumbers, AccessConstants DEF through
  <2> HIDE DEF f, g, bumped
  <2>5. /\ g \in Terms /\ SumFunctionOnSet(g, Fresh(l2)) <= n2
        /\ SumFunctionOnSet(g, Fresh(l2)) <= Limit(k)
        /\ SumFunctionOnSet(g, Past(l2)) <= Limit(k) /\ l2 # 0
    BY <1>3, <1>4, <2>1, <2>2, <2>3, <2>4, AdmittedKeepsBucket
  <2>6. QED
    BY <2>5 DEF g
<1>9. BucketOK(n2, l2, b, w)
  BY <1>7, <1>8 DEF BucketOK
<1>10. w \in [Kinds -> Terms]
  <2>1. \A k \in Kinds : w[k] \in Terms
    BY <1>8
  <2>2. w = [k \in Kinds |-> w[k]]
    BY DEF w
  <2>3. QED
    BY <2>1, <2>2
<1>11. \A d \in Clients : BucketOK(count[d], left[d], asked[d], admitted[d])'
  <2>1. ASSUME NEW d \in Clients, d # c PROVE BucketOK(count[d], left[d], asked[d], admitted[d])'
    <3>1. count'[d] = count[d] /\ left'[d] = left[d] /\ asked'[d] = asked[d] /\ admitted'[d] = admitted[d]
      BY <1>1, <1>5, <1>6, <2>1
    <3>2. BucketOK(count[d], left[d], asked[d], admitted[d])
      BY DEF AccessInv
    <3>3. QED
      BY <3>1, <3>2 DEF BucketOK
  <2>2. BucketOK(count[c], left[c], asked[c], admitted[c])'
    <3>1. count'[c] = n2 /\ left'[c] = l2 /\ asked'[c] = b /\ admitted'[c] = w
      BY <1>1, <1>5, <1>6
    <3>2. QED
      BY <1>9, <3>1 DEF BucketOK
  <2>3. QED
    BY <2>1, <2>2
<1>12. Answer(c, kind, route, withKey) \in Answers
       /\ (Answer(c, kind, route, withKey) = "rate_limit_exceeded" => n2 > Limit(kind))
  BY DEF Answer, Answers, Routed, n2
<1>13. AccessTypeOK'
  <2>1. last' \in [client : Clients, kind : Kinds \cup {"preflight"}, answer : Answers]
    BY <1>5, <1>12
  <2>2. count' \in [Clients -> 0 .. AboveLimits] /\ left' \in [Clients -> 0 .. Window]
    BY <1>1, <1>5, <1>7
  <2>3. asked' \in [Clients -> Terms] /\ admitted' \in [Clients -> [Kinds -> Terms]]
    BY <1>1, <1>5, <1>6, <1>7, <1>10
  <2>4. \A d \in Clients : left'[d] > 0 => count'[d] > 0
    BY <1>1, <1>5, <1>7
  <2>5. QED
    <3>1. keySet' \in BOOLEAN /\ publicRead' \in BOOLEAN /\ {keySet', publicRead'} \subseteq BOOLEAN
      BY <1>1, <1>5
    <3>2. QED
      BY <2>1, <2>2, <2>3, <2>4, <3>1 DEF AccessTypeOK, Terms
<1>14. RefusedIsOverLimit'
  <2>1. SUFFICES ASSUME last'.answer = "rate_limit_exceeded"
                 PROVE  Total(asked[last.client])' > Limit(last.kind)'
    BY DEF RefusedIsOverLimit
  <2>2. last'.client = c /\ last'.kind = kind /\ n2 > Limit(kind)
    BY <1>5, <1>12, <2>1
  <2>3. asked'[c] = b
    BY <1>1, <1>5
  <2>4. Fresh(l2) \in SUBSET Ticks /\ Ticks \in SUBSET Ticks
    BY <1>7, FreshTicks
  <2>5. \A t \in Ticks : b[t] \in Nat
    BY <1>7, TermsAreNumbers
  <2>6. SumFunctionOnSet(b, Ticks) = SumFunctionOnSet(b, Fresh(l2)) + SumFunctionOnSet(b, Past(l2))
    BY <2>4, <2>5, TicksAreFinite, SumSplit DEF Past
  <2>7. /\ SumFunctionOnSet(b, Fresh(l2)) \in Nat /\ SumFunctionOnSet(b, Past(l2)) \in Nat
    BY <1>7, <2>4, TermsAreNumbers, FreshTicks
  <2>8. SumFunctionOnSet(b, Ticks) > Limit(kind)
    BY <1>7, <2>2, <2>6, <2>7, AccessConstants, LimitsAreNumbers
  <2>9. QED
    BY <2>2, <2>3, <2>8 DEF Total, Limit
<1>15. QED
  BY <1>11, <1>13, <1>14 DEF AccessInv

LEMMA AccessInvSteps == AccessInv /\ [AccessNext]_accessVars => AccessInv'
<1> SUFFICES ASSUME AccessInv, [AccessNext]_accessVars PROVE AccessInv'
  OBVIOUS
<1>1. /\ count \in [Clients -> 0 .. AboveLimits] /\ left \in [Clients -> 0 .. Window]
      /\ asked \in [Clients -> Terms] /\ admitted \in [Clients -> [Kinds -> Terms]]
      /\ keySet \in BOOLEAN /\ publicRead \in BOOLEAN
      /\ last \in {Quiet} \cup [client : Clients, kind : Kinds \cup {"preflight"}, answer : Answers]
      /\ \A d \in Clients : left[d] > 0 => count[d] > 0
  BY AccessTypes DEF AccessInv
<1>2. CASE UNCHANGED accessVars
  <2>1. UNCHANGED <<keySet, publicRead, count, left, last, asked, admitted>>
    BY <1>2 DEF accessVars, accessSettings
  <2>2. AccessTypeOK'
    BY <2>1 DEF AccessInv, AccessTypeOK
  <2>3. QED
    BY <2>1, <2>2 DEF AccessInv, BucketOK, RefusedIsOverLimit, Total
<1>3. CASE AccessTick
  <2>1. /\ left' = [c \in Clients |-> IF left[c] = 0 THEN 0 ELSE left[c] - 1]
        /\ asked' = [c \in Clients |-> Later(asked[c])]
        /\ admitted' = [c \in Clients |-> [k \in Kinds |-> Later(admitted[c][k])]]
        /\ last' = Quiet /\ UNCHANGED <<keySet, publicRead, count>>
    BY <1>3 DEF AccessTick, accessSettings
  <2>2. ASSUME NEW c \in Clients
        PROVE  BucketOK(count[c], left[c], asked[c], admitted[c])'
    <3> DEFINE n == count[c]
               l == left[c]
               a == asked[c]
               m == admitted[c]
               b == asked'[c]
               w == admitted'[c]
               l2 == left'[c]
    <3>1. /\ n \in 0 .. AboveLimits /\ l \in 0 .. Window /\ a \in Terms
          /\ (\A k \in Kinds : m[k] \in Terms) /\ BucketOK(n, l, a, m)
      BY <1>1 DEF AccessInv
    <3>2. b = Later(a) /\ (\A k \in Kinds : w[k] = Later(m[k])) /\ l2 = IF l = 0 THEN 0 ELSE l - 1
      BY <2>1
    <3> HIDE DEF n, l, a, m, b, w, l2
    <3>3. BucketOK(n, l2, b, w)
      BY <3>1, <3>2, TickKeepsBucket
    <3>4. n = count'[c]
      BY <2>1 DEF n
    <3>5. QED
      BY <3>3, <3>4 DEF BucketOK, b, w, l2
  <2>3. AccessTypeOK'
    <3>1. asked' \in [Clients -> Terms] /\ admitted' \in [Clients -> [Kinds -> Terms]]
      BY <1>1, <2>1, LaterIsTerms
    <3>2. ASSUME NEW c \in Clients
          PROVE  left'[c] \in 0 .. Window /\ (left'[c] > 0 => count'[c] > 0)
      <4>1. left[c] \in 0 .. Window /\ left'[c] = IF left[c] = 0 THEN 0 ELSE left[c] - 1
        BY <1>1, <2>1
      <4>2. left'[c] \in 0 .. Window /\ (left'[c] > 0 => left[c] > 0)
        BY <4>1, AccessConstants
      <4>3. QED
        BY <1>1, <2>1, <4>2
    <3>3. left' \in [Clients -> 0 .. Window]
      BY <2>1, <3>2
    <3>4. QED
      <4>1. keySet' \in BOOLEAN /\ publicRead' \in BOOLEAN /\ {keySet', publicRead'} \subseteq BOOLEAN
        BY <1>1, <2>1
      <4>2. QED
        BY <1>1, <2>1, <3>1, <3>2, <3>3, <4>1 DEF AccessTypeOK, Terms
  <2>4. RefusedIsOverLimit'
    BY <2>1 DEF RefusedIsOverLimit
  <2>5. QED
    BY <2>2, <2>3, <2>4 DEF AccessInv
<1>4. ASSUME NEW c \in Clients, Preflight(c) PROVE AccessInv'
  <2>1. /\ last' = [client |-> c, kind |-> "preflight", answer |-> "no_content"]
        /\ UNCHANGED <<keySet, publicRead, count, left, asked, admitted>>
    BY <1>4 DEF Preflight, accessSettings
  <2>2. last' \in [client : Clients, kind : Kinds \cup {"preflight"}, answer : Answers]
    BY <2>1 DEF Answers
  <2>3. AccessTypeOK'
    BY <1>1, <2>1, <2>2 DEF AccessInv, AccessTypeOK
  <2>4. RefusedIsOverLimit'
    BY <2>1 DEF RefusedIsOverLimit
  <2>5. QED
    BY <2>1, <2>3, <2>4 DEF AccessInv, BucketOK
<1>5. CASE RestartAccess
  <2>1. EmptyBuckets' /\ SettingsOK'
    BY <1>1, <1>5 DEF RestartAccess, EmptyBuckets, SettingsOK, accessSettings
  <2>2. SettingsOK' /\ EmptyBuckets' => AccessInv'
    BY EmptyBucketsAreOK, PTL
  <2>3. QED
    BY <2>1, <2>2
<1>6. QED
  BY <1>2, <1>3, <1>4, <1>5, RequestKeepsAccessInv DEF AccessNext

\* At whatever times clients ask, in whatever mix of reads and writes, and whenever
\* the process is restarted, a process lets at most two limits of each kind through
\* in any Window of ticks, and refuses only a client that asked it for more than the
\* limit (checkRateLimit).
THEOREM LimitsHold == AccessSpec => []AccessSafe
<1>1. AccessInv => AccessSafe
  <2> SUFFICES ASSUME AccessInv PROVE AccessSafe
    OBVIOUS
  <2>1. ASSUME NEW c \in Clients, NEW k \in Kinds
        PROVE  Total(admitted[c][k]) <= 2 * Limit(k)
    <3> DEFINE f == admitted[c][k]
               l == left[c]
    <3>1. f \in Terms /\ l \in 0 .. Window
      BY AccessTypes DEF AccessInv
    <3>2. SumFunctionOnSet(f, Fresh(l)) <= Limit(k) /\ SumFunctionOnSet(f, Past(l)) <= Limit(k)
      BY DEF AccessInv, BucketOK
    <3> HIDE DEF f, l
    <3>3. Fresh(l) \in SUBSET Ticks /\ Past(l) \in SUBSET Ticks /\ Ticks \in SUBSET Ticks
      BY <3>1, FreshTicks
    <3>4. \A t \in Ticks : f[t] \in Nat
      BY <3>1, TermsAreNumbers
    <3>5. SumFunctionOnSet(f, Ticks) = SumFunctionOnSet(f, Fresh(l)) + SumFunctionOnSet(f, Past(l))
      BY <3>3, <3>4, TicksAreFinite, SumSplit DEF Past
    <3>6. SumFunctionOnSet(f, Fresh(l)) \in Nat /\ SumFunctionOnSet(f, Past(l)) \in Nat
      BY <3>1, <3>3, TermsAreNumbers
    <3>7. SumFunctionOnSet(f, Ticks) <= 2 * Limit(k)
      BY <3>2, <3>5, <3>6, LimitsAreNumbers
    <3>8. QED
      BY <3>7 DEF f, Total
  <2>2. SlidingLimits
    BY <2>1 DEF SlidingLimits, Limit, Kinds
  <2>3. QED
    BY <2>2 DEF AccessInv, AccessSafe
<1>2. QED
  BY <1>1, AccessInvStarts, AccessInvSteps, PTL DEF AccessSpec

-----------------------------------------------------------------------------
(* Deployment.  Whatever report says "ready" has looked at the ids that    *)
(* are probed; a service keeps its environment, and with it its mode, from *)
(* start to start.                                                         *)

SaysReady(reports) == reports \cap {"gates", "readiness"} # {}

ReadyIsPublished(reports, e) ==
  SaysReady(reports) => hasPublishedDeployment(e) /\ (network = "testnet" => Constructs(e))

ServiceInv ==
  /\ DeploymentTypeOK
  /\ ReadyIsPublished(passed, settings)
  /\ ReadyIsPublished(told, env)
  /\ "stub" \in answers => useStub(env) /\ Plans
  /\ answers # {} /\ answers # {"stub"} => ~useStub(env) \/ ~Plans
  /\ api = "failed" => ~Constructs(env)
  /\ redeems > 0 => redeems = 1 /\ BatchOf(env) \in spent

LEMMA ReportsArePublished ==
  ASSUME NEW e, NEW withRpc, GatesReady(e, withRpc) \/ ReadinessPasses(e, withRpc)
  PROVE  hasPublishedDeployment(e) /\ (network = "testnet" => Constructs(e))
<1>1. Probed \subseteq PublishKeys
  BY DeploymentAssumption
<1>2. \A v : Trimmed(v) => IsSet(v)
  BY DEF Trimmed, IsSet
<1>3. CASE GatesReady(e, withRpc)
  <2>1. CASE network = "testnet"
    BY <1>1, <1>2, <1>3, <2>1 DEF GatesReady, GatePublished, hasPublishedDeployment, Constructs
  <2>2. CASE network # "testnet"
    BY <1>3, <2>2 DEF GatesReady, GatePublished
  <2>3. QED
    BY <2>1, <2>2
<1>4. CASE ReadinessPasses(e, withRpc)
  <2>1. \A k \in EnvRequired : IsSet(e[k])
    BY <1>2, <1>4 DEF ReadinessPasses
  <2>2. Probed \subseteq EnvRequired
    BY <1>1 DEF EnvRequired, MainnetKeys
  <2>3. network = "testnet" => PublishKeys \subseteq EnvRequired
    BY DEF EnvRequired
  <2>4. QED
    BY <2>1, <2>2, <2>3 DEF hasPublishedDeployment, Constructs
<1>5. QED
  BY <1>3, <1>4

LEMMA ReportKinds ==
  ASSUME NEW e, NEW withRpc
  PROVE  /\ Reports(e, withRpc) \subseteq {"gates", "readiness", "verified", "stub notice"}
         /\ SaysReady(Reports(e, withRpc)) => GatesReady(e, withRpc) \/ ReadinessPasses(e, withRpc)
  BY DEF Reports, SaysReady

LEMMA ServiceInvStarts == DeploymentInit => ServiceInv
<1> SUFFICES ASSUME DeploymentInit PROVE ServiceInv
  OBVIOUS
<1>1. \A k \in Keys : settings[k] = "unset" /\ env[k] = "unset"
  BY DEF DeploymentInit
<1>2. \A k \in Keys : "unset" \in ValuesOf(k)
  BY DEF ValuesOf, IdValues
<1>3. DeploymentTypeOK
  <2>1. \A k \in Keys : settings[k] \in ValuesOf(k) /\ env[k] \in ValuesOf(k)
    BY <1>1, <1>2
  <2>2. edits \in 0 .. MaxEdits
    BY DeploymentAssumption DEF DeploymentInit
  <2>3. QED
    BY <2>1, <2>2 DEF DeploymentInit, DeploymentTypeOK
<1>4. ~SaysReady(passed) /\ ~SaysReady(told)
  BY DEF DeploymentInit, SaysReady
<1>5. QED
  BY <1>3, <1>4 DEF DeploymentInit, ServiceInv, ReadyIsPublished

\* What an operator does leaves a running service alone.
LEMMA OperatorKeepsService ==
  ASSUME ServiceInv, UNCHANGED <<network, manifest, processVars, spent>>,
         DeploymentTypeOK', ReadyIsPublished(passed, settings)'
  PROVE  ServiceInv'
  BY DEF ServiceInv, ReadyIsPublished, SaysReady, Constructs, hasPublishedDeployment, useStub,
         Plans, BatchOf, processVars

\* And what the service does leaves the operator's settings alone.
LEMMA AnswersKeepService ==
  ASSUME ServiceInv, UNCHANGED <<network, manifest, operatorVars, api, env, told>>, api = "up",
         NEW a \in {"stub", "error", "multisig", "single key"}, answers' = answers \cup {a},
         a = "stub" <=> useStub(env) /\ Plans,
         redeems' \in Nat, spent' \subseteq Mints,
         redeems' > 0 => redeems' = 1 /\ BatchOf(env) \in spent'
  PROVE  ServiceInv'
<1>1. DeploymentTypeOK'
  BY DEF ServiceInv, DeploymentTypeOK, operatorVars, Constructs, hasPublishedDeployment
<1>2. ReadyIsPublished(passed, settings)' /\ ReadyIsPublished(told, env)'
  BY DEF ServiceInv, ReadyIsPublished, SaysReady, Constructs, hasPublishedDeployment, operatorVars
<1>3. /\ "stub" \in answers' => useStub(env) /\ Plans
      /\ answers' # {} /\ answers' # {"stub"} => ~useStub(env) \/ ~Plans
  BY DEF ServiceInv
<1>4. useStub(env)' = useStub(env) /\ Plans' = Plans /\ BatchOf(env)' = BatchOf(env)
  BY DEF useStub, Plans, BatchOf, hasPublishedDeployment
<1>5. QED
  BY <1>1, <1>2, <1>3, <1>4 DEF ServiceInv

LEMMA ServiceInvSteps == ServiceInv /\ [DeploymentNext]_deploymentVars => ServiceInv'
<1> SUFFICES ASSUME ServiceInv, [DeploymentNext]_deploymentVars PROVE ServiceInv'
  OBVIOUS
<1>0. DeploymentTypeOK /\ redeems \in Nat /\ spent \subseteq Mints
  BY DEF ServiceInv, DeploymentTypeOK
<1>1. CASE UNCHANGED deploymentVars
  <2>1. /\ UNCHANGED <<network, manifest, processVars, spent>> /\ UNCHANGED <<settings, edits, passed>>
    BY <1>1 DEF deploymentVars, operatorVars
  <2>2. DeploymentTypeOK'
    BY <1>0, <2>1 DEF DeploymentTypeOK, processVars, Constructs, hasPublishedDeployment
  <2>3. ReadyIsPublished(passed, settings)'
    BY <2>1 DEF ServiceInv, ReadyIsPublished, Constructs, hasPublishedDeployment
  <2>4. QED
    BY <2>1, <2>2, <2>3, OperatorKeepsService
<1>2. ASSUME NEW S \in EditSets, NEW v, Edit(S, v) PROVE ServiceInv'
  <2>1. /\ \A k \in S : v \in ValuesOf(k)
        /\ settings' = [k \in Keys |-> IF k \in S THEN v ELSE settings[k]]
        /\ edits < MaxEdits /\ edits' = edits + 1 /\ passed' = {}
        /\ UNCHANGED <<network, manifest, processVars, spent>>
    BY <1>2 DEF Edit
  <2>2. \A k \in Keys : settings'[k] \in ValuesOf(k)
    <3>1. ASSUME NEW k \in Keys PROVE settings'[k] \in ValuesOf(k)
      <4>1. settings'[k] = IF k \in S THEN v ELSE settings[k]
        BY <2>1
      <4>2. settings[k] \in ValuesOf(k)
        BY <1>0 DEF DeploymentTypeOK
      <4>3. QED
        BY <2>1, <4>1, <4>2
    <3>2. QED
      BY <3>1
  <2>3. edits' \in 0 .. MaxEdits
    <3>1. edits \in 0 .. MaxEdits /\ MaxEdits \in Nat
      BY <1>0, DeploymentAssumption DEF DeploymentTypeOK
    <3>2. QED
      BY <2>1, <3>1
  <2>4. DeploymentTypeOK'
    BY <1>0, <2>1, <2>2, <2>3 DEF DeploymentTypeOK, processVars, Constructs, hasPublishedDeployment
  <2>5. ReadyIsPublished(passed, settings)'
    BY <2>1 DEF ReadyIsPublished, SaysReady
  <2>6. QED
    BY <2>1, <2>4, <2>5, OperatorKeepsService
<1>3. ASSUME NEW withRpc \in BOOLEAN, Check(withRpc) PROVE ServiceInv'
  <2>1. passed' = passed \cup Reports(settings, withRpc)
        /\ UNCHANGED <<network, manifest, settings, edits, processVars, spent>>
    BY <1>3 DEF Check
  <2>2. DeploymentTypeOK'
    BY <1>0, <2>1, ReportKinds DEF DeploymentTypeOK, processVars, Constructs, hasPublishedDeployment
  <2>3. SaysReady(passed') => SaysReady(passed) \/ SaysReady(Reports(settings, withRpc))
    BY <2>1 DEF SaysReady
  <2>4. SaysReady(passed') =>
          hasPublishedDeployment(settings) /\ (network = "testnet" => Constructs(settings))
    BY <2>3, ReportKinds, ReportsArePublished DEF ServiceInv, ReadyIsPublished
  <2>5. ReadyIsPublished(passed, settings)'
    BY <2>1, <2>4 DEF ReadyIsPublished, SaysReady, Constructs, hasPublishedDeployment
  <2>6. QED
    BY <2>1, <2>2, <2>5, OperatorKeepsService
<1>4. ASSUME NEW withRpc \in BOOLEAN, ServeGates(withRpc) PROVE ServiceInv'
  <2>1. /\ told' = told \cup {"gates"} /\ GatesReady(env, withRpc)
        /\ UNCHANGED <<network, manifest, settings, edits, passed, api, env, answers, redeems, spent>>
    BY <1>4 DEF ServeGates, operatorVars
  <2>2. hasPublishedDeployment(env) /\ (network = "testnet" => Constructs(env))
    BY <2>1, ReportsArePublished
  <2>3. DeploymentTypeOK'
    BY <1>0, <2>1 DEF DeploymentTypeOK, Constructs, hasPublishedDeployment
  <2>4. ReadyIsPublished(told, env)'
    BY <2>1, <2>2 DEF ReadyIsPublished, Constructs, hasPublishedDeployment
  <2>5. QED
    BY <2>1, <2>3, <2>4
    DEF ServiceInv, ReadyIsPublished, SaysReady, Constructs, hasPublishedDeployment, useStub,
        Plans, BatchOf
<1>5. CASE Start
  <2>1. /\ api' = IF Constructs(settings) THEN "up" ELSE "failed"
        /\ env' = settings /\ told' = passed /\ answers' = {} /\ redeems' = 0
        /\ UNCHANGED <<network, manifest, settings, edits, passed, spent>>
    BY <1>5 DEF Start, operatorVars
  <2>2. Constructs(settings) <=> Constructs(env)'
    BY <2>1 DEF Constructs, hasPublishedDeployment
  <2>3. /\ api' = "up" => Constructs(env)'
        /\ api' = "failed" => ~Constructs(env)'
        /\ api' \in {"up", "failed"}
    BY <2>1, <2>2
  <2>4. DeploymentTypeOK'
    <3>1. \A k \in Keys : settings'[k] \in ValuesOf(k) /\ env'[k] \in ValuesOf(k)
      BY <1>0, <2>1 DEF DeploymentTypeOK
    <3>2. QED
      BY <1>0, <2>1, <2>3, <3>1 DEF DeploymentTypeOK
  <2>5. ReadyIsPublished(passed, settings)' /\ ReadyIsPublished(told, env)'
    BY <2>1 DEF ServiceInv, ReadyIsPublished, SaysReady, Constructs, hasPublishedDeployment
  <2>6. QED
    BY <2>1, <2>3, <2>4, <2>5 DEF ServiceInv
<1>6. CASE Stop
  <2>1. api' = "down"
        /\ UNCHANGED <<network, manifest, settings, edits, passed, env, told, answers, redeems, spent>>
    BY <1>6 DEF Stop, operatorVars
  <2>2. DeploymentTypeOK'
    BY <1>0, <2>1 DEF DeploymentTypeOK
  <2>3. QED
    BY <2>1, <2>2
    DEF ServiceInv, ReadyIsPublished, SaysReady, Constructs, hasPublishedDeployment, useStub,
        Plans, BatchOf
<1>7. CASE SubmitStub
  BY <1>0, <1>7, AnswersKeepService DEF SubmitStub, Answered, ServiceInv
<1>8. CASE SubmitFails
  BY <1>0, <1>8, AnswersKeepService DEF SubmitFails, Answered, ServiceInv
<1>9. CASE SubmitLive
  <2>1. /\ ~useStub(env) /\ DryRunPasses(env) /\ redeems' = redeems + 1
        /\ spent' = spent \cup {BatchOf(env)}
    BY <1>9 DEF SubmitLive
  <2>2. BatchOf(env) \in Mints /\ BatchOf(env) \notin spent
    BY <2>1 DEF DryRunPasses, OnChain
  <2>3. redeems = 0
    BY <1>0, <2>2 DEF ServiceInv
  <2>4. redeems' \in Nat /\ spent' \subseteq Mints /\ redeems' = 1 /\ BatchOf(env) \in spent'
    BY <1>0, <2>1, <2>2, <2>3
  <2> DEFINE a == IF env["SUI_MULTISIG_PUBLIC_KEY"] = "unset" THEN "single key" ELSE "multisig"
  <2>5. Answered(a) /\ a \in {"multisig", "single key"} /\ a # "stub"
    BY <1>9 DEF SubmitLive
  <2> HIDE DEF a
  <2>6. api = "up" /\ answers' = answers \cup {a}
        /\ UNCHANGED <<network, manifest, operatorVars, api, env, told>>
    BY <2>5 DEF Answered
  <2>7. a \in {"stub", "error", "multisig", "single key"} /\ (a = "stub" <=> useStub(env) /\ Plans)
    BY <2>1, <2>5
  <2>8. redeems' > 0 => redeems' = 1 /\ BatchOf(env) \in spent'
    BY <2>4
  <2>9. QED
    BY <2>4, <2>6, <2>7, <2>8, AnswersKeepService
<1>10. ASSUME NEW S \in EditSets, \E v \in UNION {ValuesOf(k) : k \in S} : Edit(S, v)
       PROVE  ServiceInv'
  <2>1. PICK v : Edit(S, v)
    BY <1>10
  <2>2. QED
    BY <1>2,   <2>1
<1>11. QED
  BY <1>1, <1>3, <1>4, <1>5, <1>6, <1>7, <1>8, <1>9, <1>10 DEF DeploymentNext

\* Whatever an operator edits and checks, and whenever the service is started
\* and stopped, one that was reported ready never answers with a made-up
\* digest and on testnet starts, and one start has one mode and redeems one
\* batch at most
\* (gateChecklist, publishedIds, suiSettlementClient).
THEOREM ReadyIsLive == DeploymentSpec => []DeploymentSafe
<1>1. ServiceInv => DeploymentSafe
  <2> SUFFICES ASSUME ServiceInv PROVE DeploymentSafe
    OBVIOUS
  <2>1. redeems <= 1
    <3>1. redeems \in Nat /\ (redeems > 0 => redeems = 1)
      BY DEF ServiceInv, DeploymentTypeOK
    <3>2. QED
      BY <3>1
  <2>2. SaysReady(told) => ~useStub(env) /\ (network = "testnet" => Constructs(env))
    BY DEF ServiceInv, ReadyIsPublished, useStub
  <2>3. ReadyNeverFakes /\ TestnetReadyStarts
    BY <2>2 DEF ServiceInv, ReadyNeverFakes, TestnetReadyStarts, SaysReady
  <2>4. OneModePerStart
    BY DEF ServiceInv, OneModePerStart
  <2>5. QED
    BY <2>1, <2>3, <2>4 DEF ServiceInv, DeploymentSafe, OneRedemptionPerStart
<1>2. QED
  BY <1>1, ServiceInvStarts, ServiceInvSteps, PTL DEF DeploymentSpec

-----------------------------------------------------------------------------
(* The local stack.  A verification under way has a try left, and one that *)
(* is about to look at its result has the result of that try.              *)

StackInv ==
  /\ DevStackTypeOK
  /\ StopLeavesOnlyVite
  /\ WaitsUntilDeadline
  /\ verify # "idle" => triesLeft >= 1

ProcessStates == {"down", "child", "orphan"}

\* The part of the type invariant about processes, and the part about the script.
ProcessesOK ==
  /\ launcher \in {"none", "https", "http"}
  /\ apiProcess \in ProcessStates /\ wrapper \in ProcessStates /\ vite \in ProcessStates
  /\ launcher = "none" => apiProcess # "child" /\ wrapper # "child"
  /\ vite = "child" => wrapper # "down"
  /\ apiPort \in ApiPorts /\ apiKey \in ApiKeySet /\ fileKey \in ApiKeySet
  /\ termed \in BOOLEAN /\ killed \in BOOLEAN

ScriptOK ==
  /\ verify \in {"idle", "page", "health", "gates", "look"}
  /\ waiting \in BOOLEAN /\ base \in Bases /\ key \in ApiKeySet
  /\ triesLeft \in 0 .. MaxTries
  /\ result \in [ui : BOOLEAN, health : BOOLEAN, gates : BOOLEAN]
  /\ outcome \in {"none", "passed", "failed", "unreachable", "timed out"}

OrphansExplained ==
  /\ apiProcess = "orphan" \/ wrapper = "orphan" => killed
  /\ vite = "orphan" => killed \/ termed

LEMMA StackTypes == DevStackTypeOK <=> ProcessesOK /\ ScriptOK
<1>1. {apiProcess, wrapper, vite} \subseteq {"down", "child", "orphan"}
      <=> apiProcess \in ProcessStates /\ wrapper \in ProcessStates /\ vite \in ProcessStates
  BY DEF ProcessStates
<1>2. "child" \notin {apiProcess, wrapper} <=> apiProcess # "child" /\ wrapper # "child"
  OBVIOUS
<1>3. QED
  BY <1>1, <1>2, Zenon DEF DevStackTypeOK, ProcessesOK, ScriptOK

LEMMA StackOrphans == StopLeavesOnlyVite <=> OrphansExplained
<1>1. "orphan" \in {apiProcess, wrapper} <=> apiProcess = "orphan" \/ wrapper = "orphan"
  OBVIOUS
<1>2. QED
  BY <1>1, Zenon DEF StopLeavesOnlyVite, OrphansExplained

LEMMA StackConstants ==
  /\ MaxTries \in Nat /\ MaxTries >= 1
  /\ NoResult \in [ui : BOOLEAN, health : BOOLEAN, gates : BOOLEAN]
  /\ ~NoResult.ui
<1>1. MaxTries \in Nat /\ MaxTries >= 1
  BY DevStackAssumption
<1>2. NoResult \in [ui : BOOLEAN, health : BOOLEAN, gates : BOOLEAN] /\ ~NoResult.ui
  BY DEF NoResult
<1>3. QED
  BY <1>1, <1>2

LEMMA StackInvStarts == DevStackInit => StackInv
<1> SUFFICES ASSUME DevStackInit PROVE StackInv
  OBVIOUS
<1>1. ProcessesOK /\ OrphansExplained
  BY DEF DevStackInit, ProcessesOK, OrphansExplained, ProcessStates
<1>2. ScriptOK
  <2>1. triesLeft \in 0 .. MaxTries /\ result \in [ui : BOOLEAN, health : BOOLEAN, gates : BOOLEAN]
    BY StackConstants DEF DevStackInit
  <2>2. waiting \in BOOLEAN /\ base \in Bases /\ key \in ApiKeySet
    BY DEF DevStackInit
  <2>3. QED
    BY <2>1, <2>2 DEF DevStackInit, ScriptOK
<1>3. QED
  BY <1>1, <1>2, StackTypes, StackOrphans DEF DevStackInit, StackInv, WaitsUntilDeadline

\* What happens to the processes says nothing about the verification.
LEMMA StackKeepsVerify ==
  ASSUME StackInv, UNCHANGED verifyVars, ProcessesOK', OrphansExplained'
  PROVE  StackInv'
<1>1. ScriptOK'
  BY StackTypes DEF StackInv, ScriptOK, verifyVars
<1>2. DevStackTypeOK' /\ StopLeavesOnlyVite'
  BY <1>1, StackTypes, StackOrphans, PTL
<1>3. QED
  BY <1>2 DEF StackInv, WaitsUntilDeadline, verifyVars

LEMMA VerifyKeepsStack ==
  ASSUME StackInv, UNCHANGED stackVars, ScriptOK',
         WaitsUntilDeadline', verify' # "idle" => triesLeft' >= 1
  PROVE  StackInv'
<1>1. ProcessesOK' /\ OrphansExplained'
  BY StackTypes, StackOrphans DEF StackInv, ProcessesOK, OrphansExplained, stackVars
<1>2. DevStackTypeOK' /\ StopLeavesOnlyVite'
  BY <1>1, StackTypes, StackOrphans, PTL
<1>3. QED
  BY <1>2 DEF StackInv

LEMMA StackInvSteps == StackInv /\ [DevStackNext]_devVars => StackInv'
<1> SUFFICES ASSUME StackInv, [DevStackNext]_devVars PROVE StackInv'
  OBVIOUS
<1>0. ProcessesOK /\ OrphansExplained /\ ScriptOK /\ WaitsUntilDeadline
      /\ (verify # "idle" => triesLeft >= 1)
  BY StackTypes, StackOrphans DEF StackInv
<1>1. CASE UNCHANGED devVars
  <2>1. UNCHANGED stackVars /\ UNCHANGED verifyVars
    BY <1>1 DEF devVars
  <2>2. ProcessesOK' /\ OrphansExplained'
    BY <1>0, <2>1 DEF ProcessesOK, OrphansExplained, stackVars
  <2>3. QED
    BY <2>1, <2>2, StackKeepsVerify
<1>2. ASSUME NEW kind \in {"https", "http"}, Launch(kind) PROVE StackInv'
  <2>1. ProcessesOK' /\ OrphansExplained' /\ UNCHANGED verifyVars
    BY <1>0, <1>2 DEF ProcessesOK, OrphansExplained, ProcessStates, Launch, Orphaned
  <2>2. QED
    BY <2>1, StackKeepsVerify
<1>3. ASSUME StartVite \/ Interrupt \/ Terminate \/ Kill \/ ApiDies \/ ViteDies PROVE StackInv'
  <2>1. UNCHANGED verifyVars
    BY <1>3 DEF StartVite, Interrupt, Terminate, Kill, ApiDies, ViteDies
  <2>2. ASSUME StartVite \/ ApiDies \/ ViteDies PROVE ProcessesOK' /\ OrphansExplained'
    BY <1>0, <2>2 DEF ProcessesOK, OrphansExplained, ProcessStates, StartVite, ApiDies, ViteDies
  <2>3. CASE Interrupt
    BY <1>0, <2>3, <2>1, StackKeepsVerify
    DEF ProcessesOK, OrphansExplained, ProcessStates, Interrupt, shutdown, Killed
  <2>4. CASE Terminate
    BY <1>0, <2>4, <2>1, StackKeepsVerify
    DEF ProcessesOK, OrphansExplained, ProcessStates, Terminate, shutdown, Orphaned, Killed
  <2>5. CASE Kill
    BY <1>0, <2>5, <2>1, StackKeepsVerify
    DEF ProcessesOK, OrphansExplained, ProcessStates, Kill, Orphaned
  <2>6. QED
    BY <1>3, <2>1, <2>2, <2>3, <2>4, <2>5, StackKeepsVerify
<1>4. ASSUME NEW k \in ApiKeySet, EditKey(k) PROVE StackInv'
  <2>1. ProcessesOK' /\ OrphansExplained' /\ UNCHANGED verifyVars
    BY <1>0, <1>4 DEF ProcessesOK, OrphansExplained, EditKey
  <2>2. QED
    BY <2>1, StackKeepsVerify
<1>5. ASSUME NEW w \in BOOLEAN, StartVerify(w) PROVE StackInv'
  <2>1. /\ verify' = "page" /\ waiting' = w /\ triesLeft' = MaxTries /\ key' = fileKey
        /\ result' = NoResult /\ outcome' = "none" /\ UNCHANGED <<base, stackVars>>
    BY <1>5 DEF StartVerify
  <2>2. ScriptOK'
    <3>1. triesLeft' \in 0 .. MaxTries /\ result' \in [ui : BOOLEAN, health : BOOLEAN, gates : BOOLEAN]
      BY <2>1, StackConstants
    <3>2. waiting' \in BOOLEAN /\ base' \in Bases /\ key' \in ApiKeySet
      BY <1>0, <2>1 DEF ScriptOK, ProcessesOK
    <3>3. QED
      BY <2>1, <3>1, <3>2 DEF ScriptOK
  <2>3. QED
    BY <2>1, <2>2, StackConstants, VerifyKeepsStack DEF WaitsUntilDeadline
<1>6. ASSUME verify # "idle", Unreached PROVE StackInv'
  <2>1. /\ result' = NoResult /\ UNCHANGED <<waiting, base, key, triesLeft, stackVars>>
        /\ \/ verify' = "look" /\ outcome' = outcome
           \/ verify' = "idle" /\ outcome' = "unreachable"
    BY <1>6 DEF Unreached
  <2>2. ScriptOK'
    BY <1>0, <2>1, StackConstants DEF ScriptOK
  <2>3. QED
    BY <1>0, <1>6, <2>1, <2>2, VerifyKeepsStack DEF WaitsUntilDeadline
<1>7. ASSUME AskPage \/ AskHealth \/ AskGates PROVE StackInv'
  <2>1. CASE Unreached
    BY <1>6, <1>7, <2>1 DEF AskPage, AskHealth, AskGates
  <2>2. CASE ~Unreached
    <3>1. /\ verify' \in {"health", "gates", "look"} /\ verify # "idle"
          /\ UNCHANGED <<waiting, base, key, triesLeft, outcome, stackVars>>
      BY <1>7, <2>2 DEF AskPage, AskHealth, AskGates
    <3>2. result' \in [ui : BOOLEAN, health : BOOLEAN, gates : BOOLEAN]
      <4>1. CASE AskPage
        BY <2>2, <4>1 DEF AskPage, NoResult
      <4>2. CASE AskHealth
        BY <1>0, <2>2, <4>2 DEF AskHealth, ScriptOK, ApiBehindProxy
      <4>3. CASE AskGates
        BY <1>0, <2>2, <4>3 DEF AskGates, ScriptOK, ApiBehindProxy, GatesAnswer
      <4>4. QED
        BY <1>7, <4>1, <4>2, <4>3
    <3>3. ScriptOK'
      BY <1>0, <3>1, <3>2 DEF ScriptOK
    <3>4. QED
      BY <1>0, <3>1, <3>3, VerifyKeepsStack DEF WaitsUntilDeadline
  <2>3. QED
    BY <2>1, <2>2
<1>8. CASE Look
  <2>1. verify = "look" /\ UNCHANGED <<waiting, base, result, stackVars>>
    BY <1>8 DEF Look
  <2>2. triesLeft \in Nat /\ triesLeft >= 1 /\ triesLeft <= MaxTries /\ waiting \in BOOLEAN
        /\ result \in [ui : BOOLEAN, health : BOOLEAN, gates : BOOLEAN]
    <3>1. waiting \in BOOLEAN /\ result \in [ui : BOOLEAN, health : BOOLEAN, gates : BOOLEAN]
      BY <1>0 DEF ScriptOK
    <3>2. triesLeft \in 0 .. MaxTries /\ triesLeft >= 1
      BY <1>0, <2>1 DEF ScriptOK
    <3>3. QED
      BY <3>1, <3>2, StackConstants
  <2>3. Enough = (result.ui /\ result.health)
    BY DEF Enough
  <2>4. CASE ~Enough /\ waiting /\ TriesLeft > 0
    <3>1. verify' = "page" /\ triesLeft' = triesLeft - 1 /\ key' = fileKey /\ outcome' = outcome
      BY <1>8, <2>4 DEF Look, TriesLeft
    <3>2. triesLeft' \in 0 .. MaxTries /\ triesLeft' >= 1
      BY <2>2, <2>4, <3>1, StackConstants DEF TriesLeft
    <3>3. ScriptOK'
      BY <1>0, <2>1, <3>1, <3>2 DEF ScriptOK, ProcessesOK
    <3>4. QED
      BY <2>1, <3>1, <3>2, <3>3, VerifyKeepsStack DEF WaitsUntilDeadline
  <2>5. CASE ~(~Enough /\ waiting /\ TriesLeft > 0)
    <3>1. /\ verify' = "idle" /\ UNCHANGED <<triesLeft, key>>
          /\ outcome' = IF result = NoResult THEN "timed out" ELSE VerdictOf(result)
      BY <1>8, <2>5 DEF Look
    <3>2. outcome' \in {"passed", "failed", "timed out"}
      BY <3>1 DEF VerdictOf
    <3>3. ScriptOK'
      BY <1>0, <2>1, <3>1, <3>2 DEF ScriptOK
    <3>4. WaitsUntilDeadline'
      <4>1. CASE ~waiting
        BY <2>1, <4>1 DEF WaitsUntilDeadline
      <4>2. CASE ~(TriesLeft > 0)
        <5>1. triesLeft' = 1
          <6>1. triesLeft \in Nat /\ triesLeft >= 1 /\ triesLeft' = triesLeft
            BY <2>2, <3>1
          <6>2. ~(triesLeft - 1 > 0)
            BY <4>2 DEF TriesLeft
          <6>3. QED
            BY <6>1, <6>2
        <5>2. QED
          BY <5>1 DEF WaitsUntilDeadline
      <4>3. CASE Enough
        <5>1. result' = result /\ result.ui /\ result.health /\ result # NoResult
          <6>1. result' = result
            BY <2>1
          <6>2. result.ui /\ result.health
            BY <2>3, <4>3
          <6>3. QED
            BY <6>1, <6>2, StackConstants
        <5>2. outcome' \in {"failed", "timed out"} => ~result.gates
          BY <3>1, <5>1 DEF VerdictOf
        <5>3. QED
          BY <5>1, <5>2 DEF WaitsUntilDeadline
      <4>4. QED
        BY <2>5, <4>1, <4>2, <4>3
    <3>5. QED
      BY <2>1, <3>1, <3>3, <3>4, VerifyKeepsStack
  <2>6. QED
    BY <2>4, <2>5
<1>9. QED
  BY <1>1, <1>2, <1>3, <1>4, <1>5, <1>7, <1>8 DEF DevStackNext, VerifyStep

\* Whichever processes die or are left behind while the script runs, a stack
\* that was told to stop leaves its page server at most, and a verification
\* that waits does not give up before its deadline (dev-stack-https,
\* verify-https-stack).
THEOREM WaitingIsPatient == DevStackSpec => []DevStackSafe
<1>1. StackInv => DevStackSafe
  BY DEF StackInv, DevStackSafe
<1>2. QED
  BY <1>1, StackInvStarts, StackInvSteps, PTL DEF DevStackSpec

-----------------------------------------------------------------------------
(* The off-ramp.  A conversion never has more transfers than approvals, and *)
(* while its request has not reached Circle it has fewer.                  *)

RampInv ==
  /\ OffRampTypeOK
  /\ PayoutIsBounded
  /\ \A c \in Conversions :
       /\ approved[c] <= attempts[c]
       /\ transfers[c] <= approved[c]
       /\ requested[c] = "sent" => transfers[c] < approved[c]
       /\ requested[c] = "taken" => transfers[c] > 0
       /\ requested[c] # "no" => circleKey
       /\ status[c] = "completed" => reference[c] = "circle"
       /\ reference[c] = "circle" => transfers[c] > 0
       /\ ~circleKey => transfers[c] = 0

LEMMA RampConstants == MaxAttempts \in Nat /\ Amounts \subseteq Nat /\ Fees \subseteq Nat
  BY OffRampAssumption

LEMMA ProductAtMost ==
  ASSUME NEW a \in Nat, NEW b \in Nat, b <= 500
  PROVE  a * b \in Nat /\ a * b <= 500 * a /\ (b > 0 => a * b >= a)
<1>1. a * b \in Nat
  OBVIOUS
<1>2. a * (500 - b) \in Nat /\ a * (500 - b) = 500 * a - a * b
  OBVIOUS
<1>3. b > 0 => a * (b - 1) \in Nat /\ a * (b - 1) = a * b - a
  OBVIOUS
<1>4. QED
  BY <1>1, <1>2, <1>3

\* The payout of a capped fee lies within its bounds.
LEMMA PayoutBounds ==
  ASSUME NEW a \in Nat, NEW f \in Nat
  PROVE  LET payout == a - (a * CappedFee(f)) \div 10000
         IN  /\ CappedFee(f) <= 500
             /\ payout <= a /\ 100 * payout >= 95 * a
             /\ f > 0 /\ a >= 10000 => payout < a
<1>1. CappedFee(f) \in Nat /\ CappedFee(f) <= 500 /\ (f > 0 => CappedFee(f) > 0)
  BY DEF CappedFee, MAX_FEE_BPS
<1> DEFINE product == a * CappedFee(f)
<1>2. product \in Nat /\ product <= 500 * a /\ (f > 0 => product >= a)
  BY <1>1, ProductAtMost
<1> HIDE DEF product
<1> DEFINE fee == product \div 10000
<1>3. fee \in Nat /\ 10000 * fee <= product /\ product < 10000 * fee + 10000
  BY <1>2
<1> HIDE DEF fee
<1>4. /\ a - fee <= a /\ 100 * (a - fee) >= 95 * a
      /\ f > 0 /\ a >= 10000 => a - fee < a
  BY <1>2, <1>3
<1>5. QED
  BY <1>1, <1>4 DEF fee, product

LEMMA RampInvStarts == OffRampInit => RampInv
  BY RampConstants DEF OffRampInit, RampInv, OffRampTypeOK, PayoutIsBounded, NoQuote, MAX_FEE_BPS

LEMMA RampInvSteps == RampInv /\ [OffRampNext]_rampVars => RampInv'
<1> SUFFICES ASSUME RampInv, [OffRampNext]_rampVars PROVE RampInv'
  OBVIOUS
<1> USE RampConstants DEF RampInv, OffRampTypeOK
<1>1. CASE UNCHANGED rampVars
  BY <1>1 DEF rampVars, PayoutIsBounded
<1>2. ASSUME NEW a \in Amounts, NEW f \in Fees, quote(a, f) PROVE RampInv'
  <2>1. /\ quoted'.in = a /\ quoted'.asked = f /\ quoted'.bps = CappedFee(f)
        /\ quoted'.payout = a - (a * CappedFee(f)) \div 10000
        /\ UNCHANGED <<circleKey, attempts, approved, requested, status, reference, transfers>>
    BY <1>2 DEF quote
  <2>2. a \in Nat /\ f \in Nat
    OBVIOUS
  <2>3. PayoutIsBounded' /\ quoted'.bps <= 500
    BY <2>1, <2>2, PayoutBounds DEF PayoutIsBounded
  <2>4. QED
    BY <2>1, <2>3 DEF MAX_FEE_BPS
<1>3. ASSUME NEW c \in Conversions, NEW human \in BOOLEAN, convertToFiat(c, human) PROVE RampInv'
  BY <1>3 DEF convertToFiat, MayTry, Blocked, Simulated, PayoutIsBounded
<1>4. ASSUME NEW c \in Conversions, CircleTakes(c) PROVE RampInv'
  BY <1>4 DEF CircleTakes, PayoutIsBounded
<1>5. ASSUME NEW c \in Conversions, CircleAnswers(c) PROVE RampInv'
  <2>1. PICK a \in {"failed", "thrown", "pending", "completed"},
             by \in {"none", "failed", "circle"} :
          /\ status' = [status EXCEPT ![c] = a] /\ reference' = [reference EXCEPT ![c] = by]
          /\ a \in {"pending", "completed"} => by = "circle"
          /\ by = "circle" => requested[c] = "taken"
    BY <1>5 DEF CircleAnswers, StatusOf
  <2>2. requested' = [requested EXCEPT ![c] = "no"]
        /\ UNCHANGED <<circleKey, attempts, approved, transfers, quoted>>
    BY <1>5 DEF CircleAnswers
  <2>3. QED
    BY <2>1, <2>2 DEF PayoutIsBounded
<1>6. QED
  BY <1>1, <1>2, <1>3, <1>4, <1>5 DEF OffRampNext

\* However often a conversion is tried again and whichever answers are lost,
\* an answer with Circle's reference is about a request Circle took, Circle takes
\* no more than a human approved and nothing without a key, and a quote pays out
\* at least 95 percent (circleOfframpClient).
THEOREM TransfersAreApproved == OffRampSpec => []OffRampSafe
<1>1. RampInv => OffRampSafe
  BY DEF RampInv, OffRampSafe, OffRampTypeOK, AcceptedIsTaken
<1>2. QED
  BY <1>1, RampInvStarts, RampInvSteps, PTL DEF OffRampSpec

-----------------------------------------------------------------------------
(* The preflight.  Between two edits of the file the rows of the smoke     *)
(* test and the probe are about the files as they are.                     *)

Results == {"pass", "fail", "skip"}

ProbeIsOfFile ==
  \/ probe = NoProbe
  \/ probe.config = pickRpcConfig(root.vars) /\ probe.report \in RpcReports(root.vars)

ProbeKindOK == probe.report \in {"none", "no URL", "no key", "ok", "fallback", "failed"}

RowFits(n, r) ==
  /\ n = "env" /\ r = "pass" => EnvCheckPasses
  /\ n = "tests" \/ n = "build" => r # "skip"

RowsAreOfFile ==
  /\ RanRow(1) /\ rows[1] = "pass" => EnvCheckPasses
  /\ RanRow(2) => rows[2] # "skip"
  /\ RanRow(6) => rows[6] # "skip"

ExitIsOfRows ==
  exit # "none" => next = 7 /\ exit = IF Critical # {} THEN "one" ELSE "zero"

SmokeInv ==
  /\ IsFile(root) /\ layer \in LayerFiles /\ shell \in Shells /\ ignored \in BOOLEAN
  /\ next \in 1 .. 7
  /\ rows \in Seq(Results) /\ Len(rows) = next - 1
  /\ IsFile(backend)
  /\ exit \in {"none", "zero", "one"}
  /\ ProbeIsOfFile /\ ProbeKindOK /\ RowsAreOfFile /\ ExitIsOfRows

LEMMA RowNamesLength == Len(RowNames) = 6
  BY DEF RowNames

LEMMA MissingIsFile == IsFile(Missing) /\ IsFile(NotRunning)
<1>1. IsEnvironment(Unset)
  BY DEF Unset, IsEnvironment
<1>2. QED
  BY <1>1 DEF Missing, NotRunning, IsFile

LEMMA BackendEnvIsFile ==
  ASSUME NEW f, f = [present |-> TRUE, vars |-> BackendEnv]
  PROVE  IsFile(f)
<1>1. IsEnvironment(BackendEnv)
  BY DEF BackendEnv, applyDotEnvFile, IsEnvironment
<1>2. QED
  BY <1>1 DEF IsFile

\* What a report of the RPC check tells of the file it read.
LEMMA ReportKindsOfProbe ==
  ASSUME NEW v, NEW r \in RpcReports(v)
  PROVE  /\ r \in {"no URL", "no key", "ok", "fallback", "failed"}
         /\ r = "no URL" <=> pickRpcConfig(v) = NoConfig
         /\ r = "no key" => pickRpcConfig(v).url = "shinami" /\ ~Given(pickRpcConfig(v).key)
         /\ r = "fallback" => MayFallBack(v, pickRpcConfig(v))
<1> DEFINE config == pickRpcConfig(v)
<1> HIDE DEF config
<1>1. RpcReports(v) =
        CASE config = NoConfig -> {"no URL"}
          [] config # NoConfig /\ config.url = "shinami" /\ ~Given(config.key) -> {"no key"}
          [] OTHER -> {"ok", "failed"} \cup (IF MayFallBack(v, config) THEN {"fallback"} ELSE {})
  BY DEF RpcReports, config
<1>2. CASE config = NoConfig
  BY <1>1, <1>2 DEF config
<1>3. CASE config # NoConfig /\ config.url = "shinami" /\ ~Given(config.key)
  BY <1>1, <1>3 DEF config
<1>4. CASE config # NoConfig /\ ~(config.url = "shinami" /\ ~Given(config.key))
  BY <1>1, <1>4 DEF config
<1>5. QED
  BY <1>2, <1>3, <1>4

\* What the RPC check asks of, by the variables it reads.
LEMMA PickedConfig ==
  ASSUME NEW v
  PROVE  LET url == First(v["SUI_RPC_URL"], v["SHINAMI_NODE_URL"])
             other == v["BLOCKVISION_RPC_URL"]
         IN  /\ Given(url) =>
                  /\ pickRpcConfig(v).url = url
                  /\ Given(pickRpcConfig(v).key) =>
                       pickRpcConfig(v).key = First(v["SUI_RPC_API_KEY"], v["SHINAMI_API_KEY"])
                  /\ url = "shinami" =>
                       pickRpcConfig(v).key = First(v["SUI_RPC_API_KEY"], v["SHINAMI_API_KEY"])
             /\ ~Given(url) /\ Given(other) =>
                  pickRpcConfig(v).url = other /\ pickRpcConfig(v).key = "none"
             /\ ~Given(url) /\ ~Given(other) => pickRpcConfig(v) = NoConfig
<1> DEFINE url == First(v["SUI_RPC_URL"], v["SHINAMI_NODE_URL"])
           other == v["BLOCKVISION_RPC_URL"]
           secret == First(v["SUI_RPC_API_KEY"], v["SHINAMI_API_KEY"])
<1>1. pickRpcConfig(v) =
        CASE Given(url) -> [url |-> url, key |-> IF url = "shinami" THEN secret ELSE "none"]
          [] ~Given(url) /\ Given(other) -> [url |-> other, key |-> "none"]
          [] OTHER -> NoConfig
  BY Zenon DEF pickRpcConfig
<1> HIDE DEF url, other, secret
<1>2. ~Given("none")
  BY DEF Given
<1>3. CASE Given(url)
  <2>1. pickRpcConfig(v) = [url |-> url, key |-> IF url = "shinami" THEN secret ELSE "none"]
    BY <1>1, <1>3
  <2>2. QED
    BY <1>2, <1>3, <2>1 DEF url, other, secret
<1>4. CASE ~Given(url) /\ Given(other)
  <2>1. pickRpcConfig(v) = [url |-> other, key |-> "none"]
    BY <1>1, <1>4
  <2>2. QED
    BY <1>4, <2>1 DEF url, other, secret
<1>5. CASE ~Given(url) /\ ~Given(other)
  <2>1. pickRpcConfig(v) = NoConfig
    BY <1>1, <1>5
  <2>2. QED
    BY <1>5, <2>1 DEF url, other, secret
<1>6. QED
  BY <1>3, <1>4, <1>5

\* Without blockers the file names a URL, its key if it is Shinami's under its
\* own name, and no file of layer 5 lies nearer.
LEMMA EnvCheckFinds ==
  ASSUME EnvCheckPasses
  PROVE  /\ ~layer.present
         /\ Given(root.vars["SUI_RPC_URL"]) \/ Given(root.vars["BLOCKVISION_RPC_URL"])
         /\ root.vars["SUI_RPC_URL"] = "shinami" => Given(root.vars["SUI_RPC_API_KEY"])
<1>1. {"layer file", "set a URL", "shinami key"} \cap Issues = {}
  BY DEF EnvCheckPasses, Tolerated
<1>2. ~layer.present
  BY <1>1 DEF Issues
<1>3. "set a URL" \notin RootIssues /\ "shinami key" \notin RootIssues
  BY <1>1 DEF Issues
<1>4. Given(root.vars["SUI_RPC_URL"]) \/ Given(root.vars["BLOCKVISION_RPC_URL"])
  BY <1>3 DEF RootIssues
<1>5. root.vars["SUI_RPC_URL"] = "shinami" => Given(root.vars["SUI_RPC_API_KEY"])
  BY <1>3 DEF RootIssues
<1>6. QED
  BY <1>2, <1>4, <1>5

LEMMA SmokeInvStarts == PreflightInit => SmokeInv
<1> SUFFICES ASSUME PreflightInit PROVE SmokeInv
  OBVIOUS
<1>1. IsFile(root) /\ IsFile(backend)
  BY PreflightAssumption, MissingIsFile DEF PreflightInit
<1>2. rows = <<>> /\ rows \in Seq(Results) /\ Len(rows) = 0 /\ next = 1
  BY DEF PreflightInit
<1>3. RowsAreOfFile
  BY <1>2 DEF RowsAreOfFile, RanRow
<1>4. ProbeIsOfFile /\ ExitIsOfRows /\ ProbeKindOK
  BY DEF PreflightInit, ProbeIsOfFile, ExitIsOfRows, NoProbe, ProbeKindOK
<1>5. QED
  BY <1>1, <1>2, <1>3, <1>4 DEF PreflightInit, SmokeInv

\* A row that is added.
LEMMA RowKeepsSmokeInv ==
  ASSUME SmokeInv, NEW n \in {"env", "tests", "rpc", "health", "gates", "build"},
         NEW r \in Results, Row(n, r), RowFits(n, r), ProbeIsOfFile', ProbeKindOK'
  PROVE  SmokeInv'
<1>1. /\ next <= 6 /\ RowNames[next] = n
      /\ rows' = Append(rows, r) /\ next' = next + 1
      /\ UNCHANGED <<root, layer, shell, ignored, backend, exit>>
  BY RowNamesLength DEF Row
<1>2. next \in Nat /\ next >= 1 /\ rows \in Seq(Results) /\ Len(rows) = next - 1
  <2>1. next \in 1 .. 7 /\ rows \in Seq(Results) /\ Len(rows) = next - 1
    BY DEF SmokeInv
  <2>2. QED
    BY <2>1
<1>3. /\ rows' \in Seq(Results) /\ Len(rows') = next /\ rows'[next] = r
      /\ \A i \in 1 .. Len(rows) : rows'[i] = rows[i]
  BY <1>1, <1>2, AppendProperties
<1>4. EnvCheckPasses' <=> EnvCheckPasses
  BY <1>1 DEF EnvCheckPasses, Issues, RootIssues
<1>5. next = 1 => n = "env"
  BY <1>1 DEF RowNames
<1>6. next = 2 => n = "tests"
  BY <1>1 DEF RowNames
<1>7. next = 6 => n = "build"
  BY <1>1 DEF RowNames
<1>8. Len(rows') >= 1 /\ rows'[1] = "pass" => EnvCheckPasses
  <2>1. CASE next = 1
    BY <1>3, <1>5, <2>1 DEF RowFits
  <2>2. CASE next > 1
    <3>1. 1 \in 1 .. Len(rows) /\ RanRow(1)
      BY <1>2, <2>2 DEF RanRow
    <3>2. QED
      BY <1>3, <3>1 DEF SmokeInv, RowsAreOfFile
  <2>3. QED
    BY <1>2, <2>1, <2>2
<1>9. Len(rows') >= 2 => rows'[2] # "skip"
  <2>1. CASE next = 2
    BY <1>3, <1>6, <2>1 DEF RowFits
  <2>2. CASE next > 2
    <3>1. 2 \in 1 .. Len(rows) /\ RanRow(2)
      BY <1>2, <2>2 DEF RanRow
    <3>2. QED
      BY <1>3, <3>1 DEF SmokeInv, RowsAreOfFile
  <2>3. QED
    BY <1>2, <1>3, <2>1, <2>2
<1>10. Len(rows') >= 6 => rows'[6] # "skip"
  BY <1>1, <1>2, <1>3, <1>7 DEF RowFits
<1>11. RowsAreOfFile'
  BY <1>4, <1>8, <1>9, <1>10 DEF RowsAreOfFile, RanRow
<1>12. exit = "none"
  BY <1>1, <1>2 DEF SmokeInv, ExitIsOfRows
<1>13. ExitIsOfRows'
  BY <1>1, <1>12 DEF ExitIsOfRows
<1>14. next' \in 1 .. 7 /\ Len(rows') = next' - 1
  BY <1>1, <1>2, <1>3
<1>15. QED
  BY <1>1, <1>3, <1>11, <1>13, <1>14 DEF SmokeInv

\* The backend that comes and goes beside it.
LEMMA BackendKeepsSmokeInv ==
  ASSUME SmokeInv, UNCHANGED <<root, layer, shell, ignored, next, rows, probe>>,
         IsFile(backend'), exit' \in {"none", "zero", "one"}, ExitIsOfRows'
  PROVE  SmokeInv'
<1>1. EnvCheckPasses' <=> EnvCheckPasses
  BY DEF EnvCheckPasses, Issues, RootIssues
<1>2. RowsAreOfFile'
  BY <1>1 DEF SmokeInv, RowsAreOfFile, RanRow
<1>3. ProbeIsOfFile' /\ ProbeKindOK'
  BY DEF SmokeInv, ProbeIsOfFile, ProbeKindOK
<1>4. QED
  BY <1>2, <1>3 DEF SmokeInv

\* A smoke test that begins again.
LEMMA FreshRunKeepsSmokeInv ==
  ASSUME SmokeInv, IsFile(root'), UNCHANGED <<layer, shell, ignored, backend>>,
         next' = 1, rows' = <<>>, probe' = NoProbe, exit' = "none"
  PROVE  SmokeInv'
<1>1. rows' \in Seq(Results) /\ Len(rows') = 0
  OBVIOUS
<1>2. RowsAreOfFile'
  BY <1>1 DEF RowsAreOfFile, RanRow
<1>3. ProbeIsOfFile' /\ ExitIsOfRows' /\ ProbeKindOK'
  BY DEF ProbeIsOfFile, ExitIsOfRows, NoProbe, ProbeKindOK
<1>4. QED
  BY <1>1, <1>2, <1>3 DEF SmokeInv

LEMMA SmokeInvSteps == SmokeInv /\ [PreflightNext]_preflightVars => SmokeInv'
<1> SUFFICES ASSUME SmokeInv, [PreflightNext]_preflightVars PROVE SmokeInv'
  OBVIOUS
<1> USE DEF Verdict
<1>1. IsFile(root) /\ layer \in LayerFiles /\ shell \in Shells /\ IsFile(backend)
      /\ ProbeIsOfFile /\ ExitIsOfRows /\ exit \in {"none", "zero", "one"}
      /\ ProbeKindOK
  BY DEF SmokeInv
<1>2. ASSUME UNCHANGED <<root, probe>> PROVE ProbeIsOfFile' /\ ProbeKindOK'
  BY <1>1, <1>2 DEF ProbeIsOfFile, ProbeKindOK
<1>3. ASSUME UNCHANGED <<next, rows, exit>> PROVE ExitIsOfRows'
  BY <1>1, <1>3 DEF ExitIsOfRows, Critical
<1>4. CASE UNCHANGED preflightVars
  BY <1>1, <1>3, <1>4, BackendKeepsSmokeInv DEF preflightVars
<1>5. CASE StartBackend
  <2>1. backend' = [present |-> TRUE, vars |-> BackendEnv]
        /\ UNCHANGED <<root, layer, shell, ignored, next, rows, probe, exit>>
    BY <1>5 DEF StartBackend
  <2>2. IsFile(backend')
    BY <2>1, BackendEnvIsFile
  <2>3. QED
    BY <1>1, <1>3, <2>1, <2>2, BackendKeepsSmokeInv
<1>6. CASE StopBackend
  BY <1>1, <1>3, <1>6, MissingIsFile, BackendKeepsSmokeInv DEF StopBackend
<1>7. CASE EnvRow
  <2>1. Row("env", IF EnvCheckPasses THEN "pass" ELSE "fail") /\ UNCHANGED probe
    BY <1>7 DEF EnvRow
  <2>2. UNCHANGED root
    BY <2>1 DEF Row
  <2>3. QED
    BY <1>1, <1>2, <2>1, <2>2, RowKeepsSmokeInv DEF Results, RowFits
<1>8. CASE TestsRow \/ BuildRow
  <2>1. PICK n \in {"tests", "build"}, r \in {"pass", "fail"} : Row(n, r) /\ UNCHANGED probe
    BY <1>8 DEF TestsRow, BuildRow
  <2>2. UNCHANGED root
    BY <2>1 DEF Row
  <2>3. QED
    BY <1>1, <1>2, <2>1, <2>2, RowKeepsSmokeInv DEF Results, RowFits
<1>9. CASE RpcRow
  <2>1. CASE Row("rpc", "fail") /\ UNCHANGED probe
    <3>1. UNCHANGED root
      BY <2>1 DEF Row
    <3>2. QED
      BY <1>1, <1>2, <2>1, <3>1, RowKeepsSmokeInv DEF Results, RowFits
  <2>2. ASSUME NEW r \in RpcReports(root.vars),
               probe' = [config |-> pickRpcConfig(root.vars), report |-> r],
               Row("rpc", IF r \in {"ok", "fallback"} THEN "pass" ELSE "fail")
        PROVE  SmokeInv'
    <3>1. UNCHANGED root
      BY <2>2 DEF Row
    <3>2. probe'.config = pickRpcConfig(root.vars) /\ probe'.report = r
      BY <2>2
    <3>3. ProbeIsOfFile'
      BY <3>1, <3>2 DEF ProbeIsOfFile
    <3>4. ProbeKindOK'
      BY <3>2, ReportKindsOfProbe DEF ProbeKindOK
    <3>5. QED
      BY <2>2, <3>3, <3>4, RowKeepsSmokeInv DEF Results, RowFits
  <2>3. QED
    BY <1>9, <2>1, <2>2 DEF RpcRow
<1>10. CASE HealthRow \/ GatesRow
  <2>1. PICK n \in {"health", "gates"}, r \in Results : Row(n, r) /\ UNCHANGED probe
    BY <1>10 DEF HealthRow, GatesRow, Results
  <2>2. UNCHANGED root
    BY <2>1 DEF Row
  <2>3. QED
    BY <1>1, <1>2, <2>1, <2>2, RowKeepsSmokeInv DEF RowFits
<1>11. CASE Exit
  <2>1. /\ next = 7 /\ exit' = IF Critical # {} THEN "one" ELSE "zero"
        /\ UNCHANGED <<root, layer, shell, ignored, next, rows, probe, backend>>
    BY <1>11, RowNamesLength DEF Exit
  <2>2. Critical' = Critical
    BY <2>1 DEF Critical
  <2>3. ExitIsOfRows' /\ exit' \in {"none", "zero", "one"}
    BY <2>1, <2>2 DEF ExitIsOfRows
  <2>4. QED
    BY <1>1, <2>1, <2>3, BackendKeepsSmokeInv
<1>12. CASE Again
  BY <1>1, <1>12, FreshRunKeepsSmokeInv DEF Again
<1>13. CASE EditFile
  <2>1. PICK k \in ApiKeys : root' = [root EXCEPT !.vars["SETTLEMENT_API_KEY"] = k]
    BY <1>13 DEF EditFile
  <2>2. IsFile(root')
    <3>1. root = [present |-> root.present, vars |-> root.vars] /\ root.present \in BOOLEAN
          /\ root.vars = [n \in Names |-> root.vars[n]]
      BY <1>1 DEF IsFile, IsEnvironment
    <3> DEFINE edited == [root.vars EXCEPT !["SETTLEMENT_API_KEY"] = k]
    <3>2. root' = [present |-> root.present, vars |-> edited]
      BY <2>1, <3>1
    <3>3. IsEnvironment(edited)
      BY <3>1 DEF IsEnvironment
    <3> HIDE DEF edited
    <3>4. QED
      BY <3>1, <3>2, <3>3 DEF IsFile
  <2>3. QED
    BY <1>13, <2>2, FreshRunKeepsSmokeInv DEF EditFile
<1>14. QED
  BY <1>4, <1>5, <1>6, <1>7, <1>8, <1>9, <1>10, <1>11, <1>12, <1>13 DEF PreflightNext

\* With no file of layer 5 the two environments are one.
LEMMA SameEnvironments ==
  ASSUME ~layer.present
  PROVE  GateEnv = BackendEnv
  BY DEF GateEnv, BackendEnv, applyDotEnvFile

LEMMA OwnEnvironment ==
  ASSUME ~layer.present, shell = Unset, NEW n \in Names
  PROVE  BackendEnv[n] = root.vars[n]
  BY DEF BackendEnv, applyDotEnvFile, Unset

LEMMA SmokeInvIsSafe == SmokeInv => PreflightSafe
<1> SUFFICES ASSUME SmokeInv PROVE PreflightSafe
  OBVIOUS
<1>1. PreflightTypeOK
  <2>1. IsEnvironment(root.vars) /\ IsEnvironment(backend.vars) /\ backend.present \in BOOLEAN
    BY DEF SmokeInv, IsFile
  <2>2. DOMAIN root.vars = Names /\ DOMAIN backend.vars = Names
    BY <2>1 DEF IsEnvironment
  <2>3. rows \in [1 .. next - 1 -> {"pass", "fail", "skip"}]
    <3>1. rows \in [1 .. Len(rows) -> Results]
      BY LenProperties DEF SmokeInv
    <3>2. QED
      BY <3>1 DEF SmokeInv, Results
  <2>4. QED
    <3>1. next \in 1 .. Len(RowNames) + 1
      BY RowNamesLength DEF SmokeInv
    <3>2. exit # "none" => next = Len(RowNames) + 1
      BY RowNamesLength DEF SmokeInv, ExitIsOfRows
    <3>3. layer \in LayerFiles /\ shell \in Shells /\ ignored \in BOOLEAN
          /\ exit \in {"none", "zero", "one"} /\ ProbeKindOK
      BY DEF SmokeInv
    <3>4. QED
      BY <2>1, <2>2, <2>3, <3>1, <3>2, <3>3, Zenon DEF PreflightTypeOK, ProbeKindOK
<1>2. EnvRowPassed => EnvCheckPasses
  BY DEF SmokeInv, RowsAreOfFile, EnvRowPassed
<1>3. CheckedEnvIsShared
  BY <1>2, EnvCheckFinds, SameEnvironments DEF CheckedEnvIsShared
<1>4. probe.report # "none" =>
        probe.config = pickRpcConfig(root.vars) /\ probe.report \in RpcReports(root.vars)
  BY DEF SmokeInv, ProbeIsOfFile, NoProbe
<1>5. ProbeAsksForBackend
  <2>1. SUFFICES ASSUME Asked, ~layer.present, shell = Unset
                 PROVE  /\ probe.config.url = resolveSuiRpcUrl(BackendEnv)
                        /\ Given(probe.config.key) => probe.config.key = resolveSuiRpcHeaders(BackendEnv)
    BY DEF ProbeAsksForBackend
  <2>2. probe.config = pickRpcConfig(root.vars) /\ probe.config # NoConfig
    BY <1>4, <2>1, ReportKindsOfProbe DEF Asked
  <2>3. /\ BackendEnv["SUI_RPC_URL"] = root.vars["SUI_RPC_URL"]
        /\ BackendEnv["SHINAMI_NODE_URL"] = root.vars["SHINAMI_NODE_URL"]
        /\ BackendEnv["BLOCKVISION_RPC_URL"] = root.vars["BLOCKVISION_RPC_URL"]
        /\ BackendEnv["SUI_RPC_API_KEY"] = root.vars["SUI_RPC_API_KEY"]
        /\ BackendEnv["SHINAMI_API_KEY"] = root.vars["SHINAMI_API_KEY"]
    BY <2>1, OwnEnvironment DEF Names
  <2> DEFINE u == First(root.vars["SUI_RPC_URL"], root.vars["SHINAMI_NODE_URL"])
             w == root.vars["BLOCKVISION_RPC_URL"]
             secret == First(root.vars["SUI_RPC_API_KEY"], root.vars["SHINAMI_API_KEY"])
  <2>4. resolveSuiRpcUrl(BackendEnv) = (IF Given(First(u, w)) THEN First(u, w) ELSE "public")
        /\ resolveSuiRpcHeaders(BackendEnv) = secret
    BY <2>3 DEF resolveSuiRpcUrl, resolveSuiRpcHeaders
  <2>5. /\ Given(u) => /\ probe.config.url = u
                       /\ Given(probe.config.key) => probe.config.key = secret
        /\ ~Given(u) /\ Given(w) => probe.config.url = w /\ probe.config.key = "none"
        /\ Given(u) \/ Given(w)
    BY <2>2, PickedConfig
  <2> HIDE DEF u, w, secret
  <2>6. QED
    BY <2>4, <2>5 DEF First, Given
<1>6. FallbackStaysOnTestnet
  <2>1. SUFFICES ASSUME probe.report = "fallback"
                 PROVE  /\ \/ BackendEnv["SUI_NETWORK"] \notin {"mainnet", "localnet"}
                           \/ layer.present \/ shell # Unset
                        /\ probe.config.url = "shinami"
    BY DEF FallbackStaysOnTestnet
  <2>2. MayFallBack(root.vars, probe.config)
    BY <1>4, <2>1, ReportKindsOfProbe
  <2>3. root.vars["SUI_NETWORK"] \in {"none", "", "testnet"} /\ probe.config.url = "shinami"
    BY <2>2 DEF MayFallBack
  <2>4. ~layer.present /\ shell = Unset => BackendEnv["SUI_NETWORK"] = root.vars["SUI_NETWORK"]
    BY OwnEnvironment DEF Names
  <2>5. QED
    BY <2>3, <2>4
<1>7. CheckedEnvReachesProbe
  <2>1. SUFFICES ASSUME EnvRowPassed
                 PROVE  /\ probe.report # "no URL"
                        /\ probe.report = "no key" => ~Given(root.vars["SUI_RPC_URL"])
    BY DEF CheckedEnvReachesProbe
  <2>2. /\ Given(root.vars["SUI_RPC_URL"]) \/ Given(root.vars["BLOCKVISION_RPC_URL"])
        /\ root.vars["SUI_RPC_URL"] = "shinami" => Given(root.vars["SUI_RPC_API_KEY"])
    BY <1>2, <2>1, EnvCheckFinds
  <2>3. probe.report # "no URL"
    <3>1. SUFFICES ASSUME probe.report = "no URL" PROVE FALSE
      OBVIOUS
    <3>2. pickRpcConfig(root.vars) = NoConfig
      BY <1>4, <3>1, ReportKindsOfProbe
    <3>3. pickRpcConfig(root.vars).url = "none" /\ ~Given("none")
      BY <3>2 DEF NoConfig, Given
    <3> DEFINE u == First(root.vars["SUI_RPC_URL"], root.vars["SHINAMI_NODE_URL"])
    <3>4. Given(u) \/ Given(root.vars["BLOCKVISION_RPC_URL"])
      BY <2>2 DEF First
    <3>5. /\ Given(u) => pickRpcConfig(root.vars).url = u
          /\ ~Given(u) /\ Given(root.vars["BLOCKVISION_RPC_URL"]) =>
               pickRpcConfig(root.vars).url = root.vars["BLOCKVISION_RPC_URL"]
      BY PickedConfig
    <3> HIDE DEF u
    <3>6. QED
      BY <3>3, <3>4, <3>5
  <2>4. ASSUME probe.report = "no key", Given(root.vars["SUI_RPC_URL"]) PROVE FALSE
    <3>1. pickRpcConfig(root.vars).url = "shinami" /\ ~Given(pickRpcConfig(root.vars).key)
      BY <1>4, <2>4, ReportKindsOfProbe
    <3>2. First(root.vars["SUI_RPC_URL"], root.vars["SHINAMI_NODE_URL"]) = root.vars["SUI_RPC_URL"]
      BY <2>4 DEF First
    <3>3. pickRpcConfig(root.vars).url = root.vars["SUI_RPC_URL"]
      BY <2>4, <3>2, PickedConfig
    <3>4. pickRpcConfig(root.vars).key = First(root.vars["SUI_RPC_API_KEY"], root.vars["SHINAMI_API_KEY"])
      BY <2>4, <3>1, <3>2, <3>3, PickedConfig
    <3>5. QED
      BY <2>2, <3>1, <3>3, <3>4 DEF First
  <2>5. QED
    BY <2>3, <2>4
<1>8. ExitTellsTestsAndBuild
  <2>1. SUFFICES ASSUME exit # "none"
                 PROVE  (exit = "zero") = (rows[2] = "pass" /\ rows[6] = "pass")
    BY DEF ExitTellsTestsAndBuild
  <2>2. next = 7 /\ exit = IF Critical # {} THEN "one" ELSE "zero"
    BY <2>1 DEF SmokeInv, ExitIsOfRows
  <2>3. Len(rows) = 6 /\ rows \in Seq(Results)
    BY <2>2 DEF SmokeInv
  <2>4. rows[2] \in Results /\ rows[6] \in Results
    <3>1. 2 \in 1 .. Len(rows) /\ 6 \in 1 .. Len(rows)
      BY <2>3
    <3>2. QED
      BY <2>3, <3>1, ElementOfSeq
  <2>5. rows[2] # "skip" /\ rows[6] # "skip"
    <3>1. RanRow(2) /\ RanRow(6)
      BY <2>3 DEF RanRow
    <3>2. QED
      BY <3>1 DEF SmokeInv, RowsAreOfFile
  <2>6. Critical # {} <=> rows[2] = "fail" \/ rows[6] = "fail"
    BY DEF Critical
  <2>7. QED
    BY <2>2, <2>4, <2>5, <2>6 DEF Results
<1>9. QED
  BY <1>1, <1>3, <1>5, <1>6, <1>7, <1>8 DEF PreflightSafe

\* In whatever order the file is edited, the backend started and the checks
\* run, what they say is about the environment the backend reads, and the exit
\* code of the smoke test tells of tests and build (check-env-local,
\* check-shinami-rpc, test-backend).
THEOREM ChecksReadTheBackendsFile == PreflightSpec => []PreflightSafe
  BY SmokeInvStarts, SmokeInvSteps, SmokeInvIsSafe, PTL DEF PreflightSpec

-----------------------------------------------------------------------------
(* The Wormhole client.  A fetch through awaitVaaWithTimelock is under way *)
(* only for a message whose time-lock is over, and so it stays however the *)
(* chain goes on; the client's counter is above all it handed out and saw. *)

FetchKinds == [sequence : Chain, through : {"await", "direct"}]
Returns == [sequence : Chain, at : Nat]

LockIsOver(s, t) == s \in 1 .. emitted /\ t >= startedAt[s] + Timelock

AwaitsPastLock ==
  \A f \in Fetches : fetch[f].through = "await" => LockIsOver(fetch[f].sequence, now)
ReturnsPastLock == \A g \in got : LockIsOver(g.sequence, g.at)

ClientInv ==
  /\ VaaTypeOK
  /\ handed \in Seq(Nat) /\ Len(handed) <= MaxSequence
  /\ lastSequence <= MaxSequence + Len(handed)
  /\ fetch \in [Fetches -> FetchKinds \cup {Free}]
  /\ got \subseteq Returns
  /\ NumbersAreFresh
  /\ AwaitsPastLock /\ ReturnsPastLock

LEMMA VaaConstants == MaxSequence \in Nat /\ Timelock \in Nat /\ MaxTime \in Nat
<1>1. {MaxSequence, Timelock, MaxTime} \subseteq Nat
  BY VaaAssumption
<1>2. QED
  BY <1>1

LEMMA ClientInvStarts == VaaInit => ClientInv
<1> SUFFICES ASSUME VaaInit PROVE ClientInv
  OBVIOUS
<1>1. \A f \in Fetches : fetch[f] = Free /\ fetch[f].through = "none"
  BY DEF VaaInit, Free
<1>2. VaaTypeOK
  BY <1>1, VaaConstants DEF VaaInit, VaaTypeOK, Chain
<1>3. fetch \in [Fetches -> FetchKinds \cup {Free}] /\ handed \in Seq(Nat) /\ Len(handed) = 0
  BY DEF VaaInit
<1>4. NumbersAreFresh
  BY DEF VaaInit, NumbersAreFresh
<1>5. QED
  BY <1>1, <1>2, <1>3, <1>4, VaaConstants DEF VaaInit, ClientInv, AwaitsPastLock, ReturnsPastLock

\* What the chain, the guardians and time do leaves the client's locks over.
LEMMA WorldKeepsClientInv ==
  ASSUME ClientInv, UNCHANGED clientVars, VaaTypeOK',
         \A s \in 1 .. emitted : s \in 1 .. emitted' /\ startedAt'[s] = startedAt[s],
         now <= now'
  PROVE  ClientInv'
<1>1. UNCHANGED <<lastSequence, handed, fetch, got, seen>>
  BY DEF clientVars
<1>2. VaaTypeOK /\ fetch \in [Fetches -> FetchKinds \cup {Free}] /\ got \subseteq Returns
  BY DEF ClientInv
<1>3. \A s \in 1 .. emitted : startedAt[s] \in Nat
  BY <1>2, VaaConstants DEF VaaTypeOK, Chain
<1>4. now \in Nat /\ now' \in Nat
  <2>1. now \in 0 .. MaxTime /\ now' \in 0 .. MaxTime
    BY <1>2 DEF VaaTypeOK
  <2>2. QED
    BY <2>1, VaaConstants
<1>5. AwaitsPastLock'
  <2>1. ASSUME NEW f \in Fetches, fetch[f].through = "await"
        PROVE  fetch[f].sequence \in 1 .. emitted' /\ now' >= startedAt'[fetch[f].sequence] + Timelock
    <3>1. fetch[f].sequence \in 1 .. emitted /\ now >= startedAt[fetch[f].sequence] + Timelock
      BY <2>1 DEF ClientInv, AwaitsPastLock, ReturnsPastLock, LockIsOver
    <3>2. QED
      BY <1>3, <1>4, <3>1, VaaConstants
  <2>2. QED
    BY <1>1, <2>1 DEF LockIsOver, AwaitsPastLock
<1>6. ReturnsPastLock'
  <2>1. \A g \in got : g.sequence \in 1 .. emitted /\ g.at >= startedAt[g.sequence] + Timelock
    BY DEF ClientInv, AwaitsPastLock, ReturnsPastLock, LockIsOver
  <2>2. QED
    BY <1>1, <2>1 DEF LockIsOver, ReturnsPastLock
<1>7. NumbersAreFresh'
  BY <1>1 DEF ClientInv, NumbersAreFresh
<1>8. /\ handed' \in Seq(Nat) /\ Len(handed') <= MaxSequence
      /\ lastSequence' <= MaxSequence + Len(handed')
      /\ fetch' \in [Fetches -> FetchKinds \cup {Free}] /\ got' \subseteq Returns
  BY <1>1, <1>2 DEF ClientInv
<1>9. QED
  BY <1>5, <1>6, <1>7, <1>8 DEF ClientInv

LEMMA ClientInvSteps == ClientInv /\ [VaaNext]_vaaVars => ClientInv'
<1> SUFFICES ASSUME ClientInv, [VaaNext]_vaaVars PROVE ClientInv'
  OBVIOUS
<1>1. VaaTypeOK /\ NumbersAreFresh /\ handed \in Seq(Nat) /\ got \subseteq Returns
      /\ fetch \in [Fetches -> FetchKinds \cup {Free}]
  BY DEF ClientInv
<1>2. /\ emitted \in 0 .. MaxSequence /\ now \in 0 .. MaxTime /\ startedAt \in [Chain -> 0 .. MaxTime]
      /\ signed \subseteq 1 .. emitted /\ seen \subseteq signed /\ lastSequence \in Nat
      /\ emitted \in Nat /\ now \in Nat /\ Len(handed) \in Nat
      /\ Len(handed) <= MaxSequence /\ lastSequence <= MaxSequence + Len(handed)
  BY <1>1, VaaConstants DEF VaaTypeOK, ClientInv
<1>3. CASE UNCHANGED vaaVars
  BY <1>3 DEF vaaVars, clientVars, worldVars, ClientInv, VaaTypeOK, NumbersAreFresh, LockIsOver, AwaitsPastLock, ReturnsPastLock
<1>4. CASE Bridge
  <2>1. /\ emitted < MaxSequence /\ emitted' = emitted + 1 /\ UNCHANGED <<signed, now, clientVars>>
        /\ startedAt' = [startedAt EXCEPT ![emitted + 1] = now]
    BY <1>4 DEF Bridge
  <2>2. startedAt' \in [Chain -> 0 .. MaxTime] /\ emitted' \in 0 .. MaxSequence
    <3>1. emitted + 1 \in Chain
      BY <1>2, <2>1, VaaConstants DEF Chain
    <3>2. QED
      BY <1>2, <2>1, <3>1, VaaConstants
  <2>3. signed' \subseteq 1 .. emitted'
    BY <1>2, <2>1
  <2>4. VaaTypeOK'
    BY <1>1, <2>1, <2>2, <2>3 DEF VaaTypeOK, clientVars
  <2>5. \A s \in 1 .. emitted : s \in 1 .. emitted' /\ startedAt'[s] = startedAt[s]
    BY <1>2, <2>1, VaaConstants DEF Chain
  <2>6. QED
    BY <1>2, <2>1, <2>4, <2>5, WorldKeepsClientInv
<1>5. CASE Tick
  <2>1. now' = now + 1 /\ now < MaxTime /\ UNCHANGED <<emitted, startedAt, signed, clientVars>>
    BY <1>5 DEF Tick
  <2>2. now' \in 0 .. MaxTime /\ now <= now'
    BY <1>2, <2>1, VaaConstants
  <2>3. \A g \in got : g.at <= now'
    BY <1>1, <1>2, <2>1 DEF VaaTypeOK, Returns
  <2>4. VaaTypeOK'
    BY <1>1, <2>1, <2>2, <2>3 DEF VaaTypeOK, clientVars
  <2>5. QED
    BY <1>2, <2>1, <2>2, <2>4, WorldKeepsClientInv
<1>6. ASSUME NEW s \in Chain, Sign(s) PROVE ClientInv'
  <2>1. signed' = signed \cup {s} /\ s \in 1 .. emitted /\ UNCHANGED <<emitted, startedAt, now, clientVars>>
    BY <1>6 DEF Sign
  <2>2. VaaTypeOK'
    BY <1>1, <2>1 DEF VaaTypeOK, clientVars
  <2>3. QED
    BY <1>2, <2>1, <2>2, WorldKeepsClientInv
<1>7. CASE publishMessage
  <2>1. /\ handed' = Append(handed, lastSequence + 1) /\ lastSequence' = lastSequence + 1
        /\ Len(handed) < MaxSequence /\ UNCHANGED <<fetch, got, seen, emitted, startedAt, signed, now>>
    BY <1>7 DEF publishMessage, NextSequence, worldVars
  <2>2. /\ handed' \in Seq(Nat) /\ Len(handed') = Len(handed) + 1
        /\ handed'[Len(handed) + 1] = lastSequence + 1
        /\ \A i \in 1 .. Len(handed) : handed'[i] = handed[i]
    BY <1>1, <1>2, <2>1, AppendProperties
  <2>3. DOMAIN handed' = 1 .. Len(handed) + 1 /\ DOMAIN handed = 1 .. Len(handed)
    BY <1>1, <2>2, LenProperties
  <2>4. lastSequence + 1 \in 1 .. 2 * MaxSequence
    BY <1>2, <2>1, VaaConstants
  <2>5. \A i \in DOMAIN handed' : \/ i \in DOMAIN handed /\ handed'[i] = handed[i]
                                  \/ i = Len(handed) + 1 /\ handed'[i] = lastSequence + 1
    BY <1>2, <2>2, <2>3
  <2>6. VaaTypeOK'
    <3>1. \A i \in DOMAIN handed' : handed'[i] \in 1 .. 2 * MaxSequence
      BY <1>1, <2>4, <2>5 DEF VaaTypeOK
    <3>2. lastSequence' \in 0 .. 2 * MaxSequence
      BY <2>1, <2>4, VaaConstants
    <3>3. QED
      BY <1>1, <2>1, <3>1, <3>2 DEF VaaTypeOK
  <2>7. NumbersAreFresh'
    <3>1. \A i \in DOMAIN handed : handed[i] \in Nat /\ handed[i] <= lastSequence
      BY <1>1, <2>3, ElementOfSeq DEF NumbersAreFresh
    <3>2. \A i \in DOMAIN handed' : handed'[i] <= lastSequence'
      BY <1>2, <2>1, <2>5, <3>1
    <3>3. ASSUME NEW i \in DOMAIN handed', NEW j \in DOMAIN handed', i < j
          PROVE  handed'[i] < handed'[j]
      <4>1. i \in DOMAIN handed /\ handed'[i] = handed[i]
        BY <1>2, <2>3, <2>5, <3>3
      <4>2. CASE j \in DOMAIN handed
        BY <1>1, <1>2, <2>3, <2>5, <3>3, <4>1, <4>2 DEF NumbersAreFresh
      <4>3. CASE handed'[j] = lastSequence + 1
        BY <1>2, <3>1, <4>1, <4>3
      <4>4. QED
        BY <2>5, <4>2, <4>3
    <3>4. \A s \in seen' : s <= lastSequence'
      <4>1. \A s \in seen : s \in Nat /\ s <= lastSequence
        BY <1>1, <1>2 DEF NumbersAreFresh
      <4>2. QED
        BY <1>2, <2>1, <4>1
    <3>5. QED
      BY <3>2, <3>3, <3>4 DEF NumbersAreFresh
  <2>8. Len(handed') <= MaxSequence /\ lastSequence' <= MaxSequence + Len(handed')
    BY <1>2, <2>1, <2>2, VaaConstants
  <2>9. QED
    BY <2>1, <2>2, <2>6, <2>7, <2>8 DEF ClientInv, AwaitsPastLock, ReturnsPastLock, LockIsOver
<1>8. CASE Restart
  <2>1. /\ lastSequence' = 0 /\ handed' = <<>> /\ seen' = {} /\ fetch' = [f \in Fetches |-> Free]
        /\ UNCHANGED <<got, emitted, startedAt, signed, now>>
    BY <1>8 DEF Restart, worldVars
  <2>2. VaaTypeOK'
    BY <1>1, <2>1, VaaConstants DEF VaaTypeOK
  <2>3. NumbersAreFresh' /\ handed' \in Seq(Nat) /\ Len(handed') = 0
    BY <2>1 DEF NumbersAreFresh
  <2>4. \A f \in Fetches : fetch'[f].through # "await"
    BY <2>1 DEF Free
  <2>5. QED
    BY <2>1, <2>2, <2>3, <2>4, VaaConstants DEF ClientInv, AwaitsPastLock, ReturnsPastLock, LockIsOver
<1>9. ASSUME NEW f \in Fetches, NEW s \in Chain, NEW through \in {"await", "direct"},
             Ask(f, s, through), through = "await" => LockIsOver(s, now)
      PROVE  ClientInv'
  <2>1. /\ fetch' = [fetch EXCEPT ![f] = [sequence |-> s, through |-> through]]
        /\ UNCHANGED <<lastSequence, handed, got, seen, emitted, startedAt, signed, now>>
    BY <1>9 DEF Ask, worldVars
  <2> DEFINE new == [sequence |-> s, through |-> through]
  <2>2. new \in FetchKinds /\ new.sequence = s /\ new.through = through
    BY DEF FetchKinds
  <2> HIDE DEF new
  <2>3. fetch' \in [Fetches -> FetchKinds \cup {Free}]
        /\ \A h \in Fetches : fetch'[h] = IF h = f THEN new ELSE fetch[h]
    BY <1>1, <2>1, <2>2 DEF new
  <2>4. VaaTypeOK'
    <3>1. \A h \in Fetches : fetch'[h] # Free =>
            fetch'[h].sequence \in Chain /\ fetch'[h].through \in {"await", "direct"}
      BY <1>1, <2>2, <2>3 DEF VaaTypeOK
    <3>2. QED
      BY <1>1, <2>1, <3>1 DEF VaaTypeOK
  <2>5. AwaitsPastLock'
    BY <1>9, <2>1, <2>2, <2>3 DEF ClientInv, AwaitsPastLock, ReturnsPastLock, LockIsOver
  <2>6. ReturnsPastLock'
    BY <2>1 DEF ClientInv, AwaitsPastLock, ReturnsPastLock, LockIsOver
  <2>7. NumbersAreFresh'
    BY <1>1, <2>1 DEF NumbersAreFresh
  <2>8. QED
    BY <1>1, <1>2, <2>1, <2>3, <2>4, <2>5, <2>6, <2>7 DEF ClientInv
<1>10. ASSUME NEW f \in Fetches, NEW s \in Chain, fetchSignedVaa(f, s) PROVE ClientInv'
  BY <1>9, <1>10 DEF fetchSignedVaa
<1>11. ASSUME NEW f \in Fetches, NEW s \in Chain, awaitVaaWithTimelock(f, s) PROVE ClientInv'
  <2>1. s <= emitted /\ timelockRemainingMs(startedAt[s]) = 0 /\ Ask(f, s, "await")
    BY <1>11 DEF awaitVaaWithTimelock
  <2>2. startedAt[s] \in Nat /\ s \in 1 .. emitted
    BY <1>2, <2>1, VaaConstants DEF Chain
  <2>3. LockIsOver(s, now)
    BY <1>2, <2>1, <2>2, VaaConstants DEF LockIsOver, timelockRemainingMs
  <2>4. QED
    BY <1>9, <2>1, <2>3
<1>12. ASSUME NEW f \in Fetches, NoVaa(f) PROVE ClientInv'
  <2>1. /\ fetch' = [fetch EXCEPT ![f] = Free]
        /\ UNCHANGED <<lastSequence, handed, got, seen, emitted, startedAt, signed, now>>
    BY <1>12 DEF NoVaa, worldVars
  <2>2. fetch' \in [Fetches -> FetchKinds \cup {Free}]
        /\ \A h \in Fetches : fetch'[h] = IF h = f THEN Free ELSE fetch[h]
    BY <1>1, <2>1
  <2>3. VaaTypeOK'
    BY <1>1, <2>1, <2>2 DEF VaaTypeOK
  <2>4. Free.through # "await"
    BY DEF Free
  <2>5. QED
    BY <2>1, <2>2, <2>3, <2>4 DEF ClientInv, AwaitsPastLock, ReturnsPastLock, LockIsOver, NumbersAreFresh
<1>13. ASSUME NEW f \in Fetches, Vaa(f) PROVE ClientInv'
  <2> DEFINE s == fetch[f].sequence
             returned == {[sequence |-> s, at |-> now] : w \in {"await"} \cap {fetch[f].through}}
  <2>1. /\ fetch[f] # Free /\ s \in signed
        /\ lastSequence' = checkVaaSequence(lastSequence, s)
        /\ got' = got \cup returned /\ seen' = seen \cup {s}
        /\ fetch' = [fetch EXCEPT ![f] = Free]
        /\ UNCHANGED <<handed, emitted, startedAt, signed, now>>
    BY <1>13 DEF Vaa, IsSigned, worldVars
  <2>2. s \in Chain /\ s \in 1 .. emitted /\ s \in Nat /\ s <= MaxSequence
    <3>1. s \in 1 .. emitted
      BY <1>2, <2>1
    <3> HIDE DEF s
    <3>2. QED
      BY <1>2, <3>1, VaaConstants DEF Chain
  <2>3. \A g \in returned : /\ g \in Returns /\ g.sequence = s /\ g.at = now
                            /\ fetch[f].through = "await"
    BY <1>2, <2>2 DEF Returns
  <2>4. fetch' \in [Fetches -> FetchKinds \cup {Free}]
        /\ \A h \in Fetches : fetch'[h] = IF h = f THEN Free ELSE fetch[h]
    BY <1>1, <2>1
  <2>5. /\ lastSequence' \in Nat /\ lastSequence <= lastSequence' /\ s <= lastSequence'
        /\ lastSequence' <= MaxSequence + Len(handed)
    BY <1>2, <2>1, <2>2, VaaConstants DEF checkVaaSequence
  <2> HIDE DEF s, returned
  <2>6. VaaTypeOK'
    <3>1. lastSequence' \in 0 .. 2 * MaxSequence
      BY <1>2, <2>5, VaaConstants
    <3>2. \A g \in got' : g.sequence \in signed /\ g.at <= now
      BY <1>1, <1>2, <2>1, <2>3 DEF VaaTypeOK
    <3>3. \A h \in Fetches : fetch'[h] # Free =>
            fetch'[h].sequence \in Chain /\ fetch'[h].through \in {"await", "direct"}
      BY <1>1, <2>4 DEF VaaTypeOK
    <3>4. QED
      BY <1>1, <2>1, <3>1, <3>2, <3>3 DEF VaaTypeOK
  <2>7. NumbersAreFresh'
    <3>1. \A i \in DOMAIN handed : handed[i] \in Nat /\ handed[i] <= lastSequence
      BY <1>1, LenProperties, ElementOfSeq DEF NumbersAreFresh
    <3>2. \A i \in DOMAIN handed' : handed'[i] <= lastSequence'
      BY <1>2, <2>1, <2>5, <3>1
    <3>3. \A r \in seen' : r <= lastSequence'
      <4>1. \A r \in seen : r \in Nat /\ r <= lastSequence
        BY <1>1, <1>2 DEF NumbersAreFresh
      <4>2. QED
        BY <1>2, <2>1, <2>5, <4>1
    <3>4. QED
      BY <1>1, <2>1, <3>2, <3>3 DEF NumbersAreFresh
  <2>8. ReturnsPastLock'
    <3>1. fetch[f].through = "await" => LockIsOver(s, now)
      BY DEF ClientInv, AwaitsPastLock, s
    <3>2. \A g \in got \cup returned : LockIsOver(g.sequence, g.at)
      BY <2>3, <3>1 DEF ClientInv, ReturnsPastLock
    <3>3. QED
      BY <2>1, <3>2 DEF LockIsOver, ReturnsPastLock
  <2>9. Free.through # "await"
    BY DEF Free
  <2>10. AwaitsPastLock'
    BY <2>1, <2>4, <2>9 DEF ClientInv, AwaitsPastLock, ReturnsPastLock, LockIsOver
  <2>11. got' \subseteq Returns
    BY <1>1, <2>1, <2>3
  <2>12. QED
    BY <1>1, <1>2, <2>1, <2>4, <2>5, <2>6, <2>7, <2>8, <2>10, <2>11 DEF ClientInv
<1>14. QED
  BY <1>3, <1>4, <1>5, <1>6, <1>7, <1>8, <1>10, <1>11, <1>12, <1>13 DEF VaaNext

\* In whatever order VAAs are published, fetched and answered, and however the
\* client restarts, one start hands out and meets rising numbers, and a VAA
\* that was awaited is past its time-lock (wormholeBridgeClient).
THEOREM AwaitedVaasAreLate == VaaSpec => []VaaSafe
<1>1. ClientInv => VaaSafe
  <2> SUFFICES ASSUME ClientInv PROVE VaaSafe
    OBVIOUS
  <2>1. AwaitedAfterTimelock
    BY DEF ClientInv, AwaitsPastLock, ReturnsPastLock, LockIsOver, AwaitedAfterTimelock
  <2>2. QED
    BY <2>1 DEF ClientInv, VaaSafe
<1>2. QED
  BY <1>1, ClientInvStarts, ClientInvSteps, PTL DEF VaaSpec

-----------------------------------------------------------------------------
(* The builders.  What a transaction has been returned and what it has     *)
(* used is fixed by its builder and its next command.  So it is enough     *)
(* that the commands of a well called builder fit their functions one by   *)
(* one and that each value they return is dropped or taken by one of them. *)

Returnable == {"nothing"} \cup {Published[f].returns : f \in DOMAIN Published}

\* The builder's commands can run up to the n-th.
RunsTo(cmds, n) ==
  \A i \in 1 .. n :
    /\ Fits(cmds[i]) /\ Returned(cmds[i]) \in Returnable
    /\ Taken(cmds[i], "object") \subseteq Owned
    /\ Taken(cmds[i], "result") \subseteq 1 .. i - 1

Progress(cmds) ==
  /\ step <= Len(cmds) + 1
  /\ RunsTo(cmds, step - 1)
  /\ given = [i \in 1 .. step - 1 |-> Returned(cmds[i])]
  /\ used = UNION {Taken(cmds[i], "result") : i \in 1 .. step - 1}

CallsInv ==
  /\ CallsTypeOK
  /\ given \in Seq(Returnable) /\ Len(given) = step - 1
  /\ verdict = "running" => builder \in Builders /\ sender \in People /\ Progress(Commands(builder))
  /\ WellBuilt

\* All commands can run, and nothing is left at the end.
Complete(cmds) ==
  /\ RunsTo(cmds, Len(cmds))
  /\ \A i \in 1 .. Len(cmds) :
       \/ Returned(cmds[i]) \in Droppable
       \/ \E j \in 1 .. Len(cmds) : i \in Taken(cmds[j], "result")

-----------------------------------------------------------------------------
(* The commands.                                                           *)

LEMMA Lengths == {1, 2, 6} \subseteq 1 .. 6 /\ 6 # 13 /\ 7 # 4
OBVIOUS

LEMMA TwoInRow ==
  ASSUME NEW a, NEW b
  PROVE  <<a>> \o <<b>> = <<a, b>>
<1>1. <<a>> \in Seq({a, b}) /\ <<b>> \in Seq({a, b}) /\ <<a, b>> \in Seq({a, b})
  OBVIOUS
<1>2. Len(<<a>> \o <<b>>) = 2 /\ <<a>> \o <<b>> \in Seq({a, b})
  BY <1>1, ConcatProperties
<1>3. (<<a>> \o <<b>>)[1] = a /\ (<<a>> \o <<b>>)[2] = b
  <2> DEFINE s == <<a>>
             t == <<b>>
             st == s \o t
  <2>1. Len(s) = 1 /\ Len(t) = 1 /\ s[1] = a /\ t[1] = b
    OBVIOUS
  <2>2. s \in Seq({a, b}) /\ t \in Seq({a, b})
    BY <1>1
  <2> HIDE DEF s, t
  <2>3. \A i \in 1 .. Len(s) + Len(t) : st[i] = IF i <= Len(s) THEN s[i] ELSE t[i - Len(s)]
    BY <2>2, ConcatProperties
  <2>4. st[1] = s[1] /\ st[2] = t[2 - 1]
    BY <2>1, <2>3
  <2>5. QED
    BY <2>1, <2>4 DEF s, t
<1> DEFINE st == <<a>> \o <<b>>
           u == <<a, b>>
<1>4. /\ st \in Seq({a, b}) /\ u \in Seq({a, b}) /\ Len(st) = 2 /\ Len(u) = 2
      /\ st[1] = u[1] /\ st[2] = u[2]
  BY <1>1, <1>2, <1>3
<1> HIDE DEF st, u
<1>5. \A i \in 1 .. Len(st) : st[i] = u[i]
  BY <1>4
<1>6. st = u
  BY <1>4, <1>5, SeqEqual
<1>7. QED
  BY <1>6 DEF st, u

\* The argument a is right for the parameter p.
Suits(p, a) ==
  /\ a.type = p.type
  /\ a.kind \in {"object", "pure"}
  /\ a.kind = "pure" => p.type \in Plain
  /\ a.kind = "object" /\ p.mode = "val" => a.is \in Owned

LEMMA ArgumentsSuit ==
  ASSUME NEW t, NEW id
  PROVE  /\ Suits(Mut(t), Obj(id, t)) /\ Suits(Ref(t), Obj(id, t))
         /\ id \in Owned => Suits(Val(t), Obj(id, t))
         /\ t \in Plain => Suits(Val(t), Pure(t))
BY DEF Suits, Mut, Ref, Val, Obj, Pure

LEMMA OwnedObjects ==
  {"energyBatchId", "energyCoinId", "usdcCoinId", "feeCoinId"} \subseteq Owned
BY DEF Owned, HandedOut

\* A call whose arguments suit runs, and takes no value another returned.
LEMMA CallRuns ==
  ASSUME NEW f \in DOMAIN Published, f # "transferObjects", NEW ps, NEW as,
         ps = Published[f].params, Len(as) = Len(ps), DOMAIN as = DOMAIN ps,
         \A i \in DOMAIN ps : Suits(ps[i], as[i])
  PROVE  /\ Fits(Call(f, as)) /\ Returned(Call(f, as)) = Published[f].returns
         /\ Returned(Call(f, as)) \in Returnable
         /\ Taken(Call(f, as), "object") \subseteq Owned
         /\ Taken(Call(f, as), "result") = {}
<1> DEFINE cmd == Call(f, as)
<1>1. cmd.call = f /\ cmd.args = as
  BY DEF Call
<1> HIDE DEF cmd
<1>2. Fits(cmd)
  BY <1>1 DEF Fits, Suits
<1>3. Returned(cmd) = Published[f].returns /\ Returned(cmd) \in Returnable
  BY <1>1 DEF Returned, Returnable
<1>4. \A i \in DOMAIN as :
        /\ TakesByValue(cmd, i) /\ as[i].kind = "object" => as[i].is \in Owned
        /\ as[i].kind # "result"
  BY <1>1 DEF TakesByValue, Suits
<1>5. Taken(cmd, "object") \subseteq Owned /\ Taken(cmd, "result") = {}
  BY <1>1, <1>4 DEF Taken
<1>6. QED
  BY <1>2, <1>3, <1>5 DEF cmd

\* What is returned first can be given away.
LEMMA GivingRuns ==
  ASSUME NEW t
  PROVE  /\ Fits(Give(1, t)) /\ Returned(Give(1, t)) = "nothing"
         /\ Returned(Give(1, t)) \in Returnable
         /\ Taken(Give(1, t), "object") = {} /\ Taken(Give(1, t), "result") = {1}
<1> DEFINE cmd == Give(1, t)
<1>1. /\ cmd.call = "transferObjects" /\ DOMAIN cmd.args = {1}
      /\ cmd.args[1].kind = "result" /\ cmd.args[1].is = 1
  BY DEF Give, Result
<1> HIDE DEF cmd
<1>2. Fits(cmd) /\ Returned(cmd) = "nothing" /\ TakesByValue(cmd, 1)
  BY <1>1 DEF Fits, Returned, TakesByValue
<1>3. Taken(cmd, "object") = {}
  BY <1>1 DEF Taken
<1>4. Taken(cmd, "result") = {1}
  BY <1>1, <1>2 DEF Taken
<1>5. QED
  BY <1>2, <1>3, <1>4 DEF cmd, Returnable

\* The calls the builders of layers 3 and 5 make.
LEMMA MintRuns ==
  ASSUME NEW as, as = <<Guard, Meter, Pure("u64"), Pure("u64"), Pure("bytes"),
                    Pure("u8"), Compliance>>
  PROVE  /\ Fits(Call("mint_energy", as)) /\ Returned(Call("mint_energy", as)) = "Coin<ENERGY>"
         /\ Returned(Call("mint_energy", as)) \in Returnable
         /\ Taken(Call("mint_energy", as), "object") \subseteq Owned
         /\ Taken(Call("mint_energy", as), "result") = {}
<1> DEFINE ps == mint_energy.params
<1>1. ps = <<Mut("TreasuryGuard"), Mut("EnergyMeter"), Val("u64"), Val("u64"),
           Val("bytes"), Val("u8"), Ref("ComplianceRegistry")>>
  BY DEF mint_energy, Function
<1>2. /\ "mint_energy" \in DOMAIN Published /\ ps = Published["mint_energy"].params
      /\ Published["mint_energy"].returns = "Coin<ENERGY>"
  BY DEF Published, mint_energy, Function
<1> HIDE DEF ps
<1>3. Len(as) = Len(ps) /\ DOMAIN as = DOMAIN ps /\ DOMAIN ps = 1 .. 7
  BY <1>1
<1>4. ASSUME NEW i \in DOMAIN ps PROVE Suits(ps[i], as[i])
  <2>1. i = 1 \/ i = 2 \/ i = 3 \/ i = 4 \/ i = 5 \/ i = 6 \/ i = 7
    BY <1>3
  <2>2. QED
    BY <1>1, <2>1, ArgumentsSuit, OwnedObjects DEF Guard, Meter, Compliance, Plain
<1>5. QED
  BY <1>2, <1>3, <1>4, CallRuns

\* The redemption.
LEMMA RedeemRuns ==
  ASSUME NEW as, as = <<Guard, Batch, EnergyCoin, Meter, Compliance,
                    Obj("jurisdictionPolicyId", "JurisdictionPolicy"),
                    Obj("redemptionRegistryId", "RedemptionRegistry"),
                    Obj("gridOperatorCapId", "GridOperatorCap"),
                    Obj("billingOperatorCapId", "BillingOperatorCap"),
                    Obj("gridSettlementLedgerId", "GridSettlementLedger"),
                    Pure("bytes"), Pure("u64"), Pure("u64"), Pure("bool"),
                    Pure("u64")>>
  PROVE  /\ Fits(Call("redeem_atomic", as)) /\ Returned(Call("redeem_atomic", as)) = "nothing"
         /\ Returned(Call("redeem_atomic", as)) \in Returnable
         /\ Taken(Call("redeem_atomic", as), "object") \subseteq Owned
         /\ Taken(Call("redeem_atomic", as), "result") = {}
<1> DEFINE ps == redeem_atomic.params
<1>1. ps = <<Mut("TreasuryGuard"), Mut("EnergyBatch"), Val("Coin<ENERGY>"),
           Ref("EnergyMeter"), Ref("ComplianceRegistry"),
           Ref("JurisdictionPolicy"), Mut("RedemptionRegistry"),
           Ref("GridOperatorCap"), Ref("BillingOperatorCap"),
           Mut("GridSettlementLedger"), Val("bytes"), Val("u64"), Val("u64"),
           Val("bool"), Val("u64")>>
  BY DEF redeem_atomic, Function
<1>2. /\ "redeem_atomic" \in DOMAIN Published /\ ps = Published["redeem_atomic"].params
      /\ Published["redeem_atomic"].returns = "nothing"
  BY DEF Published, redeem_atomic, Function
<1> HIDE DEF ps
<1>3. Len(as) = Len(ps) /\ DOMAIN as = DOMAIN ps /\ DOMAIN ps = 1 .. 15
  BY <1>1
<1>4. ASSUME NEW i \in DOMAIN ps PROVE Suits(ps[i], as[i])
  <2>1. i = 1 \/ i = 2 \/ i = 3 \/ i = 4 \/ i = 5 \/ i = 6 \/ i = 7 \/ i = 8
        \/ i = 9 \/ i = 10 \/ i = 11 \/ i = 12 \/ i = 13 \/ i = 14 \/ i = 15
    BY <1>3
  <2>2. QED
    BY <1>1, <2>1, ArgumentsSuit, OwnedObjects DEF Guard, Meter, Compliance, Batch, EnergyCoin, Plain
<1>5. QED
  BY <1>2, <1>3, <1>4, CallRuns

\* The trade in USDC.
LEMMA SettleRuns ==
  ASSUME NEW as, as = <<Obj("marketplaceId", "EnergyMarketplace"), Compliance,
                    Feed, EnergyCoin, Obj("usdcCoinId", "Coin<USDC>"),
                    Pure("u64"), Pure("u64")>>
  PROVE  /\ Fits(Call("settle_native_usdc_entry", as)) /\ Returned(Call("settle_native_usdc_entry", as)) = "nothing"
         /\ Returned(Call("settle_native_usdc_entry", as)) \in Returnable
         /\ Taken(Call("settle_native_usdc_entry", as), "object") \subseteq Owned
         /\ Taken(Call("settle_native_usdc_entry", as), "result") = {}
<1> DEFINE ps == settle_native_usdc_entry.params
<1>1. ps = <<Ref("EnergyMarketplace"), Ref("ComplianceRegistry"),
           Ref("PriceFeed"), Val("Coin<ENERGY>"), Val("Coin<USDC>"),
           Val("u64"), Val("u64")>>
  BY DEF settle_native_usdc_entry, Function
<1>2. /\ "settle_native_usdc_entry" \in DOMAIN Published /\ ps = Published["settle_native_usdc_entry"].params
      /\ Published["settle_native_usdc_entry"].returns = "nothing"
  BY DEF Published, settle_native_usdc_entry, Function
<1> HIDE DEF ps
<1>3. Len(as) = Len(ps) /\ DOMAIN as = DOMAIN ps /\ DOMAIN ps = 1 .. 7
  BY <1>1
<1>4. ASSUME NEW i \in DOMAIN ps PROVE Suits(ps[i], as[i])
  <2>1. i = 1 \/ i = 2 \/ i = 3 \/ i = 4 \/ i = 5 \/ i = 6 \/ i = 7
    BY <1>3
  <2>2. QED
    BY <1>1, <2>1, ArgumentsSuit, OwnedObjects DEF Compliance, Feed, EnergyCoin, Plain
<1>5. QED
  BY <1>2, <1>3, <1>4, CallRuns

\* The price feed, and Pyth's own update before it.
LEMMA SyncRuns ==
  ASSUME NEW as, as = <<Feed, Pure("u64"), Pure("u8"), Pure("u64"), Pure("u64"),
                    Clock>>
  PROVE  /\ Fits(Call("sync_energy_price_feed", as)) /\ Returned(Call("sync_energy_price_feed", as)) = "nothing"
         /\ Returned(Call("sync_energy_price_feed", as)) \in Returnable
         /\ Taken(Call("sync_energy_price_feed", as), "object") \subseteq Owned
         /\ Taken(Call("sync_energy_price_feed", as), "result") = {}
<1> DEFINE ps == sync_energy_price_feed.params
<1>1. ps = <<Mut("PriceFeed"), Val("u64"), Val("u8"), Val("u64"), Val("u64"),
           Ref("Clock")>>
  BY DEF sync_energy_price_feed, Function
<1>2. /\ "sync_energy_price_feed" \in DOMAIN Published /\ ps = Published["sync_energy_price_feed"].params
      /\ Published["sync_energy_price_feed"].returns = "nothing"
  BY DEF Published, sync_energy_price_feed, Function
<1> HIDE DEF ps
<1>3. Len(as) = Len(ps) /\ DOMAIN as = DOMAIN ps /\ DOMAIN ps = 1 .. 6
  BY <1>1
<1>4. ASSUME NEW i \in DOMAIN ps PROVE Suits(ps[i], as[i])
  <2>1. i = 1 \/ i = 2 \/ i = 3 \/ i = 4 \/ i = 5 \/ i = 6
    BY <1>3
  <2>2. QED
    BY <1>1, <2>1, ArgumentsSuit, OwnedObjects DEF Feed, Clock, Plain
<1>5. QED
  BY <1>2, <1>3, <1>4, CallRuns

\* Pyth's update.
LEMMA UpdateRuns ==
  ASSUME NEW as, as = <<Obj("pythStateObject", "pyth::State"), Pure("bytes")>>
  PROVE  /\ Fits(Call("update_price_feeds", as)) /\ Returned(Call("update_price_feeds", as)) = "nothing"
         /\ Returned(Call("update_price_feeds", as)) \in Returnable
         /\ Taken(Call("update_price_feeds", as), "object") \subseteq Owned
         /\ Taken(Call("update_price_feeds", as), "result") = {}
<1> DEFINE ps == update_price_feeds.params
<1>1. ps = <<Mut("pyth::State"), Val("bytes")>>
  BY DEF update_price_feeds, Function
<1>2. /\ "update_price_feeds" \in DOMAIN Published /\ ps = Published["update_price_feeds"].params
      /\ Published["update_price_feeds"].returns = "nothing"
  BY DEF Published, update_price_feeds, Function
<1> HIDE DEF ps
<1>3. Len(as) = Len(ps) /\ DOMAIN as = DOMAIN ps /\ DOMAIN ps = 1 .. 2
  BY <1>1
<1>4. ASSUME NEW i \in DOMAIN ps PROVE Suits(ps[i], as[i])
  <2>1. i = 1 \/ i = 2
    BY <1>3
  <2>2. QED
    BY <1>1, <2>1, ArgumentsSuit, OwnedObjects DEF Feed, Plain
<1>5. QED
  BY <1>2, <1>3, <1>4, CallRuns

\* The bridge.
LEMMA BridgeRuns ==
  ASSUME NEW as, as = <<Batch, Meter, Obj("emitterCapId", "EmitterCap"),
                    WormholeState, FeeCoin, Obj("bridgeWhitelistId",
                    "BridgeWhitelist"), Compliance, Pure("u16"), Clock>>
  PROVE  /\ Fits(Call("bridge_rec_core", as)) /\ Returned(Call("bridge_rec_core", as)) = "BridgeTicket"
         /\ Returned(Call("bridge_rec_core", as)) \in Returnable
         /\ Taken(Call("bridge_rec_core", as), "object") \subseteq Owned
         /\ Taken(Call("bridge_rec_core", as), "result") = {}
<1> DEFINE ps == bridge_rec_core.params
<1>1. ps = <<Val("EnergyBatch"), Ref("EnergyMeter"), Mut("EmitterCap"),
           Mut("wormhole::State"), Val("Coin<SUI>"), Mut("BridgeWhitelist"),
           Ref("ComplianceRegistry"), Val("u16"), Ref("Clock")>>
  BY DEF bridge_rec_core, Function
<1>2. /\ "bridge_rec_core" \in DOMAIN Published /\ ps = Published["bridge_rec_core"].params
      /\ Published["bridge_rec_core"].returns = "BridgeTicket"
  BY DEF Published, bridge_rec_core, Function
<1> HIDE DEF ps
<1>3. Len(as) = Len(ps) /\ DOMAIN as = DOMAIN ps /\ DOMAIN ps = 1 .. 9
  BY <1>1
<1>4. ASSUME NEW i \in DOMAIN ps PROVE Suits(ps[i], as[i])
  <2>1. i = 1 \/ i = 2 \/ i = 3 \/ i = 4 \/ i = 5 \/ i = 6 \/ i = 7 \/ i = 8
        \/ i = 9
    BY <1>3
  <2>2. QED
    BY <1>1, <2>1, ArgumentsSuit, OwnedObjects DEF Batch, Meter, WormholeState, FeeCoin, Compliance, Clock, Plain
<1>5. QED
  BY <1>2, <1>3, <1>4, CallRuns

\* The command after the n-th can run when it fits and those before it do.
Runnable(cmds) ==
  \A i \in 1 .. Len(cmds) :
    (\A j \in 1 .. i : Fits(cmds[j])) =>
      /\ Returned(cmds[i]) \in Returnable
      /\ Taken(cmds[i], "object") \subseteq Owned
      /\ Taken(cmds[i], "result") \subseteq 1 .. i - 1

LEMMA CompleteIsRunnable ==
  ASSUME NEW cmds, Complete(cmds)
  PROVE  Runnable(cmds)
BY DEF Complete, Runnable, RunsTo

LEMMA RunsAndDrops ==
  ASSUME NEW c, Fits(c), Returned(c) \in Returnable, Taken(c, "object") \subseteq Owned,
         Taken(c, "result") = {}
  PROVE  /\ RunsTo(<<c>>, 1) /\ Len(<<c>>) = 1
         /\ Returned(c) \in Droppable => Complete(<<c>>)
<1> DEFINE cs == <<c>>
<1>1. Len(cs) = 1 /\ cs[1] = c
  OBVIOUS
<1> HIDE DEF cs
<1>2. \A i \in 1 .. 1 : i = 1
  OBVIOUS
<1>3. RunsTo(cs, 1)
  BY <1>1, <1>2 DEF RunsTo
<1>4. Returned(c) \in Droppable => Complete(cs)
  BY <1>1, <1>2, <1>3 DEF Complete
<1>5. QED
  BY <1>1, <1>3, <1>4 DEF cs

\* Two commands, of which the second may take what the first returned.
LEMMA TwoRun ==
  ASSUME NEW c, Fits(c), Returned(c) \in Returnable, Taken(c, "object") \subseteq Owned,
         Taken(c, "result") = {},
         NEW d, Fits(d), Returned(d) \in Returnable, Taken(d, "object") \subseteq Owned,
         Taken(d, "result") \subseteq {1},
         Returned(c) \in Droppable \/ 1 \in Taken(d, "result"), Returned(d) \in Droppable
  PROVE  Complete(<<c, d>>) /\ Len(<<c, d>>) = 2
<1> DEFINE cs == <<c, d>>
<1>1. Len(cs) = 2 /\ cs[1] = c /\ cs[2] = d
  OBVIOUS
<1> HIDE DEF cs
<1>2. \A i \in 1 .. 2 : i = 1 \/ i = 2
  OBVIOUS
<1>3. 2 \in 1 .. 2 /\ {1} \subseteq 1 .. 2 - 1
  OBVIOUS
<1>4. RunsTo(cs, 2)
  BY <1>1, <1>2, <1>3 DEF RunsTo
<1>5. Complete(cs)
  BY <1>1, <1>2, <1>3, <1>4 DEF Complete
<1>6. QED
  BY <1>1, <1>5 DEF cs

LEMMA Layer3MintCompletes == Complete(buildLayer3MintPtb) /\ Len(buildLayer3MintPtb) = 2
<1> DEFINE as == <<Guard, Meter, Pure("u64"), Pure("u64"), Pure("bytes"), Pure("u8"), Compliance>>
           c == Call("mint_energy", as)
           d == Give(1, "Coin<ENERGY>")
<1>1. buildLayer3MintPtb = <<c, d>>
  BY TwoInRow DEF buildLayer3MintPtb, MintWithoutTransfer
<1>2. /\ Fits(c) /\ Returned(c) \in Returnable /\ Taken(c, "object") \subseteq Owned
      /\ Taken(c, "result") = {}
  <2> HIDE DEF as
  <2>1. as = <<Guard, Meter, Pure("u64"), Pure("u64"), Pure("bytes"), Pure("u8"), Compliance>>
    BY DEF as
  <2>2. QED
    BY <2>1, MintRuns
<1>3. /\ Fits(d) /\ Returned(d) \in Returnable /\ Taken(d, "object") \subseteq Owned
      /\ Taken(d, "result") = {1} /\ Returned(d) \in Droppable
  BY GivingRuns DEF Droppable
<1> HIDE DEF c, d
<1>4. Complete(<<c, d>>) /\ Len(<<c, d>>) = 2
  BY <1>2, <1>3, TwoRun
<1>5. QED
  BY <1>1, <1>4

LEMMA RedeemCompletes == Complete(buildLayer5RedeemPtb) /\ Len(buildLayer5RedeemPtb) = 1
<1> DEFINE as == <<Guard, Batch, EnergyCoin, Meter, Compliance, Obj("jurisdictionPolicyId", "JurisdictionPolicy"),
             Obj("redemptionRegistryId", "RedemptionRegistry"),
             Obj("gridOperatorCapId", "GridOperatorCap"),
             Obj("billingOperatorCapId", "BillingOperatorCap"),
             Obj("gridSettlementLedgerId", "GridSettlementLedger"),
             Pure("bytes"), Pure("u64"), Pure("u64"), Pure("bool"), Pure("u64")>>
           c == Call("redeem_atomic", as)
<1>1. buildLayer5RedeemPtb = <<c>>
  BY DEF buildLayer5RedeemPtb
<1>2. /\ Fits(c) /\ Returned(c) \in Returnable /\ Taken(c, "object") \subseteq Owned
      /\ Taken(c, "result") = {} /\ Returned(c) \in Droppable
  <2> HIDE DEF as
  <2>1. as = <<Guard, Batch, EnergyCoin, Meter, Compliance, Obj("jurisdictionPolicyId", "JurisdictionPolicy"),
             Obj("redemptionRegistryId", "RedemptionRegistry"),
             Obj("gridOperatorCapId", "GridOperatorCap"),
             Obj("billingOperatorCapId", "BillingOperatorCap"),
             Obj("gridSettlementLedgerId", "GridSettlementLedger"),
             Pure("bytes"), Pure("u64"), Pure("u64"), Pure("bool"), Pure("u64")>>
    BY DEF as
  <2>2. QED
    BY <2>1, RedeemRuns DEF Droppable
<1> HIDE DEF c
<1>3. QED
  BY <1>1, <1>2, RunsAndDrops

LEMMA SettleCompletes == Complete(buildNativeUsdcSettlePtb) /\ Len(buildNativeUsdcSettlePtb) = 1
<1> DEFINE as == <<Obj("marketplaceId", "EnergyMarketplace"), Compliance, Feed, EnergyCoin,
             Obj("usdcCoinId", "Coin<USDC>"), Pure("u64"), Pure("u64")>>
           c == Call("settle_native_usdc_entry", as)
<1>1. buildNativeUsdcSettlePtb = <<c>>
  BY DEF buildNativeUsdcSettlePtb
<1>2. /\ Fits(c) /\ Returned(c) \in Returnable /\ Taken(c, "object") \subseteq Owned
      /\ Taken(c, "result") = {} /\ Returned(c) \in Droppable
  <2> HIDE DEF as
  <2>1. as = <<Obj("marketplaceId", "EnergyMarketplace"), Compliance, Feed, EnergyCoin,
             Obj("usdcCoinId", "Coin<USDC>"), Pure("u64"), Pure("u64")>>
    BY DEF as
  <2>2. QED
    BY <2>1, SettleRuns DEF Droppable
<1> HIDE DEF c
<1>3. QED
  BY <1>1, <1>2, RunsAndDrops

LEMMA PythCompletes ==
  ASSUME NEW bytes \in BOOLEAN
  PROVE  Complete(buildPythUpdatePtb(bytes)) /\ Len(buildPythUpdatePtb(bytes)) \in {1, 2}
<1> DEFINE as == <<Feed, Pure("u64"), Pure("u8"), Pure("u64"), Pure("u64"), Clock>>
           us == <<Obj("pythStateObject", "pyth::State"), Pure("bytes")>>
           c == Call("sync_energy_price_feed", as)
           u == Call("update_price_feeds", us)
<1>1. buildPythUpdatePtb(bytes) = (IF bytes THEN <<u>> ELSE <<>>) \o <<c>>
  BY DEF buildPythUpdatePtb
<1>2. /\ Fits(c) /\ Returned(c) \in Returnable /\ Taken(c, "object") \subseteq Owned
      /\ Taken(c, "result") = {} /\ Returned(c) \in Droppable
  <2> HIDE DEF as
  <2>1. as = <<Feed, Pure("u64"), Pure("u8"), Pure("u64"), Pure("u64"), Clock>>
    BY DEF as
  <2>2. QED
    BY <2>1, SyncRuns DEF Droppable
<1>3. /\ Fits(u) /\ Returned(u) \in Returnable /\ Taken(u, "object") \subseteq Owned
      /\ Taken(u, "result") = {} /\ Returned(u) \in Droppable
  <2> HIDE DEF us
  <2>1. us = <<Obj("pythStateObject", "pyth::State"), Pure("bytes")>>
    BY DEF us
  <2>2. QED
    BY <2>1, UpdateRuns DEF Droppable
<1> HIDE DEF c, u
<1>4. CASE bytes
  <2>1. buildPythUpdatePtb(bytes) = <<u, c>>
    BY <1>1, <1>4, TwoInRow
  <2>2. Complete(<<u, c>>) /\ Len(<<u, c>>) = 2
    BY <1>2, <1>3, TwoRun
  <2>3. QED
    BY <2>1, <2>2
<1>5. CASE ~bytes
  <2>1. <<c>> \in Seq({c})
    OBVIOUS
  <2>2. buildPythUpdatePtb(bytes) = <<c>>
    BY <1>1, <1>5, <2>1, ConcatEmptySeq
  <2>3. Complete(<<c>>) /\ Len(<<c>>) = 1
    BY <1>2, RunsAndDrops
  <2>4. QED
    BY <2>2, <2>3
<1>6. QED
  BY <1>4, <1>5

LEMMA WormholeRecRuns == Runnable(buildWormholeRecPtb) /\ Len(buildWormholeRecPtb) = 1
<1> DEFINE as == <<Batch, Meter, Obj("emitterCapId", "EmitterCap"), WormholeState, FeeCoin,
                   Obj("bridgeWhitelistId", "BridgeWhitelist"), Compliance, Pure("u16"), Clock>>
           c == Call("bridge_rec_core", as)
<1>1. buildWormholeRecPtb = <<c>>
  BY DEF buildWormholeRecPtb
<1>2. /\ Fits(c) /\ Returned(c) \in Returnable /\ Taken(c, "object") \subseteq Owned
      /\ Taken(c, "result") = {}
  <2> HIDE DEF as
  <2>1. as = <<Batch, Meter, Obj("emitterCapId", "EmitterCap"), WormholeState, FeeCoin,
               Obj("bridgeWhitelistId", "BridgeWhitelist"), Compliance, Pure("u16"), Clock>>
    BY DEF as
  <2>2. QED
    BY <2>1, BridgeRuns
<1> HIDE DEF c
<1>3. RunsTo(<<c>>, 1) /\ Len(<<c>>) = 1
  BY <1>2, RunsAndDrops
<1>4. QED
  BY <1>1, <1>3 DEF Runnable, RunsTo

\* A builder whose first command fits nothing runs none.
LEMMA MisfitIsRunnable ==
  ASSUME NEW cmds, ~Fits(cmds[1])
  PROVE  Runnable(cmds)
BY DEF Runnable

\* What it passes for a ticket is an object, and no object is one.
LEMMA PublishOnlyRuns == Runnable(buildWormholePublishOnlyPtb) /\ Len(buildWormholePublishOnlyPtb) = 1
<1> DEFINE as == <<WormholeState, FeeCoin, Obj("ticketId", "no object"), Clock>>
           c == Call("publish_message", as)
<1>1. buildWormholePublishOnlyPtb = <<c>>
  BY DEF buildWormholePublishOnlyPtb
<1>2. as[3].type = "no object" /\ c.args = as /\ c.call = "publish_message"
  BY DEF Obj, Call
<1>3. /\ Published["publish_message"].params[3].type = "MessageTicket"
      /\ 3 \in DOMAIN Published["publish_message"].params
  BY DEF Published, publish_message, Function, Mut, Val, Ref
<1> HIDE DEF c, as
<1>4. ~Fits(c)
  BY <1>2, <1>3 DEF Fits
<1>5. QED
  BY <1>1, <1>4, MisfitIsRunnable

\* Layer 2's first call has other arguments than its function.
LEMMA Layer2MintRuns ==
  ASSUME NEW z \in BOOLEAN, NEW k \in BOOLEAN
  PROVE  Runnable(buildMintPtb(z, k)) /\ Len(buildMintPtb(z, k)) = 6
<1> DEFINE zs == <<Devices, Processed, L2Meter, Zk, Pure("bytes"), Pure("bytes")>>
           vs == <<L2Meter, Devices, Processed, Pure("bytes"), Pure("u64"), Pure("u64"), Pure("bytes")>>
           c == buildMintPtb(z, k)[1]
<1>1. /\ Len(buildMintPtb(z, k)) = 6
      /\ c = IF z /\ k THEN Call("verify_reading_with_zk", zs) ELSE Call("verify_reading", vs)
  BY DEF buildMintPtb
<1>2. Len(Published["verify_reading_with_zk"].params) = 13 /\ Len(Published["verify_reading"].params) = 4
  BY DEF Published, verify_reading, verify_reading_with_zk, Function
<1>3. Len(zs) = 6 /\ Len(vs) = 7
  OBVIOUS
<1> HIDE DEF zs, vs
<1>4. CASE z /\ k
  <2>1. c.call = "verify_reading_with_zk" /\ c.args = zs
    BY <1>1, <1>4 DEF Call
  <2> HIDE DEF c
  <2>2. Len(c.args) # Len(Published[c.call].params)
    BY <1>2, <1>3, <2>1, Lengths, Zenon
  <2>3. c.call # "transferObjects"
    BY <2>1
  <2>4. ~Fits(c)
    BY <2>2, <2>3 DEF Fits
  <2>5. QED
    BY <1>1, <2>4, MisfitIsRunnable DEF c
<1>5. CASE ~(z /\ k)
  <2>1. c.call = "verify_reading" /\ c.args = vs
    BY <1>1, <1>5 DEF Call
  <2> HIDE DEF c
  <2>2. Len(c.args) # Len(Published[c.call].params)
    BY <1>2, <1>3, <2>1, Lengths, Zenon
  <2>3. c.call # "transferObjects"
    BY <2>1
  <2>4. ~Fits(c)
    BY <2>2, <2>3 DEF Fits
  <2>5. QED
    BY <1>1, <2>4, MisfitIsRunnable DEF c
<1>6. QED
  BY <1>4, <1>5

\* The commands of every builder.
LEMMA BuildersRun ==
  ASSUME NEW b \in Builders
  PROVE  /\ Runnable(Commands(b)) /\ Len(Commands(b)) \in 1 .. 6
         /\ b.ptb \in {"layer 3 mint", "redeem", "usdc", "pyth"} => Complete(Commands(b))
<1>1. /\ b.ptb \in {"layer 3 mint", "redeem", "usdc", "rec", "publish only", "pyth", "layer 2 mint"}
      /\ b.zk \in BOOLEAN /\ b.option \in BOOLEAN
  BY DEF Builders
<1>2. CASE b.ptb = "layer 3 mint"
  <2> DEFINE cs == buildLayer3MintPtb
  <2>1. Commands(b) = cs
    BY <1>2 DEF Commands
  <2>2. Runnable(cs) /\ Complete(cs)
    BY <1>1, Layer3MintCompletes, CompleteIsRunnable
  <2>3. Len(cs) \in 1 .. 6
    BY Lengths, Layer3MintCompletes, Zenon
  <2>4. QED
    BY <1>2, <2>1, <2>2, <2>3
<1>3. CASE b.ptb = "redeem"
  <2> DEFINE cs == buildLayer5RedeemPtb
  <2>1. Commands(b) = cs
    BY <1>3 DEF Commands
  <2>2. Runnable(cs) /\ Complete(cs)
    BY <1>1, RedeemCompletes, CompleteIsRunnable
  <2>3. Len(cs) \in 1 .. 6
    BY Lengths, RedeemCompletes, Zenon
  <2>4. QED
    BY <1>3, <2>1, <2>2, <2>3
<1>4. CASE b.ptb = "usdc"
  <2> DEFINE cs == buildNativeUsdcSettlePtb
  <2>1. Commands(b) = cs
    BY <1>4 DEF Commands
  <2>2. Runnable(cs) /\ Complete(cs)
    BY <1>1, SettleCompletes, CompleteIsRunnable
  <2>3. Len(cs) \in 1 .. 6
    BY Lengths, SettleCompletes, Zenon
  <2>4. QED
    BY <1>4, <2>1, <2>2, <2>3
<1>5. CASE b.ptb = "rec"
  <2> DEFINE cs == buildWormholeRecPtb
  <2>1. Commands(b) = cs
    BY <1>5 DEF Commands
  <2>2. Runnable(cs)
    BY <1>1, WormholeRecRuns
  <2>3. Len(cs) \in 1 .. 6
    BY Lengths, WormholeRecRuns, Zenon
  <2>4. QED
    BY <1>5, <2>1, <2>2, <2>3
<1>6. CASE b.ptb = "publish only"
  <2> DEFINE cs == buildWormholePublishOnlyPtb
  <2>1. Commands(b) = cs
    BY <1>6 DEF Commands
  <2>2. Runnable(cs)
    BY <1>1, PublishOnlyRuns
  <2>3. Len(cs) \in 1 .. 6
    BY Lengths, PublishOnlyRuns, Zenon
  <2>4. QED
    BY <1>6, <2>1, <2>2, <2>3
<1>7. CASE b.ptb = "pyth"
  <2> DEFINE cs == buildPythUpdatePtb(b.option)
  <2>1. Commands(b) = cs
    BY <1>7 DEF Commands
  <2>2. Runnable(cs) /\ Complete(cs)
    BY <1>1, PythCompletes, CompleteIsRunnable
  <2>3. Len(cs) \in 1 .. 6
    BY <1>1, Lengths, PythCompletes, Zenon
  <2>4. QED
    BY <1>7, <2>1, <2>2, <2>3
<1>8. CASE b.ptb = "layer 2 mint"
  <2> DEFINE cs == buildMintPtb(b.zk, b.option)
  <2>1. Commands(b) = cs
    BY <1>8 DEF Commands
  <2>2. Runnable(cs)
    BY <1>1, Layer2MintRuns
  <2>3. Len(cs) \in 1 .. 6
    BY Lengths, Layer2MintRuns, <1>1, Zenon
  <2>4. QED
    BY <1>8, <2>1, <2>2, <2>3
<1>9. QED
  BY <1>1, <1>2, <1>3, <1>4, <1>5, <1>6, <1>7, <1>8

-----------------------------------------------------------------------------
(* The steps.                                                              *)

LEMMA CallsInvStarts == CallsInit => CallsInv
<1> SUFFICES ASSUME CallsInit PROVE CallsInv
  OBVIOUS
<1>1. owner \in [Owned -> People]
  BY CallsAssumption DEF CallsInit, Owned, HandedOut, CapsTo
<1>2. given = <<>> /\ Len(given) = 0 /\ given \in Seq(Returnable) /\ step = 1
  BY DEF CallsInit
<1>3. CallsTypeOK
  BY <1>1, <1>2 DEF CallsInit, CallsTypeOK, Verdicts
<1>4. Len(given) = step - 1
  BY <1>2
<1>5. verdict # "running" /\ WellBuilt
  BY DEF CallsInit, WellBuilt, By
<1>6. QED
  BY <1>2, <1>3, <1>4, <1>5 DEF CallsInv

LEMMA RunKeepsCallsInv ==
  ASSUME CallsInv, Run
  PROVE  CallsInv'
<1> DEFINE cs == Commands(builder)
           c == cs[step]
<1>1. /\ verdict = "running" /\ step <= Len(cs) /\ Fits(c)
      /\ given' = Append(given, Returned(c)) /\ moved' = moved \cup Taken(c, "object")
      /\ used' = used \cup Taken(c, "result") /\ step' = step + 1
      /\ UNCHANGED <<owner, gone, sender, builder, verdict>>
  BY DEF Run, Command
<1>2. /\ CallsTypeOK /\ given \in Seq(Returnable) /\ Len(given) = step - 1
      /\ builder \in Builders /\ sender \in People /\ Progress(cs)
  BY <1>1 DEF CallsInv
<1>3. Runnable(cs) /\ Len(cs) \in 1 .. 6
  BY <1>2, BuildersRun
<1> HIDE DEF cs, c
<1>4. step \in 1 .. 7 /\ step \in 1 .. Len(cs) /\ step + 1 \in 1 .. 7
  <2>1. step \in 1 .. 7
    BY <1>2 DEF CallsTypeOK
  <2> DEFINE n == Len(cs)
  <2>2. n \in 1 .. 6 /\ step <= n
    BY <1>1, <1>3
  <2> HIDE DEF n
  <2>3. step \in 1 .. n /\ step + 1 \in 1 .. 7
    BY <2>1, <2>2
  <2>4. QED
    BY <2>1, <2>3 DEF n
<1>5. \A i \in 1 .. step : Fits(cs[i])
  <2>1. RunsTo(cs, step - 1)
    BY <1>2 DEF Progress
  <2>2. \A i \in 1 .. step : i = step \/ i \in 1 .. step - 1
    BY <1>4
  <2>3. QED
    BY <1>1, <2>1, <2>2 DEF RunsTo, c
<1>6. /\ Returned(c) \in Returnable /\ Taken(c, "object") \subseteq Owned
      /\ Taken(c, "result") \subseteq 1 .. step - 1
  BY <1>3, <1>4, <1>5 DEF Runnable, c
<1>7. RunsTo(cs, step)
  <2>1. RunsTo(cs, step - 1)
    BY <1>2 DEF Progress
  <2>2. \A i \in 1 .. step : i = step \/ i \in 1 .. step - 1
    BY <1>4
  <2>3. QED
    BY <1>1, <1>6, <2>1, <2>2 DEF RunsTo, c
<1>8. /\ given' \in Seq(Returnable) /\ Len(given') = step /\ given'[step] = Returned(c)
      /\ \A i \in 1 .. step - 1 : given'[i] = given[i]
  <2>1. given \in Seq(Returnable) /\ Returned(c) \in Returnable
    BY <1>2, <1>6
  <2>2. /\ Append(given, Returned(c)) \in Seq(Returnable)
        /\ Len(Append(given, Returned(c))) = Len(given) + 1
        /\ \A i \in 1 .. Len(given) : Append(given, Returned(c))[i] = given[i]
        /\ Append(given, Returned(c))[Len(given) + 1] = Returned(c)
    BY <2>1, AppendProperties
  <2>3. Len(given) = step - 1 /\ Len(given) + 1 = step
    BY <1>2, <1>4
  <2>4. QED
    BY <1>1, <2>2, <2>3
<1>9. given' = [i \in 1 .. step |-> Returned(cs[i])]
  <2>1. given = [i \in 1 .. step - 1 |-> Returned(cs[i])]
    BY <1>2 DEF Progress
  <2>2. DOMAIN given' = 1 .. step /\ given' = [i \in DOMAIN given' |-> given'[i]]
    BY <1>8, LenProperties
  <2>3. \A i \in 1 .. step : given'[i] = Returned(cs[i])
    <3>1. \A i \in 1 .. step : i = step \/ i \in 1 .. step - 1
      BY <1>4
    <3>2. \A i \in 1 .. step - 1 : given[i] = Returned(cs[i])
      BY <2>1
    <3>3. QED
      BY <1>8, <3>1, <3>2 DEF c
  <2>4. QED
    BY <2>2, <2>3
<1>10. used' = UNION {Taken(cs[i], "result") : i \in 1 .. step}
  <2>1. used = UNION {Taken(cs[i], "result") : i \in 1 .. step - 1}
    BY <1>2 DEF Progress
  <2>2. 1 .. step = (1 .. step - 1) \cup {step}
    BY <1>4
  <2>3. QED
    BY <1>1, <2>1, <2>2 DEF c
<1>11. Progress(cs)'
  <2>1. cs' = cs /\ step' - 1 = step /\ step' <= Len(cs) + 1
    BY <1>1, <1>3, <1>4 DEF cs
  <2>2. /\ given' = [i \in 1 .. step' - 1 |-> Returned(cs[i])]
        /\ used' = UNION {Taken(cs[i], "result") : i \in 1 .. step' - 1}
        /\ RunsTo(cs, step' - 1)
    BY <1>7, <1>9, <1>10, <2>1
  <2>3. QED
    BY <2>1, <2>2 DEF Progress
<1>12. CallsTypeOK'
  <2>1. used' \subseteq DOMAIN given'
    <3>1. used \subseteq 1 .. step - 1 /\ DOMAIN given' = 1 .. step
      BY <1>2, <1>8, LenProperties DEF CallsTypeOK
    <3>2. 1 .. step - 1 \subseteq 1 .. step
      BY <1>4
    <3>3. QED
      BY <1>1, <1>6, <3>1, <3>2
  <2>2. step' \in 1 .. 7 /\ Len(given') < step' /\ moved' \subseteq Owned
    BY <1>1, <1>2, <1>4, <1>6, <1>8 DEF CallsTypeOK
  <2>3. QED
    BY <1>1, <1>2, <2>1, <2>2 DEF CallsTypeOK
<1>13. Len(given') = step' - 1
  BY <1>1, <1>4, <1>8
<1>14. WellBuilt'
  BY <1>1 DEF WellBuilt, By
<1>15. QED
  BY <1>1, <1>2, <1>8, <1>11, <1>12, <1>13, <1>14 DEF CallsInv, cs

\* A transaction that stops for its form is of another builder.
LEMMA AbortKeepsCallsInv ==
  ASSUME CallsInv, Abort
  PROVE  CallsInv'
<1> DEFINE cs == Commands(builder)
<1>1. verdict = "running" /\ step <= Len(cs)
  BY DEF Abort
<1>2. /\ CallsTypeOK /\ builder \in Builders /\ Progress(cs) /\ step \in 1 .. Len(cs)
  BY <1>1 DEF CallsInv, CallsTypeOK
<1>3. PICK why \in {"misfit", "not held", "aborted"} :
        StopCalls(why) /\ (why = "misfit" => ~Fits(cs[step]))
  BY DEF Abort, Command
<1>4. CallsTypeOK'
  BY <1>2, <1>3 DEF StopCalls, CallsTypeOK, Verdicts
<1>5. WellBuilt'
  <2>1. ASSUME By("layer 3 mint") \/ By("redeem") \/ By("usdc") \/ By("pyth")
        PROVE  Fits(cs[step])
    BY <1>2, <2>1, BuildersRun DEF By, Complete, RunsTo
  <2>2. verdict' = why /\ builder' = builder
    BY <1>3 DEF StopCalls
  <2>3. QED
    BY <1>3, <2>1, <2>2 DEF WellBuilt, By
<1>6. QED
  BY <1>3, <1>4, <1>5 DEF StopCalls, CallsInv

LEMMA FinishKeepsCallsInv ==
  ASSUME CallsInv, Finish
  PROVE  CallsInv'
<1> DEFINE cs == Commands(builder)
<1>1. verdict = "running" /\ step > Len(cs)
  BY DEF Finish
<1>2. CallsTypeOK /\ builder \in Builders /\ Progress(cs) /\ Len(cs) \in 1 .. 6 /\ step \in 1 .. 7
  BY <1>1, BuildersRun DEF CallsInv, CallsTypeOK
<1>3. \/ LeftOver # {} /\ StopCalls("value left over")
      \/ /\ gone' = gone \cup moved /\ verdict' = "executed" /\ sender' = Nobody
         /\ UNCHANGED <<owner, builder, step, given, moved, used>>
  BY DEF Finish
<1>4. CallsTypeOK'
  BY <1>2, <1>3 DEF StopCalls, CallsTypeOK, Verdicts
<1>5. WellBuilt'
  <2>1. ASSUME By("layer 3 mint") \/ By("redeem") \/ By("usdc") \/ By("pyth")
        PROVE  LeftOver = {}
    <3>1. Complete(cs)
      BY <1>2, <2>1, BuildersRun DEF By
    <3> HIDE DEF cs
    <3>2. step - 1 = Len(cs)
      BY <1>1, <1>2 DEF Progress
    <3>3. /\ given = [i \in 1 .. Len(cs) |-> Returned(cs[i])]
          /\ used = UNION {Taken(cs[i], "result") : i \in 1 .. Len(cs)}
      BY <1>2, <3>2 DEF Progress
    <3>4. \A i \in 1 .. Len(cs) : given[i] \in Droppable \/ i \in used
      BY <3>1, <3>3 DEF Complete
    <3>5. QED
      BY <3>3, <3>4 DEF LeftOver
  <2>2. builder' = builder /\ verdict' \in {"executed", "value left over"}
        /\ (verdict' = "value left over" => LeftOver # {})
    BY <1>3 DEF StopCalls
  <2>3. QED
    BY <2>1, <2>2 DEF WellBuilt, By
<1>6. QED
  BY <1>3, <1>4, <1>5 DEF StopCalls, CallsInv

LEMMA CallsInvSteps == CallsInv /\ [CallsNext]_callsVars => CallsInv'
<1> SUFFICES ASSUME CallsInv, [CallsNext]_callsVars PROVE CallsInv'
  OBVIOUS
<1>1. CASE UNCHANGED callsVars
  <2>1. UNCHANGED <<owner, gone, sender, builder, step, given, moved, used, verdict>>
    BY <1>1 DEF callsVars
  <2>2. CallsTypeOK'
    BY <2>1 DEF CallsInv, CallsTypeOK
  <2>3. WellBuilt'
    BY <2>1 DEF CallsInv, WellBuilt, By
  <2>4. Progress(Commands(builder)) => Progress(Commands(builder))'
    <3> DEFINE cs == Commands(builder)
    <3>1. cs' = cs
      BY <2>1
    <3>2. QED
      BY <2>1 DEF Progress
  <2>5. QED
    BY <2>1, <2>2, <2>3, <2>4 DEF CallsInv
<1>2. ASSUME NEW o \in Owned, NEW p \in People, HandOn(o, p) PROVE CallsInv'
  <2>1. owner' \in [Owned -> People] /\ verdict' = verdict /\ verdict # "running"
    BY <1>2 DEF HandOn, CallsInv, CallsTypeOK
  <2>2. CallsTypeOK'
    BY <1>2, <2>1 DEF HandOn, CallsInv, CallsTypeOK
  <2>3. QED
    BY <1>2, <2>1, <2>2 DEF HandOn, CallsInv, WellBuilt, By
<1>3. ASSUME NEW p \in People, NEW b \in Builders, Build(p, b) PROVE CallsInv'
  <2>1. /\ sender' = p /\ builder' = b /\ step' = 1 /\ given' = <<>> /\ moved' = {} /\ used' = {}
        /\ verdict' = "running" /\ UNCHANGED <<owner, gone>>
    BY <1>3 DEF Build
  <2>2. given' \in Seq(Returnable) /\ Len(given') = 0 /\ 1 .. step' - 1 = {}
    BY <2>1
  <2>3. p # Nobody
    BY CallsAssumption
  <2>4. CallsTypeOK'
    <3>1. owner' \in [Owned -> People] /\ gone' \subseteq Owned
      BY <2>1 DEF CallsInv, CallsTypeOK
    <3>2. step' \in 1 .. 7 /\ Len(given') < step' /\ used' \subseteq DOMAIN given'
      BY <2>1, <2>2
    <3>3. (sender' = Nobody) = (verdict' # "running")
      BY <2>1, <2>3
    <3>4. QED
      BY <2>1, <3>1, <3>2, <3>3 DEF CallsTypeOK, Verdicts
  <2>5. Progress(Commands(builder))'
    <3> DEFINE cs == Commands(b)
    <3>1. Commands(builder)' = cs /\ Len(cs) \in 1 .. 6
      BY <2>1, BuildersRun
    <3> HIDE DEF cs
    <3>2. step' <= Len(cs) + 1 /\ 1 .. step' - 1 = {}
      BY <2>1, <2>2, <3>1
    <3>3. /\ given' = [i \in 1 .. step' - 1 |-> Returned(cs[i])]
          /\ used' = UNION {Taken(cs[i], "result") : i \in 1 .. step' - 1}
          /\ RunsTo(cs, step' - 1)
      BY <2>1, <3>2 DEF RunsTo
    <3>4. QED
      BY <3>1, <3>2, <3>3 DEF Progress
  <2>6. WellBuilt' /\ Len(given') = step' - 1
    BY <2>1, <2>2 DEF WellBuilt
  <2>7. QED
    BY <2>1, <2>2, <2>4, <2>5, <2>6 DEF CallsInv
<1>4. CASE Run
  BY <1>4, RunKeepsCallsInv
<1>5. CASE Abort
  BY <1>5, AbortKeepsCallsInv
<1>6. CASE Finish
  BY <1>6, FinishKeepsCallsInv
<1>7. QED
  BY <1>1, <1>2, <1>3, <1>4, <1>5, <1>6 DEF CallsNext

\* What layer 2's builder names is on its list, with zero knowledge and without.
LEMMA Layer2MintIsListed ==
  ASSUME NEW z \in BOOLEAN, NEW k \in BOOLEAN, NEW i \in DOMAIN buildMintPtb(z, k),
         NEW j \in DOMAIN buildMintPtb(z, k)[i].args,
         buildMintPtb(z, k)[i].args[j].kind = "object"
  PROVE  buildMintPtb(z, k)[i].args[j].is \in listRequiredSharedObjects(k)
<1> DEFINE zs == <<Devices, Processed, L2Meter, Zk, Pure("bytes"), Pure("bytes")>>
           vs == <<L2Meter, Devices, Processed, Pure("bytes"), Pure("u64"), Pure("u64"), Pure("bytes")>>
           ps == <<Result(1, "ReadingProof"), L2Compliance, Blacklist, L2Meter>>
           ms == <<TreasuryCap, L2Meter, Pure("u64"), Pure("bytes")>>
           gs == <<Result(3, "Coin<ENERGY>")>>
           is == <<L2Meter, Pure("u64"), Pure("u8")>>
           fs == <<Result(1, "ReadingProof"), L2Compliance, Blacklist, L2Meter, Pure("addresses"),
                   Pure("option<bytes>")>>
           as == buildMintPtb(z, k)[i].args
           listed == {"deviceRegistryId", "processedAttestationsId", "energyMeterId",
                      "complianceRegistryId", "jurisdictionBlacklistId", "treasuryCapId"}
<1>1. listed \subseteq listRequiredSharedObjects(k) /\ (k => "zkRegistryId" \in listRequiredSharedObjects(k))
  BY DEF listRequiredSharedObjects, ListedAlways
<1>2. (as = zs /\ k) \/ as = vs \/ as = ps \/ as = ms \/ as = gs \/ as = is \/ as = fs
  <2>1. i = 1 \/ i = 2 \/ i = 3 \/ i = 4 \/ i = 5 \/ i = 6
    BY DEF buildMintPtb
  <2>2. QED
    BY <2>1 DEF buildMintPtb, Call, Give
<1> HIDE DEF as
<1>3. j \in DOMAIN as /\ as[j].kind = "object"
  BY DEF as
<1>4. ASSUME as = zs, k PROVE as[j].is \in listed \cup {"zkRegistryId"}
  BY <1>3, <1>4 DEF Devices, Processed, L2Meter, Zk, Pure, Obj
<1>5. ASSUME as = vs PROVE as[j].is \in listed
  BY <1>3, <1>5 DEF Devices, Processed, L2Meter, Pure, Obj
<1>6. ASSUME as = ms PROVE as[j].is \in listed
  BY <1>3, <1>6 DEF TreasuryCap, L2Meter, Pure, Obj
<1>7. ASSUME as = gs PROVE as[j].is \in listed
  BY <1>3, <1>7 DEF Result
<1>8. ASSUME as = is PROVE as[j].is \in listed
  BY <1>3, <1>8 DEF L2Meter, Pure, Obj
<1>9. ASSUME as = ps PROVE as[j].is \in listed
  BY <1>3, <1>9 DEF L2Compliance, Blacklist, L2Meter, Obj, Result
<1>10. ASSUME as = fs PROVE as[j].is \in listed
  BY <1>3, <1>10 DEF L2Compliance, Blacklist, L2Meter, Pure, Obj, Result
<1>11. QED
  BY <1>1, <1>2, <1>4, <1>5, <1>6, <1>7, <1>8, <1>9, <1>10 DEF as

\* Whoever holds the objects and whoever hands them on, a built mint,
\* redemption, settlement or price update is never refused for its form, and
\* layer 2's mint names only objects of its list (the buildPtb functions of
\* layers 2, 3 and 5 against the Move functions).
THEOREM BuiltCallsFit == CallsSpec => []CallsSafe
<1>1. CallsInv => CallsSafe
  <2>1. ASSUME CallsInv PROVE UsedAreListed
    <3>1. builder \in Builders \cup {Nobody}
      BY <2>1 DEF CallsInv, CallsTypeOK
    <3>2. ASSUME By("layer 2 mint")
          PROVE  builder \in Builders /\ Commands(builder) = buildMintPtb(builder.zk, builder.option)
                 /\ builder.zk \in BOOLEAN /\ builder.option \in BOOLEAN
      BY <3>1, <3>2 DEF By, Commands, Builders
    <3>3. QED
      BY <3>2, Layer2MintIsListed DEF UsedAreListed
  <2>2. QED
    BY <2>1 DEF CallsInv, CallsSafe
<1>2. QED
  BY <1>1, CallsInvStarts, CallsInvSteps, PTL DEF CallsSpec
=============================================================================
