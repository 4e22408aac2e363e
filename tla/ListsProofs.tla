------------------------------ MODULE ListsProofs ------------------------------
(***************************************************************************)
(* What such a loop returns, for slices of any length.                     *)
(***************************************************************************)
EXTENDS Lists, Integers, FiniteSetTheorems, WellFoundedInduction, SequenceTheorems, TLAPS

(* Induction, in the form of its least counterexample. *)
LEMMA LeastNumber ==
    ASSUME NEW T, T \subseteq Nat, T # {}
    PROVE  \E n \in T : \A m \in T : n <= m
<1> DEFINE R == StrictSubsetOrdering(Int)
           F == FiniteSubsetsOf(Int)
           B == {1 .. n : n \in T}
<1>1. IsWellFoundedOn(R, F)
  BY FS_StrictSubsetOrderingWellFounded
<1>2. B \subseteq F /\ B # {}
  <2>1. \A n \in T : 1 .. n \in SUBSET Int /\ IsFiniteSet(1 .. n)
    BY FS_Interval
  <2>2. QED
    BY <2>1 DEF FiniteSubsetsOf
<1>3. \E x \in B : \A y \in B : ~(<<y, x>> \in R)
  <2> HIDE DEF R, F, B
  <2>1. QED
    BY <1>1, <1>2, WFMin
<1>4. PICK n \in T : \A m \in T : ~(<<1 .. m, 1 .. n>> \in R)
  BY <1>3
<1>5. ASSUME NEW m \in T, m < n PROVE FALSE
  <2>1. 1 .. m \subseteq 1 .. n /\ n \in 1 .. n /\ n \notin 1 .. m
    BY <1>5
  <2>2. <<1 .. m, 1 .. n>> \in R
    BY <2>1 DEF StrictSubsetOrdering
  <2>3. QED
    BY <1>4, <2>2
<1>6. QED
  BY <1>5

-----------------------------------------------------------------------------
(* The fold is a function on sets of positions, which exists. *)

Grown(s, K, t, k) == IF k \in K THEN Append(t, s[k]) ELSE t

Folding(s, K, n, f) ==
    f = [S \in SUBSET (1 .. n) |-> IF S = {} THEN <<>>
                                   ELSE Grown(s, K, f[S \ {Max(S)}], Max(S))]

LEMMA MaxOf ==
    ASSUME NEW n \in Nat, NEW S, S \subseteq 1 .. n, n \in S
    PROVE  Max(S) = n
<1>1. \A x \in S : (\A y \in S : x >= y) <=> x = n
  OBVIOUS
<1>2. Max(S) = CHOOSE x \in S : x = n
  BY <1>1 DEF Max
<1>3. QED
  BY <1>2

LEMMA MaxIn ==
    ASSUME NEW n \in Nat, NEW S \in SUBSET (1 .. n), S # {}
    PROVE  Max(S) \in S
<1> DEFINE T == {m \in 0 .. n : \A k \in S : k <= m}
<1>1. PICK m \in T : \A k \in T : m <= k
  <2>1. T \subseteq Nat /\ n \in T
    OBVIOUS
  <2> HIDE DEF T
  <2>2. QED
    BY <2>1, LeastNumber
<1>2. m \in S
  <2> SUFFICES ASSUME m \notin S PROVE FALSE
    OBVIOUS
  <2>1. PICK j \in S : TRUE
    OBVIOUS
  <2>2. j \in 1 .. n /\ j <= m /\ \A k \in S : k \in Int /\ k <= m /\ k # m
    BY <2>1
  <2>3. m - 1 \in 0 .. n /\ \A k \in S : k <= m - 1
    BY <2>2
  <2>4. QED
    BY <1>1, <2>3
<1>3. \A k \in S : m >= k
  OBVIOUS
<1>4. QED
  BY <1>2, <1>3 DEF Max

LEMMA FoldingExists ==
    ASSUME NEW s, NEW K, NEW n \in Nat
    PROVE  \E f : Folding(s, K, n, f)
<1> DEFINE T == {m \in Nat : ~\E f : Folding(s, K, m, f)}
<1> SUFFICES ASSUME T # {} PROVE FALSE
  OBVIOUS
<1>1. PICK m \in T : \A k \in T : m <= k
  BY LeastNumber
<1>2. m # 0
  <2> DEFINE f == [S \in SUBSET (1 .. 0) |-> <<>>]
  <2>1. \A S \in SUBSET (1 .. 0) : S = {}
    OBVIOUS
  <2>2. Folding(s, K, 0, f)
    BY <2>1 DEF Folding
  <2>3. QED
    BY <2>2
<1>3. PICK g : Folding(s, K, m - 1, g)
  BY <1>1, <1>2
<1> DEFINE f == [S \in SUBSET (1 .. m) |->
                   IF m \in S THEN Grown(s, K, g[S \ {m}], m) ELSE g[S]]
<1>4. ASSUME NEW S \in SUBSET (1 .. m)
      PROVE  f[S] = IF S = {} THEN <<>> ELSE Grown(s, K, f[S \ {Max(S)}], Max(S))
  <2>1. CASE m \in S
    <3>1. Max(S) = m /\ S # {}
      BY <2>1, MaxOf
    <3>2. f[S \ {m}] = g[S \ {m}] /\ f[S] = Grown(s, K, g[S \ {m}], m)
      BY <2>1
    <3>3. QED
      BY <3>1, <3>2
  <2>2. CASE m \notin S
    <3>1. S \in SUBSET (1 .. m - 1)
      BY <1>2, <2>2
    <3>2. f[S] = g[S] /\ \A x : f[S \ {x}] = g[S \ {x}]
      BY <2>2
    <3>3. g[S] = IF S = {} THEN <<>> ELSE Grown(s, K, g[S \ {Max(S)}], Max(S))
      BY <1>3, <3>1, Zenon DEF Folding
    <3>4. QED
      BY <3>2, <3>3
  <2>3. QED
    BY <2>1, <2>2
<1>5. Folding(s, K, m, f)
  <2>1. f = [S \in SUBSET (1 .. m) |-> f[S]]
    OBVIOUS
  <2> HIDE DEF f
  <2>2. QED
    BY <1>4, <2>1 DEF Folding
<1>6. QED
  BY <1>5

(* The loop, position by position. *)
LEMMA KeptInSteps ==
    ASSUME NEW s, NEW n \in Nat, DOMAIN s = 1 .. n, NEW K
    PROVE  \E g : /\ g[0] = <<>> /\ g[n] = Kept(s, K)
                  /\ \A i \in 1 .. n : g[i] = Grown(s, K, g[i - 1], i)
<1> DEFINE d == [i \in DOMAIN s |-> i]
           f == CHOOSE f : f = [S \in SUBSET DOMAIN d |->
                                  IF S = {} THEN <<>>
                                  ELSE LET x == Max(S)
                                       IN  IF d[x] \in K THEN Append(f[S \ {x}], s[d[x]])
                                           ELSE f[S \ {x}]]
<1>1. Kept(s, K) = f[DOMAIN d]
  BY DEF Kept, FoldLeftDomain, FoldLeft, MapThenFoldSet
<1> DEFINE Step(g, S) == IF S = {} THEN <<>>
                          ELSE LET x == Max(S)
                               IN  IF d[x] \in K THEN Append(g[S \ {x}], s[d[x]])
                                   ELSE g[S \ {x}]
           Body(g, S) == IF S = {} THEN <<>> ELSE Grown(s, K, g[S \ {Max(S)}], Max(S))
<1>2. ASSUME NEW g, NEW S \in SUBSET (1 .. n)
      PROVE  Step(g, S) = Body(g, S)
  <2>1. S # {} => Max(S) \in 1 .. n
    BY MaxIn
  <2>2. S # {} => d[Max(S)] = Max(S)
    BY <2>1
  <2>3. QED
    BY <2>2 DEF Grown
<1>3. DOMAIN d = 1 .. n
  OBVIOUS
<1>4. f = CHOOSE g : g = [S \in SUBSET (1 .. n) |-> Step(g, S)]
  BY <1>3
<1>5. ASSUME NEW g PROVE Folding(s, K, n, g) <=> g = [S \in SUBSET (1 .. n) |-> Step(g, S)]
  <2>1. [S \in SUBSET (1 .. n) |-> Step(g, S)] = [S \in SUBSET (1 .. n) |-> Body(g, S)]
    <3> HIDE DEF Step, Body
    <3>1. QED
      BY <1>2
  <2>2. QED
    BY <2>1 DEF Folding
<1>6. Folding(s, K, n, f)
  <2>1. PICK g : Folding(s, K, n, g)
    BY FoldingExists
  <2> HIDE DEF Step
  <2>2. g = [S \in SUBSET (1 .. n) |-> Step(g, S)]
    BY <1>5, <2>1
  <2>3. (CHOOSE e : e = [S \in SUBSET (1 .. n) |-> Step(e, S)])
          = [S \in SUBSET (1 .. n) |-> Step(CHOOSE e : e = [Q \in SUBSET (1 .. n) |-> Step(e, Q)], S)]
    BY <2>2
  <2>4. QED
    BY <1>4, <1>5, <2>3
<1> HIDE DEF f, Step, Body
<1> DEFINE g == [i \in 0 .. n |-> f[1 .. i]]
<1>7. g[0] = <<>>
  BY <1>6 DEF Folding
<1>8. ASSUME NEW i \in 1 .. n PROVE g[i] = Grown(s, K, g[i - 1], i)
  <2>1. Max(1 .. i) = i
    BY MaxOf
  <2>2. (1 .. i) \ {i} = 1 .. i - 1
    OBVIOUS
  <2>3. 1 .. i \in SUBSET (1 .. n) /\ i \in 1 .. i
    OBVIOUS
  <2>4. f[1 .. i] = Grown(s, K, f[(1 .. i) \ {i}], i)
    BY <1>6, <2>1, <2>3 DEF Folding
  <2>5. g[i] = f[1 .. i] /\ g[i - 1] = f[1 .. i - 1]
    OBVIOUS
  <2>6. QED
    BY <2>2, <2>4, <2>5
<1>9. g[n] = Kept(s, K)
  BY <1>1, <1>3
<1>10. QED
  BY <1>7, <1>8, <1>9

(* t holds what s has at the positions in K up to i, and nothing else. *)
Holds(t, s, K, i) ==
    /\ \A k \in DOMAIN t : \E j \in K : j \in 1 .. i /\ t[k] = s[j]
    /\ \A j \in K : j \in 1 .. i => \E k \in DOMAIN t : t[k] = s[j]

LEMMA GrownHolds ==
    ASSUME NEW S, NEW s \in Seq(S), NEW K, NEW i \in 1 .. Len(s), NEW t \in Seq(S),
           Holds(t, s, K, i - 1)
    PROVE  Grown(s, K, t, i) \in Seq(S) /\ Holds(Grown(s, K, t, i), s, K, i)
<1>1. s[i] \in S /\ 1 .. i = (1 .. i - 1) \cup {i}
  BY ElementOfSeq
<1>2. CASE i \in K
  <2> DEFINE u == Append(t, s[i])
  <2>1. /\ u \in Seq(S) /\ Len(u) = Len(t) + 1 /\ u[Len(t) + 1] = s[i]
        /\ \A k \in 1 .. Len(t) : u[k] = t[k]
    BY <1>1, AppendProperties
  <2>2. /\ DOMAIN t = 1 .. Len(t) /\ Len(t) \in Nat
        /\ DOMAIN u = (1 .. Len(t)) \cup {Len(t) + 1}
    BY <2>1
  <2> HIDE DEF u
  <2>3. ASSUME NEW k \in DOMAIN u PROVE \E j \in K : j \in 1 .. i /\ u[k] = s[j]
    BY <1>1, <1>2, <2>1, <2>2, <2>3 DEF Holds
  <2>4. ASSUME NEW j \in K, j \in 1 .. i PROVE \E k \in DOMAIN u : u[k] = s[j]
    <3>1. CASE j = i
      BY <2>1, <2>2, <3>1
    <3>2. CASE j # i
      <4>1. PICK k \in DOMAIN t : t[k] = s[j]
        BY <1>1, <2>4, <3>2 DEF Holds
      <4>2. QED
        BY <2>1, <2>2, <4>1
    <3>3. QED
      BY <3>1, <3>2
  <2>5. QED
    BY <1>2, <2>1, <2>3, <2>4 DEF Holds, Grown, u
<1>3. CASE i \notin K
  BY <1>1, <1>3 DEF Holds, Grown
<1>4. QED
  BY <1>2, <1>3

(* A loop that keeps some elements returns those, all of them and no others. *)
THEOREM KeptHolds ==
    ASSUME NEW S, NEW s \in Seq(S), NEW K
    PROVE  /\ Kept(s, K) \in Seq(S)
           /\ \A k \in DOMAIN Kept(s, K) : \E j \in K \cap DOMAIN s : Kept(s, K)[k] = s[j]
           /\ \A j \in K \cap DOMAIN s : \E k \in DOMAIN Kept(s, K) : Kept(s, K)[k] = s[j]
<1>1. PICK g : /\ g[0] = <<>> /\ g[Len(s)] = Kept(s, K)
               /\ \A i \in 1 .. Len(s) : g[i] = Grown(s, K, g[i - 1], i)
  BY KeptInSteps
<1> DEFINE Good(i) == g[i] \in Seq(S) /\ Holds(g[i], s, K, i)
           T == {i \in 0 .. Len(s) : ~Good(i)}
<1>2. Good(0)
  BY <1>1 DEF Holds
<1>3. ASSUME NEW i \in 1 .. Len(s), Good(i - 1) PROVE Good(i)
  BY <1>1, <1>3, GrownHolds
<1>4. T = {}
  <2> SUFFICES ASSUME T # {} PROVE FALSE
    OBVIOUS
  <2>1. PICK i \in T : \A k \in T : i <= k
    <3>1. T \subseteq Nat
      OBVIOUS
    <3> HIDE DEF T
    <3>2. QED
      BY <3>1, LeastNumber
  <2> HIDE DEF Good
  <2>2. i # 0 /\ i \in 1 .. Len(s) /\ i - 1 \in 0 .. Len(s)
    BY <1>2
  <2>3. i - 1 \notin T
    BY <2>1, <2>2
  <2>4. QED
    BY <1>3, <2>2, <2>3
<1>5. Good(Len(s))
  <2> HIDE DEF Good
  <2>1. QED
    BY <1>4
<1>6. Kept(s, K) \in Seq(S) /\ Holds(Kept(s, K), s, K, Len(s))
  BY <1>1, <1>5
<1>7. DOMAIN s = 1 .. Len(s)
  OBVIOUS
<1>8. QED
  BY <1>6, <1>7, Zenon DEF Holds
=============================================================================
