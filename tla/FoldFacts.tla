----------------------------- MODULE FoldFacts -----------------------------
(***************************************************************************)
(* What FoldLeft computes, step by step, for an operator of two arguments. *)
(* A module that proves something of a fold instantiates this one with the *)
(* operator it folds.                                                      *)
(***************************************************************************)
EXTENDS Integers, SequencesExt, WellFoundedInduction, TLAPS

CONSTANT Op(_, _)

Folded(base, s) == FoldLeft(Op, base, s)

(* The results after each of the entries.                                  *)
IsRun(run, base, s) ==
  /\ run[0] = base
  /\ \A i \in 1 .. Len(s) : run[i] = Op(run[i - 1], s[i])

-----------------------------------------------------------------------------
Less == {e \in Nat \X Nat : e[1] < e[2]}

LEMMA LessIsWellFounded == IsWellFoundedOn(Less, Nat)
<1>1. OpToRel(<, Nat) = Less
  BY DEF OpToRel, Less
<1> QED BY <1>1, NatLessThanWellFounded

LEMMA LeastNumber ==
  ASSUME NEW T \in SUBSET Nat, T # {}
  PROVE  \E m \in T : \A k \in T : m <= k
<1>1. \E m \in T : \A k \in T : ~ (<<k, m>> \in Less)
  BY LessIsWellFounded, WFMin, Zenon
<1>2. \A k, m \in Nat : <<k, m>> \in Less <=> k < m
  BY DEF Less
<1>3. PICK m \in T : \A k \in T : ~ (<<k, m>> \in Less)
  BY <1>1
<1>4. \A k \in T : m <= k
  <2> TAKE k \in T
  <2>1. k \in Nat /\ m \in Nat /\ ~(k < m)
    BY <1>2, <1>3
  <2> QED BY <2>1
<1> QED BY <1>4

(* Induction over the numbers up to n.                                     *)
THEOREM UpTo ==
  ASSUME NEW n \in Nat, NEW T, 0 \in T,
         \A i \in 0 .. n - 1 : i \in T => i + 1 \in T
  PROVE  \A i \in 0 .. n : i \in T
<1> SUFFICES ASSUME NEW i \in 0 .. n, i \notin T PROVE FALSE
  OBVIOUS
<1> DEFINE Out == {k \in 0 .. n : k \notin T}
<1>1. Out \in SUBSET Nat /\ Out # {}
  OBVIOUS
<1>2. PICK m \in Out : \A k \in Out : m <= k
  BY <1>1, LeastNumber
<1>3. m # 0 /\ m - 1 \in 0 .. n - 1
  BY <1>2
<1>4. m - 1 \in T
  BY <1>2, <1>3
<1>5. m \in T
  BY <1>3, <1>4
<1> QED BY <1>2, <1>5

-----------------------------------------------------------------------------
(* The recursive function in FoldLeft: it goes from a set of places to the *)
(* result for the entries at these places, and takes the last one first.   *)
Back(g, base, s, t) ==
  IF t = {} THEN base ELSE Op(g[t \ {Max(t)}], s[Max(t)])

LEMMA FoldIsBack ==
  ASSUME NEW base, NEW s
  PROVE  LET g == CHOOSE g : g = [t \in SUBSET DOMAIN s |-> Back(g, base, s, t)]
         IN  Folded(base, s) = g[DOMAIN s]
BY DEF Folded, FoldLeft, MapThenFoldSet, Back, Max

LEMMA MaxIs ==
  ASSUME NEW t \in SUBSET Int, NEW m \in t, \A k \in t : k <= m
  PROVE  Max(t) = m
<1>1. \A x \in t : (\A y \in t : x >= y) => x = m
  OBVIOUS
<1>2. \E x \in t : \A y \in t : x >= y
  OBVIOUS
<1> QED BY <1>1, <1>2 DEF Max

LEMMA BackExists ==
  ASSUME NEW base, NEW s, NEW n \in Nat
  PROVE  \E g : g = [t \in SUBSET (1 .. n) |-> Back(g, base, s, t)]
<1> DEFINE Good(k) == \E g : g = [t \in SUBSET (1 .. k) |-> Back(g, base, s, t)]
           T == {k \in 0 .. n : Good(k)}
<1>1. Good(0)
  <2> DEFINE g == [t \in SUBSET (1 .. 0) |-> base]
  <2>1. \A t \in SUBSET (1 .. 0) : t = {}
    OBVIOUS
  <2>2. g = [t \in SUBSET (1 .. 0) |-> Back(g, base, s, t)]
    BY <2>1 DEF Back
  <2> HIDE DEF g
  <2> QED BY <2>2
<1>2. ASSUME NEW k \in 0 .. n - 1, Good(k)
      PROVE  Good(k + 1)
  <2>1. PICK g : g = [t \in SUBSET (1 .. k) |-> Back(g, base, s, t)]
    BY <1>2
  <2> DEFINE h == [t \in SUBSET (1 .. k + 1) |->
                     IF k + 1 \in t THEN Op(g[t \ {k + 1}], s[k + 1])
                     ELSE g[t]]
  <2>2. ASSUME NEW t \in SUBSET (1 .. k), t # {}
        PROVE  h[t] = g[t] /\ t \in SUBSET (1 .. k + 1)
    BY <2>2
  <2>3. \A t \in SUBSET (1 .. k) : h[t] = g[t] /\ t \in SUBSET (1 .. k + 1)
    OBVIOUS
  <2>4. ASSUME NEW t \in SUBSET (1 .. k + 1)
        PROVE  h[t] = Back(h, base, s, t)
    <3>1. CASE k + 1 \in t
      <4>1. Max(t) = k + 1
        BY <3>1, MaxIs
      <4>2. t \ {k + 1} \in SUBSET (1 .. k)
        OBVIOUS
      <4>3. h[t] = Op(g[t \ {k + 1}], s[k + 1]) /\ t # {}
        BY <3>1
      <4>4. h[t \ {k + 1}] = g[t \ {k + 1}]
        BY <2>3, <4>2
      <4> HIDE DEF h
      <4> QED BY <4>1, <4>3, <4>4 DEF Back
    <3>2. CASE k + 1 \notin t
      <4>1. t \in SUBSET (1 .. k) /\ t \ {Max(t)} \in SUBSET (1 .. k)
        <5>1. \A i \in t : i \in 1 .. k
          BY <3>2
        <5> QED BY <5>1
      <4>2. h[t] = g[t] /\ h[t \ {Max(t)}] = g[t \ {Max(t)}]
        BY <2>3, <4>1
      <4>3. g[t] = Back(g, base, s, t)
        BY <2>1, <4>1
      <4> HIDE DEF h
      <4> QED BY <4>2, <4>3 DEF Back
    <3> QED BY <3>1, <3>2
  <2>5. h = [t \in SUBSET (1 .. k + 1) |-> h[t]]
    OBVIOUS
  <2> HIDE DEF h
  <2>6. h = [t \in SUBSET (1 .. k + 1) |-> Back(h, base, s, t)]
    BY <2>4, <2>5
  <2> QED BY <2>6
<1> HIDE DEF Good
<1>3. 0 \in T /\ \A k \in 0 .. n - 1 : k \in T => k + 1 \in T
  BY <1>1, <1>2
<1>4. \A k \in 0 .. n : k \in T
  BY <1>3, UpTo
<1>5. Good(n)
  BY <1>4
<1> QED BY <1>5 DEF Good

(* A fold is the last result of a run over the sequence.                   *)
THEOREM FoldRuns ==
  ASSUME NEW base, NEW s, Len(s) \in Nat, DOMAIN s = 1 .. Len(s)
  PROVE  \E run : IsRun(run, base, s) /\ Folded(base, s) = run[Len(s)]
<1> DEFINE n == Len(s)
           g == CHOOSE g : g = [t \in SUBSET DOMAIN s |-> Back(g, base, s, t)]
<1>1. g = [t \in SUBSET (1 .. n) |-> Back(g, base, s, t)]
  BY BackExists
<1>2. Folded(base, s) = g[1 .. n]
  BY FoldIsBack
<1> HIDE DEF g
<1> DEFINE run == [i \in 0 .. n |-> g[1 .. i]]
<1>3. run[0] = base
  <2>1. 1 .. 0 = {} /\ 1 .. 0 \in SUBSET (1 .. n)
    OBVIOUS
  <2> QED BY <1>1, <2>1 DEF Back
<1>4. ASSUME NEW i \in 1 .. n PROVE run[i] = Op(run[i - 1], s[i])
  <2>0. i \in Nat \ {0}
    OBVIOUS
  <2>1. Max(1 .. i) = i
    <3>1. 1 .. i \in SUBSET Int /\ i \in 1 .. i /\ \A k \in 1 .. i : k <= i
      BY <2>0
    <3> QED BY <3>1, MaxIs
  <2>2. (1 .. i) \ {i} = 1 .. i - 1 /\ 1 .. i # {}
    <3>1. \A k : k \in (1 .. i) \ {i} <=> k \in 1 .. i - 1
      BY <2>0
    <3>2. i \in 1 .. i
      BY <2>0
    <3> QED BY <3>1, <3>2
  <2>3. 1 .. i \in SUBSET (1 .. n)
    OBVIOUS
  <2>4. g[1 .. i] = Op(g[1 .. i - 1], s[i])
    BY <1>1, <2>1, <2>2, <2>3 DEF Back
  <2> QED BY <2>4
<1>5. Folded(base, s) = run[Len(s)]
  BY <1>2
<1> HIDE DEF run
<1> QED BY <1>3, <1>4, <1>5 DEF IsRun
=============================================================================
