------------------------------ MODULE RunningSums ------------------------------
(* Sums along an interval, as the recursive functions of the models compute   *)
(* them, and the facts about them that the proofs cite.  Induction is by the  *)
(* least counterexample.                                                      *)
EXTENDS Integers, WellFoundedInduction, TLAPS

(* f runs along lo .. hi: nothing at lo, and g[d] more at every d after it.   *)
IsRun(f, g, lo, hi) == f = [d \in lo .. hi |-> IF d = lo THEN 0 ELSE f[d - 1] + g[d]]

-----------------------------------------------------------------------------
(* Induction. *)

NatBelow == {p \in Nat \X Nat : p[1] < p[2]}

LEMMA LeastOf ==
  ASSUME NEW T, T \subseteq Nat, T # {}
  PROVE  \E x \in T : \A y \in T : x <= y
<1>1. OpToRel(<, Nat) = NatBelow
  BY DEF OpToRel, NatBelow
<1>2. IsWellFoundedOn(NatBelow, Nat)
  BY <1>1, NatLessThanWellFounded, Zenon
<1>3. PICK x \in T : \A y \in T : ~(<<y, x>> \in NatBelow)
  BY <1>2, WFMin
<1>4. ASSUME NEW y \in T PROVE x <= y
  <2>1. x \in Nat /\ y \in Nat
    OBVIOUS
  <2>2. ~(y < x)
    BY <1>3, <2>1 DEF NatBelow
  <2> QED BY <2>1, <2>2
<1> QED BY <1>4

(* A set that holds the first of an interval, and with each but the last its  *)
(* successor, holds the interval.                                             *)
LEMMA Climb ==
  ASSUME NEW lo \in Int, NEW hi \in Int, NEW S,
         lo <= hi => lo \in S,
         \A d \in lo .. hi : d < hi /\ d \in S => d + 1 \in S
  PROVE  lo .. hi \subseteq S
<1> DEFINE T == {n \in Nat : lo + n <= hi /\ lo + n \notin S}
<1>1. CASE T = {}
  <2> SUFFICES ASSUME NEW d \in lo .. hi, d \notin S PROVE FALSE
    OBVIOUS
  <2>1. d - lo \in Nat /\ lo + (d - lo) = d /\ d <= hi
    OBVIOUS
  <2>2. d - lo \in T
    BY <2>1
  <2> QED BY <1>1, <2>2
<1>2. CASE T # {}
  <2>1. T \subseteq Nat
    OBVIOUS
  <2>2. PICK n \in T : \A m \in T : n <= m
    <3> HIDE DEF T
    <3> QED BY <1>2, <2>1, LeastOf
  <2>3. n \in Nat /\ lo + n <= hi /\ lo + n \notin S
    OBVIOUS
  <2>4. n # 0
    BY <2>3
  <2>5. n - 1 \in Nat /\ lo + (n - 1) <= hi /\ ~(n <= n - 1)
    BY <2>3, <2>4
  <2>6. lo + (n - 1) \in S
    BY <2>2, <2>5
  <2>7. lo + (n - 1) \in lo .. hi /\ lo + (n - 1) < hi /\ lo + (n - 1) + 1 = lo + n
    BY <2>3, <2>5
  <2> HIDE DEF T
  <2> QED BY <2>3, <2>6, <2>7
<1> QED BY <1>1, <1>2

-----------------------------------------------------------------------------
(* A run exists. *)
LEMMA RunExists ==
  ASSUME NEW lo \in Int, NEW hi \in Int, lo <= hi, NEW g
  PROVE  \E f : IsRun(f, g, lo, hi)
<1> DEFINE S == {d \in lo .. hi : \E f : IsRun(f, g, lo, d)}
<1>1. lo \in S
  <2> DEFINE f == [d \in lo .. lo |-> 0]
  <2>1. \A d \in lo .. lo : d = lo
    OBVIOUS
  <2>2. IsRun(f, g, lo, lo)
    BY <2>1 DEF IsRun
  <2> QED BY <2>2
<1>2. ASSUME NEW d \in lo .. hi, d < hi, d \in S PROVE d + 1 \in S
  <2>1. PICK f : IsRun(f, g, lo, d)
    BY <1>2
  <2> DEFINE h == [e \in lo .. (d + 1) |-> IF e = d + 1 THEN f[d] + g[d + 1] ELSE f[e]]
  <2>2. ASSUME NEW e \in lo .. (d + 1)
        PROVE  h[e] = IF e = lo THEN 0 ELSE h[e - 1] + g[e]
    <3>1. CASE e = d + 1
      <4>1. e # lo /\ e - 1 = d /\ d \in lo .. (d + 1) /\ d # d + 1
        BY <3>1
      <4>2. h[e] = f[d] + g[d + 1] /\ h[e - 1] = f[d]
        BY <3>1, <4>1
      <4> QED BY <3>1, <4>1, <4>2
    <3>2. CASE e # d + 1
      <4>1. e \in lo .. d /\ h[e] = f[e]
        BY <3>2
      <4>2. f[e] = IF e = lo THEN 0 ELSE f[e - 1] + g[e]
        <5>1. f = [x \in lo .. d |-> IF x = lo THEN 0 ELSE f[x - 1] + g[x]]
          BY <2>1 DEF IsRun
        <5> QED BY <4>1, <5>1
      <4>3. CASE e = lo
        BY <4>1, <4>2, <4>3
      <4>4. CASE e # lo
        <5>1. e - 1 \in lo .. (d + 1) /\ e - 1 # d + 1
          BY <4>1, <4>4
        <5>2. h[e - 1] = f[e - 1]
          BY <5>1
        <5> QED BY <4>1, <4>2, <4>4, <5>2
      <4> QED BY <4>3, <4>4
    <3> QED BY <3>1, <3>2
  <2>3. IsRun(h, g, lo, d + 1)
    <3>1. h = [e \in lo .. (d + 1) |-> h[e]]
      OBVIOUS
    <3> HIDE DEF h
    <3> QED BY <2>2, <3>1 DEF IsRun
  <2>4. d + 1 \in lo .. hi
    BY <1>2
  <2> QED BY <2>3, <2>4
<1>3. lo .. hi \subseteq S
  <2> HIDE DEF S
  <2> QED BY <1>1, <1>2, Climb
<1>4. hi \in S
  BY <1>3
<1> QED BY <1>4

LEMMA RunStep ==
  ASSUME NEW lo \in Int, NEW hi \in Int, lo <= hi, NEW f, NEW g, IsRun(f, g, lo, hi)
  PROVE  /\ f[lo] = 0
         /\ \A d \in lo .. hi : d < hi => f[d + 1] = f[d] + g[d + 1]
<1>1. f = [d \in lo .. hi |-> IF d = lo THEN 0 ELSE f[d - 1] + g[d]]
  BY DEF IsRun
<1>2. lo \in lo .. hi /\ f[lo] = 0
  BY <1>1
<1>3. ASSUME NEW d \in lo .. hi, d < hi PROVE f[d + 1] = f[d] + g[d + 1]
  <2>1. d + 1 \in lo .. hi /\ d + 1 # lo /\ (d + 1) - 1 = d
    BY <1>3
  <2>2. f[d + 1] = IF d + 1 = lo THEN 0 ELSE f[(d + 1) - 1] + g[d + 1]
    BY <1>1, <2>1
  <2> QED BY <2>1, <2>2
<1> QED BY <1>2, <1>3

LEMMA RunInt ==
  ASSUME NEW lo \in Int, NEW hi \in Int, lo <= hi, NEW f, NEW g, IsRun(f, g, lo, hi),
         \A d \in lo + 1 .. hi : g[d] \in Int
  PROVE  \A d \in lo .. hi : f[d] \in Int
<1> DEFINE S == {d \in lo .. hi : f[d] \in Int}
<1>0. /\ f[lo] = 0
      /\ \A d \in lo .. hi : d < hi => f[d + 1] = f[d] + g[d + 1]
  BY RunStep
<1>1. lo \in S
  BY <1>0
<1>2. ASSUME NEW d \in lo .. hi, d < hi, d \in S PROVE d + 1 \in S
  <2>1. d + 1 \in lo .. hi /\ d + 1 \in lo + 1 .. hi
    BY <1>2
  <2>2. f[d + 1] = f[d] + g[d + 1] /\ f[d] \in Int /\ g[d + 1] \in Int
    BY <1>0, <1>2, <2>1
  <2> QED BY <2>1, <2>2
<1>3. lo .. hi \subseteq S
  <2> HIDE DEF S
  <2> QED BY <1>1, <1>2, Climb
<1> QED BY <1>3

(* The steps of k are those of g, with x more at e. *)
At(e, x, d) == IF d = e THEN x ELSE 0
OneMore(g, k, e, x, first, last) ==
  \A d \in first .. last : g[d] \in Int /\ k[d] = g[d] + At(e, x, d)

(* Two such runs end x apart. *)
LEMMA RunChange ==
  ASSUME NEW lo \in Int, NEW hi \in Int, lo <= hi, NEW f, NEW g, NEW h, NEW k,
         IsRun(f, g, lo, hi), IsRun(h, k, lo, hi), NEW e \in lo + 1 .. hi, NEW x \in Int,
         OneMore(g, k, e, x, lo + 1, hi)
  PROVE  h[hi] = f[hi] + x
<1> DEFINE S == {d \in lo .. hi : h[d] = f[d] + IF e <= d THEN x ELSE 0}
<1>1. /\ f[lo] = 0 /\ h[lo] = 0
      /\ \A d \in lo .. hi : d < hi => f[d + 1] = f[d] + g[d + 1] /\ h[d + 1] = h[d] + k[d + 1]
  BY RunStep
<1>2. \A d \in lo + 1 .. hi : g[d] \in Int /\ k[d] = g[d] + At(e, x, d)
  BY DEF OneMore
<1>3. lo \in S
  BY <1>1
<1>4. ASSUME NEW d \in lo .. hi, d < hi, d \in S PROVE d + 1 \in S
  <2>1. d + 1 \in lo .. hi /\ d + 1 \in lo + 1 .. hi
    BY <1>4
  <2>2. /\ f[d + 1] = f[d] + g[d + 1] /\ h[d + 1] = h[d] + k[d + 1] /\ g[d + 1] \in Int
        /\ k[d + 1] = g[d + 1] + IF d + 1 = e THEN x ELSE 0
        /\ h[d] = f[d] + IF e <= d THEN x ELSE 0
    BY <1>1, <1>2, <1>4, <2>1 DEF At
  <2>3. f[d] \in Int
    BY <1>2, RunInt
  <2>4. h[d + 1] = f[d + 1] + IF e <= d + 1 THEN x ELSE 0
    <3>1. CASE e <= d
      <4>1. e <= d + 1 /\ d + 1 # e
        BY <3>1
      <4> QED BY <2>2, <2>3, <3>1, <4>1
    <3>2. CASE e = d + 1
      <4>1. ~(e <= d) /\ e <= d + 1
        BY <3>2
      <4> QED BY <2>2, <2>3, <3>2, <4>1
    <3>3. CASE e > d + 1
      <4>1. ~(e <= d) /\ ~(e <= d + 1) /\ e # d + 1
        BY <3>3
      <4> QED BY <2>2, <2>3, <3>3, <4>1
    <3> QED BY <3>1, <3>2, <3>3
  <2> QED BY <2>1, <2>4
<1>5. lo .. hi \subseteq S
  <2> HIDE DEF S
  <2> QED BY <1>3, <1>4, Climb
<1>6. hi \in S /\ e <= hi
  BY <1>5
<1> QED BY <1>6

(* Two runs that take the same steps up to m are the same at m.               *)
SameSteps(g, k, first, last) == \A d \in first .. last : g[d] = k[d]

LEMMA RunAgree ==
  ASSUME NEW lo \in Int, NEW m \in Int, NEW hi \in Int, NEW n \in Int, lo <= m, m <= hi, m <= n,
         NEW f, NEW g, NEW h, NEW k,
         IsRun(f, g, lo, hi), IsRun(h, k, lo, n),
         SameSteps(g, k, lo + 1, m)
  PROVE  f[m] = h[m]
<1> DEFINE S == {d \in lo .. m : f[d] = h[d]}
<1>0. /\ f[lo] = 0 /\ h[lo] = 0
      /\ \A d \in lo .. hi : d < hi => f[d + 1] = f[d] + g[d + 1]
      /\ \A d \in lo .. n : d < n => h[d + 1] = h[d] + k[d + 1]
  <2>1. lo <= hi /\ lo <= n
    OBVIOUS
  <2> QED BY <2>1, RunStep
<1>1. lo \in S
  BY <1>0
<1>2. ASSUME NEW d \in lo .. m, d < m, d \in S PROVE d + 1 \in S
  <2>1. d + 1 \in lo .. m /\ d + 1 \in lo + 1 .. m /\ d \in lo .. hi /\ d \in lo .. n /\ d < hi /\ d < n
    BY <1>2
  <2>2. f[d + 1] = f[d] + g[d + 1] /\ h[d + 1] = h[d] + k[d + 1]
    BY <1>0, <2>1
  <2>3. g[d + 1] = k[d + 1] /\ f[d] = h[d]
    BY <1>2, <2>1 DEF SameSteps
  <2> QED BY <2>1, <2>2, <2>3
<1>3. lo .. m \subseteq S
  <2> HIDE DEF S
  <2> QED BY <1>1, <1>2, Climb
<1>4. m \in S
  BY <1>3
<1> QED BY <1>4

(* Smaller steps add up to no more. *)
LEMMA RunMono ==
  ASSUME NEW lo \in Int, NEW hi \in Int, lo <= hi, NEW f, NEW g, NEW h, NEW k,
         IsRun(f, g, lo, hi), IsRun(h, k, lo, hi),
         \A d \in lo + 1 .. hi : g[d] \in Int /\ k[d] \in Int /\ g[d] <= k[d]
  PROVE  \A d \in lo .. hi : f[d] <= h[d]
<1> DEFINE S == {d \in lo .. hi : f[d] <= h[d]}
<1>0. /\ f[lo] = 0 /\ h[lo] = 0
      /\ \A d \in lo .. hi : d < hi => f[d + 1] = f[d] + g[d + 1] /\ h[d + 1] = h[d] + k[d + 1]
  BY RunStep
<1>1. lo \in S
  BY <1>0
<1>2. ASSUME NEW d \in lo .. hi, d < hi, d \in S PROVE d + 1 \in S
  <2>1. d + 1 \in lo .. hi /\ d + 1 \in lo + 1 .. hi
    BY <1>2
  <2>2. /\ f[d + 1] = f[d] + g[d + 1] /\ h[d + 1] = h[d] + k[d + 1]
        /\ g[d + 1] \in Int /\ k[d + 1] \in Int /\ g[d + 1] <= k[d + 1]
        /\ f[d] <= h[d]
    BY <1>0, <1>2, <2>1
  <2>3. f[d] \in Int /\ h[d] \in Int
    BY RunInt
  <2> QED BY <2>1, <2>2, <2>3
<1>3. lo .. hi \subseteq S
  <2> HIDE DEF S
  <2> QED BY <1>1, <1>2, Climb
<1> QED BY <1>3

(* A run that takes no steps stays at nothing. *)
LEMMA RunStill ==
  ASSUME NEW lo \in Int, NEW hi \in Int, lo <= hi, NEW f, NEW g, IsRun(f, g, lo, hi),
         \A d \in lo + 1 .. hi : g[d] = 0
  PROVE  \A d \in lo .. hi : f[d] = 0
<1> DEFINE S == {d \in lo .. hi : f[d] = 0}
<1>0. /\ f[lo] = 0
      /\ \A d \in lo .. hi : d < hi => f[d + 1] = f[d] + g[d + 1]
  BY RunStep
<1>1. lo \in S
  BY <1>0
<1>2. ASSUME NEW d \in lo .. hi, d < hi, d \in S PROVE d + 1 \in S
  <2>1. d + 1 \in lo .. hi /\ d + 1 \in lo + 1 .. hi
    BY <1>2
  <2> QED BY <1>0, <1>2, <2>1
<1>3. lo .. hi \subseteq S
  <2> HIDE DEF S
  <2> QED BY <1>1, <1>2, Climb
<1> QED BY <1>3
=============================================================================
