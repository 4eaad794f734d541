------------------------------ MODULE Recursion ------------------------------
(***************************************************************************)
(* Induction over natural numbers, and functions defined by recursion, for *)
(* proofs about the sums and filters that other modules define so. The     *)
(* statements are of sets, not of predicates, so a proof cites them like   *)
(* any other lemma.                                                        *)
(***************************************************************************)
EXTENDS Integers, WellFoundedInduction, TLAPS

\* A set that has zero, and with a number its successor, has them all.
LEMMA Induction ==
  ASSUME NEW T, 0 \in T, \A n \in Nat : n \in T => n + 1 \in T
  PROVE  \A n \in Nat : n \in T
<1> DEFINE Missing == {n \in Nat : n \notin T}
           Smaller == OpToRel(<, Nat)
<1> SUFFICES ASSUME Missing # {} PROVE FALSE
  OBVIOUS
<1>1. IsWellFoundedOn(Smaller, Nat)
  BY NatLessThanWellFounded
<1>2. PICK n \in Missing : \A m \in Missing : ~ (<<m, n>> \in Smaller)
  <2>1. Missing \subseteq Nat
    OBVIOUS
  <2> HIDE DEF Missing, Smaller
  <2> QED
    BY <1>1, <2>1, WFMin
<1>3. n \in Nat /\ n # 0 /\ n - 1 \in Nat /\ n - 1 < n /\ n - 1 + 1 = n
  OBVIOUS
<1>4. n - 1 \in Missing
  BY <1>3
<1>5. <<n - 1, n>> \in Smaller
  BY <1>3 DEF OpToRel
<1> QED
  BY <1>2, <1>4, <1>5

\* The function has this first value and goes on by these steps, up to N.
Goes(f, S, base, step, N) ==
  /\ f \in [0 .. N -> S]
  /\ f[0] = base
  /\ \A n \in 1 .. N : f[n] = step[<<n, f[n - 1]>>]

\* A function can be defined by its first value and its steps.
LEMMA Defined ==
  ASSUME NEW S, NEW base \in S, NEW step \in [Nat \X S -> S], NEW N \in Nat
  PROVE  \E f : Goes(f, S, base, step, N)
<1> USE DEF Goes
<1> DEFINE Good(f, k) == Goes(f, S, base, step, k)
           T == {k \in Nat : \E f : Good(f, k)}
<1>1. 0 \in T
  <2>1. Good([n \in 0 .. 0 |-> base], 0)
    OBVIOUS
  <2> QED
    BY <2>1
<1>2. ASSUME NEW k \in Nat, k \in T PROVE k + 1 \in T
  <2>1. PICK f : Good(f, k)
    BY <1>2
  <2> DEFINE g == [n \in 0 .. k + 1 |-> IF n = k + 1 THEN step[<<k + 1, f[k]>>] ELSE f[n]]
  <2>2. step[<<k + 1, f[k]>>] \in S
    BY <2>1
  <2>3. g \in [0 .. k + 1 -> S]
    BY <2>1, <2>2
  <2>4. g[0] = base
    BY <2>1
  <2>5. ASSUME NEW n \in 1 .. k + 1 PROVE g[n] = step[<<n, g[n - 1]>>]
    <3>1. CASE n = k + 1
      <4>1. n - 1 = k /\ k \in 0 .. k + 1 /\ k # k + 1
        BY <3>1
      <4>2. g[n - 1] = f[k] /\ g[n] = step[<<k + 1, f[k]>>]
        BY <3>1, <4>1
      <4> QED
        BY <3>1, <4>2
    <3>2. CASE n \in 1 .. k
      BY <2>1, <3>2
    <3> QED
      BY <3>1, <3>2
  <2>6. Good(g, k + 1)
    BY <2>3, <2>4, <2>5
  <2> HIDE DEF g, Good
  <2> QED
    BY <2>6
<1>3. N \in T
  <2> HIDE DEF T
  <2> QED
    BY <1>1, <1>2, Induction
<1> QED
  BY <1>3

\* The functions have the same first value and the same steps.
Alike(f, g, N) ==
  /\ f[0] = g[0]
  /\ \A n \in 1 .. N : f[n - 1] = g[n - 1] => f[n] = g[n]

\* Such functions are the same, as far as both go.
LEMMA Determined ==
  ASSUME NEW f, NEW g, NEW N \in Nat, Alike(f, g, N)
  PROVE  \A n \in 0 .. N : f[n] = g[n]
<1> USE DEF Alike
<1> DEFINE T == {n \in Nat : n <= N => f[n] = g[n]}
<1>1. 0 \in T
  OBVIOUS
<1>2. ASSUME NEW n \in Nat, n \in T PROVE n + 1 \in T
  BY <1>2
<1>3. \A n \in Nat : n \in T
  <2> HIDE DEF T
  <2> QED
    BY <1>1, <1>2, Induction
<1> QED
  BY <1>3

\* A set of natural numbers that is not empty has a least element.
LEMMA Least ==
  ASSUME NEW T, T \subseteq Nat, T # {}
  PROVE  \E n \in T : \A m \in T : n <= m
<1> DEFINE Smaller == OpToRel(<, Nat)
<1>1. IsWellFoundedOn(Smaller, Nat)
  BY NatLessThanWellFounded
<1>2. PICK n \in T : \A m \in T : ~ (<<m, n>> \in Smaller)
  <2> HIDE DEF Smaller
  <2> QED
    BY <1>1, WFMin
<1>3. ASSUME NEW m \in T, ~ n <= m PROVE FALSE
  <2>1. m \in Nat /\ n \in Nat /\ m < n
    BY <1>3
  <2>2. <<m, n>> \in Smaller
    BY <2>1 DEF OpToRel
  <2> QED
    BY <1>2, <2>2
<1> QED
  BY <1>3
\* The function has the value of an earlier place at some, and these values at
\* the others.
Follows(h, S, value, Copies, before, N) ==
  /\ h \in [1 .. N -> S]
  /\ \A k \in 1 .. N : h[k] = IF k \in Copies THEN h[before[k]] ELSE value[k]

\* The places of Copies have an earlier one each.
Earlier(Copies, before) == \A k \in Copies : before[k] \in 1 .. k - 1

\* A function can be defined by its values at some places, and by its values at
\* earlier places for the others.
LEMMA DefinedBefore ==
  ASSUME NEW N \in Nat, NEW S, NEW value \in [1 .. N -> S],
         NEW Copies, NEW before, Earlier(Copies, before)
  PROVE  \E h : Follows(h, S, value, Copies, before, N)
<1> USE DEF Follows, Earlier
<1> DEFINE At(h, k) == h[k] = IF k \in Copies THEN h[before[k]] ELSE value[k]
           Good(h, n) == h \in [1 .. N -> S] /\ \A k \in 1 .. n : At(h, k)
           T == {n \in Nat : n <= N => \E h : Good(h, n)}
<1>1. 0 \in T
  <2>1. Good(value, 0)
    OBVIOUS
  <2> HIDE DEF Good
  <2> QED
    BY <2>1
<1>2. ASSUME NEW n \in Nat, n \in T PROVE n + 1 \in T
  <2> SUFFICES ASSUME n + 1 <= N PROVE \E h : Good(h, n + 1)
    OBVIOUS
  <2>1. PICK h : Good(h, n)
    BY <1>2
  <2> DEFINE v == IF n + 1 \in Copies THEN h[before[n + 1]] ELSE value[n + 1]
             g == [h EXCEPT ![n + 1] = v]
  <2>2. n + 1 \in 1 .. N /\ h \in [1 .. N -> S]
    BY <2>1
  <2>3. v \in S
    <3>1. CASE n + 1 \in Copies
      <4>1. before[n + 1] \in 1 .. (n + 1) - 1
        BY <3>1
      <4>2. before[n + 1] \in 1 .. N
        BY <2>2, <4>1
      <4> QED
        BY <2>2, <3>1, <4>2
    <3>2. CASE n + 1 \notin Copies
      BY <2>2, <3>2
    <3> QED
      BY <3>1, <3>2
  <2> HIDE DEF v
  <2>4. /\ g \in [1 .. N -> S] /\ g[n + 1] = v
        /\ \A k \in 1 .. N : k # n + 1 => g[k] = h[k]
    BY <2>2, <2>3
  <2> HIDE DEF g
  <2>5. ASSUME NEW k \in 1 .. n + 1 PROVE At(g, k)
    <3>1. k \in 1 .. N
      BY <2>2
    <3>2. k \in Copies => before[k] \in 1 .. N /\ before[k] # n + 1 /\ g[before[k]] = h[before[k]]
      <4>1. ASSUME k \in Copies
            PROVE  before[k] \in 1 .. N /\ before[k] # n + 1 /\ g[before[k]] = h[before[k]]
        <5>1. before[k] \in 1 .. k - 1
          BY <4>1
        <5>2. before[k] \in 1 .. N /\ before[k] # n + 1
          BY <2>2, <5>1
        <5> QED
          BY <2>4, <5>2
      <4> QED
        BY <4>1
    <3>3. CASE k = n + 1
      BY <2>4, <3>2, <3>3 DEF v
    <3>4. CASE k # n + 1
      <4>1. k \in 1 .. n
        BY <3>4
      <4>2. At(h, k)
        BY <2>1, <4>1
      <4> QED
        BY <2>4, <3>1, <3>2, <3>4, <4>2
    <3> QED
      BY <3>3, <3>4
  <2>6. Good(g, n + 1)
    BY <2>4, <2>5
  <2> HIDE DEF Good
  <2> QED
    BY <2>6
<1>3. N \in T
  <2> HIDE DEF T
  <2> QED
    BY <1>1, <1>2, Induction
<1> QED
  BY <1>3
=============================================================================
