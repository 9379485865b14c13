----------------------------- MODULE Induction ------------------------------
(***************************************************************************)
(* Induction over numbers, and what it gives for functions that are        *)
(* defined by recursion, with sets in the place of predicates: the least   *)
(* element of a set of numbers comes from the library's theorem that       *)
(* finite sets are well-founded under inclusion.                           *)
(***************************************************************************)
EXTENDS FiniteSetTheorems, SequenceTheorems, TLAPS

\* Every set of numbers has a least one.
LEMMA LeastNumber ==
    ASSUME NEW T \in SUBSET Nat, T # {}
    PROVE  \E n \in T : \A m \in T : n <= m
<1> DEFINE Upto == {1..n : n \in T}
<1>1. Upto \subseteq FiniteSubsetsOf(Nat) /\ Upto # {}
  <2>1. ASSUME NEW n \in T PROVE 1..n \in FiniteSubsetsOf(Nat)
    <3>1. IsFiniteSet(1..n)
      BY n \in Int, FS_Interval
    <3>2. 1..n \in SUBSET Nat
      BY n \in Int
    <3> QED
      BY <3>1, <3>2 DEF FiniteSubsetsOf
  <2> QED
    BY <2>1
<1>2. PICK x \in Upto : \A y \in Upto : <<y, x>> \notin StrictSubsetOrdering(Nat)
  <2> HIDE DEF Upto
  <2> QED
    BY <1>1, FS_StrictSubsetOrderingWellFounded, WFMin
<1>3. PICK n \in T : x = 1..n
  OBVIOUS
<1>4. ASSUME NEW m \in T, m < n PROVE FALSE
  <2>1. 1..m \subseteq 1..n /\ n \in 1..n /\ n \notin 1..m
    BY <1>4
  <2>2. \A a, b \in SUBSET Nat : a \subseteq b /\ a # b => <<a, b>> \in StrictSubsetOrdering(Nat)
    BY DEF StrictSubsetOrdering
  <2>3. 1..m \in SUBSET Nat /\ 1..n \in SUBSET Nat /\ 1..m # 1..n
    BY <2>1
  <2>4. <<1..m, 1..n>> \in StrictSubsetOrdering(Nat)
    BY <2>1, <2>2, <2>3
  <2> QED
    BY <2>4, <1>2, <1>3
<1> QED
  BY <1>4

\* Numbers from m to n are in S if each is whose predecessors down to m are.
LEMMA Upwards ==
    ASSUME NEW m \in Nat, NEW n \in Nat, NEW S,
           \A i \in m..n : (\A j \in m..(i - 1) : j \in S) => i \in S
    PROVE  m..n \subseteq S
<1> SUFFICES ASSUME (m..n) \ S # {} PROVE FALSE
  OBVIOUS
<1>1. PICK i \in (m..n) \ S : \A j \in (m..n) \ S : i <= j
  <2>1. (m..n) \ S \in SUBSET Nat
    OBVIOUS
  <2> QED
    BY <2>1, LeastNumber
<1>2. ASSUME NEW j \in m..(i - 1), j \notin S PROVE FALSE
  <2>1. j \in (m..n) \ S /\ ~(i <= j)
    BY <1>2
  <2> QED
    BY <2>1, <1>1
<1> QED
  BY <1>1, <1>2

\* The same from the other end.
LEMMA Downwards ==
    ASSUME NEW m \in Nat, NEW n \in Nat, NEW S,
           \A i \in m..n : (\A j \in (i + 1)..n : j \in S) => i \in S
    PROVE  m..n \subseteq S
<1> DEFINE T == {n - i : i \in (m..n) \ S}
<1> SUFFICES ASSUME (m..n) \ S # {} PROVE FALSE
  OBVIOUS
<1>1. T \in SUBSET Nat /\ T # {}
  OBVIOUS
<1>2. PICK k \in T : \A l \in T : k <= l
  BY <1>1, LeastNumber
<1>3. PICK i \in (m..n) \ S : k = n - i
  OBVIOUS
<1>4. \A j \in (i + 1)..n : j \in S
  <2> SUFFICES ASSUME NEW j \in (i + 1)..n, j \notin S PROVE FALSE
    OBVIOUS
  <2>1. j \in (m..n) \ S
    BY <1>3
  <2>2. n - j \in T
    BY <2>1
  <2> HIDE DEF T
  <2>3. n - i <= n - j
    BY <2>2, <1>2, <1>3
  <2> QED
    BY <2>3
<1> QED
  BY <1>3, <1>4

\* One at a time.
LEMMA Stepwise ==
    ASSUME NEW n \in Nat, NEW S, 0 \in S, \A k \in 1..n : k - 1 \in S => k \in S
    PROVE  0..n \subseteq S
<1>1. ASSUME NEW i \in 0..n, \A j \in 0..(i - 1) : j \in S PROVE i \in S
  <2>1. i = 0 \/ (i \in 1..n /\ i - 1 \in 0..(i - 1))
    OBVIOUS
  <2> QED
    BY <1>1, <2>1
<1> QED
  BY <1>1, Upwards

\* n steps from base, each of them a function of what the one before has left.
Iterable(D, n, base, step) == n \in Nat /\ base \in D /\ step \in [1..n -> [D -> D]]
Iterates(g, D, n, base, step) ==
    /\ g \in [0..n -> D]
    /\ g[0] = base
    /\ \A k \in 1..n : g[k] = step[k][g[k - 1]]

\* Steps taken one after another define a function of their number.
LEMMA Iteration ==
    ASSUME NEW D, NEW n, NEW base, NEW step, Iterable(D, n, base, step)
    PROVE  \E g : Iterates(g, D, n, base, step)
<1> USE DEF Iterable
<1> DEFINE Upto(m, g) == g[0] = base /\ \A k \in 1..m : g[k] = step[k][g[k - 1]]
           S == {m \in 0..n : \E g \in [0..m -> D] : Upto(m, g)}
<1>1. ASSUME NEW i \in 0..n, \A j \in 0..(i - 1) : j \in S PROVE i \in S
  <2>1. CASE i = 0
    <3>1. [k \in 0..i |-> base] \in [0..i -> D] /\ Upto(i, [k \in 0..i |-> base])
      BY <2>1
    <3> QED
      BY <3>1
  <2>2. CASE i > 0
    <3>0. i - 1 \in 0..(i - 1)
      BY <2>2
    <3>1. i - 1 \in S
      BY ONLY <1>1, <3>0
    <3>2. PICK g \in [0..(i - 1) -> D] : Upto(i - 1, g)
      BY <3>1
    <3> DEFINE h == [k \in 0..i |-> IF k = i THEN step[i][g[i - 1]] ELSE g[k]]
    <3>3. step[i][g[i - 1]] \in D
      BY <2>2
    <3>4. h \in [0..i -> D]
      BY <3>3
    <3>5. Upto(i, h)
      BY <2>2, <3>2
    <3> QED
      BY <3>4, <3>5
  <2> QED
    BY <2>1, <2>2
<1>2. 0..n \subseteq S
  <2> HIDE DEF S
  <2> QED
    BY <1>1, Upwards
<1> QED
  <2>1. n \in S
    BY <1>2
  <2> QED
    BY <2>1 DEF Iterates

=============================================================================
