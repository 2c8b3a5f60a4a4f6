-------------------------------- MODULE Loops --------------------------------
(***************************************************************************)
(* What the proofs use of a loop that is a recursive function of the       *)
(* number of turns: such a function exists (IterationExists), and what     *)
(* holds at first and is kept by a turn holds at the end (SetInduction).   *)
(*                                                                         *)
(* Induction is stated for the set of the turns after which a formula      *)
(* holds and not for the formula, since the provers instantiate a set.     *)
(***************************************************************************)
EXTENDS Integers, WellFoundedInduction, TLAPS

\* Induction over an interval, for a set instead of a predicate.
Less == {ss \in Nat \X Nat : ss[1] < ss[2]}

LEMMA LessWellFounded == IsWellFoundedOn(Less, Nat)
  BY NatLessThanWellFounded, SMT DEF OpToRel, Less

LEMMA SetInduction ==
    ASSUME NEW n \in Nat, NEW S, 0 \in S, \A i \in 1..n : i - 1 \in S => i \in S
    PROVE  0..n \subseteq S
<1> DEFINE Missing == (0..n) \ S
<1>1. SUFFICES ASSUME Missing # {} PROVE FALSE
  OBVIOUS
<1>2. Missing \subseteq Nat
  OBVIOUS
<1> HIDE DEF Missing
<1>3. PICK x \in Missing : \A y \in Missing : <<y, x>> \notin Less
  BY <1>1, <1>2, LessWellFounded, WFMin
<1>4. x \in 1..n /\ x \notin S
  BY <1>3 DEF Missing
<1>5. x - 1 \in 0..n /\ <<x - 1, x>> \in Less
  BY <1>4 DEF Less
<1>6. x - 1 \notin Missing
  BY <1>3, <1>5
<1>7. QED
  BY <1>4, <1>5, <1>6 DEF Missing

\* f is a function over 0..n whose value at i is made of that at i - 1.
Iterates(f, n, V, base, G) ==
    /\ f = [i \in 0..n |-> f[i]] /\ \A i \in 0..n : f[i] \in V[i]
    /\ f[0] = base /\ \A i \in 1..n : f[i] = G[i][f[i - 1]]

MapsOn(n, V, G) == \A i \in 1..n : G[i] \in [V[i - 1] -> V[i]]

LEMMA IterationExists ==
    ASSUME NEW n \in Nat, NEW V, NEW base \in V[0], NEW G, MapsOn(n, V, G)
    PROVE  \E f : Iterates(f, n, V, base, G)
<1> DEFINE Upto(k) == \E f : Iterates(f, k, V, base, G)
           S == {k \in 0..n : Upto(k)}
<1>1. 0 \in S
  <2> DEFINE g == [i \in 0..0 |-> base]
  <2>1. /\ g = [i \in 0..0 |-> g[i]] /\ \A i \in 0..0 : g[i] \in V[i]
        /\ g[0] = base /\ \A i \in 1..0 : g[i] = G[i][g[i - 1]]
    OBVIOUS
  <2> HIDE DEF g
  <2>2. Upto(0)
    BY <2>1 DEF Iterates
  <2> HIDE DEF Upto
  <2>3. QED
    BY <2>2
<1>2. ASSUME NEW k \in 1..n, k - 1 \in S PROVE k \in S
  <2>1. PICK f : Iterates(f, k - 1, V, base, G)
    BY <1>2
  <2>2. /\ \A i \in 0..(k - 1) : f[i] \in V[i]
        /\ f[0] = base /\ \A i \in 1..(k - 1) : f[i] = G[i][f[i - 1]]
    BY <2>1 DEF Iterates
  <2> DEFINE g == [i \in 0..k |-> IF i < k THEN f[i] ELSE G[k][f[k - 1]]]
  <2>3. G[k][f[k - 1]] \in V[k]
    <3>1. f[k - 1] \in V[k - 1]
      BY <2>2
    <3>2. QED
      BY <3>1 DEF MapsOn
  <2>4. g = [i \in 0..k |-> g[i]] /\ \A i \in 0..k : g[i] \in V[i]
    BY <2>2, <2>3
  <2>5. g[0] = base
    BY <2>2
  <2>6. ASSUME NEW i \in 1..k PROVE g[i] = G[i][g[i - 1]]
    <3>1. CASE i \in 1..(k - 1)
      <4>1. g[i] = f[i] /\ g[i - 1] = f[i - 1]
        BY <3>1
      <4>2. QED
        BY <4>1, <2>2, <3>1
    <3>2. CASE i = k
      BY <3>2
    <3>3. QED
      BY <3>1, <3>2
  <2> HIDE DEF g
  <2>7. Upto(k)
    BY <2>4, <2>5, <2>6 DEF Iterates
  <2> HIDE DEF Upto
  <2>8. QED
    BY <2>7
<1>3. 0..n \subseteq S
  <2> HIDE DEF S
  <2>1. QED
    BY <1>1, <1>2, SetInduction
<1>4. n \in S
  BY <1>3
<1>5. QED
  BY <1>4
=============================================================================
