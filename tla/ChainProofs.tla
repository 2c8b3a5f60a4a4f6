----------------------------- MODULE ChainProofs ------------------------------
(***************************************************************************)
(* Theorems about module Chain, for every block tree, every commit         *)
(* interval and any number of crashes.                                     *)
(***************************************************************************)
EXTENDS Chain, TLAPS, SequenceTheorems, FiniteSetTheorems

-----------------------------------------------------------------------------
(* The inductive invariant *)

Unloaded == {"down", "failed", "wipeTree", "load"}
Reorganizing == {"disconnect", "rebuildCoins", "truncateBlocks"}

\* The first n records of header file e have the heights of their places.
InPlace(e, n) == \A i \in 1..n : Height(e[i]) = i

\* Every record of e up to the first gap is the block of s at its height.
Agrees(e, s) ==
    \A n \in 1..Len(e) : InPlace(e, n) /\ n < Len(s) => e[n] = s[n + 1]

\* Up to the first gap the records of e are one branch.
OneBranch(e) ==
    \A n \in 1..Len(e) : InPlace(e, n) =>
        \A i \in 1..n : i < Len(Path[e[n]]) /\ e[i] = Path[e[n]][i + 1]

\* s and t are the same chain as far as both go.
Compatible(s, t) == \A i \in 1..Len(s) : i <= Len(t) => s[i] = t[i]

\* What is on disk when nothing is in memory.
OnDisk ==
    byHeight = << >> => OneBranch(entries) /\ Agrees(entries, stored)

\* The index in memory and what is on disk.
InMemory ==
    byHeight # << >> =>
        /\ Len(entries) <= persistedHeight /\ persistedHeight < Len(byHeight)
        /\ Agrees(entries, byHeight)
        /\ Compatible(stored, byHeight)

\* What an operation relies on between two of its durable writes.
InOperation ==
    /\ pc \in Unloaded <=> byHeight = << >>
    /\ pc \notin Unloaded \cup {"align"} => Len(stored) <= Len(byHeight)
    /\ pc \in {"mark", "store"} =>
        /\ Height(block) < Len(byHeight) /\ byHeight[Height(block) + 1] = block
        /\ stored = << >> => block = Genesis
    /\ pc \notin Unloaded \cup {"mark", "store"} => stored # << >>
    /\ pc \in Reorganizing => Work[block] > Work[Tip]
    /\ pc = "disconnect" => at < Len(stored)
    /\ pc = "rebuildCoins" => ForkHeight(block) < Len(stored)
    /\ pc = "truncateBlocks" => Len(entries) <= ForkHeight(block)
    /\ pc \in Unloaded => block = Genesis

IInv == TypeOK /\ BestIsPath /\ StoredIsPath /\ OnDisk /\ InMemory /\ InOperation

-----------------------------------------------------------------------------
(* Lemmas about numbers and about paths *)

\* A set of naturals that is bounded and not empty has a greatest element.
LEMMA MaxExists ==
    ASSUME NEW S \in SUBSET Nat, S # {}, NEW N \in Nat, \A x \in S : x <= N
    PROVE  Max(S) \in S /\ \A y \in S : y <= Max(S)
<1> DEFINE T == {x..N : x \in S}
<1>1. T # {} /\ T \subseteq FiniteSubsetsOf(Nat)
  <2>1. ASSUME NEW x \in S PROVE x..N \in FiniteSubsetsOf(Nat)
    <3>1. x \in Int /\ N \in Int /\ x..N \subseteq Nat
      OBVIOUS
    <3> QED
      BY <3>1, FS_Interval DEF FiniteSubsetsOf
  <2> QED
    BY <2>1
<1>2. PICK I \in T : \A J \in T : <<J, I>> \notin StrictSubsetOrdering(Nat)
  BY <1>1, WFMin, FS_StrictSubsetOrderingWellFounded
<1>3. PICK x \in S : I = x..N
  OBVIOUS
<1>4. \A y \in S : y <= x
  <2> SUFFICES ASSUME NEW y \in S, y > x PROVE FALSE
    OBVIOUS
  <2>1. y..N \in T /\ y..N \subseteq x..N
    OBVIOUS
  <2>2. x \in x..N /\ x \notin y..N
    OBVIOUS
  <2>3. <<y..N, I>> \in StrictSubsetOrdering(Nat)
    BY <2>1, <2>2, <1>3 DEF StrictSubsetOrdering
  <2> QED
    BY <2>1, <2>3, <1>2
<1> QED
  BY <1>4 DEF Max

LEMMA MinOfTwo ==
    ASSUME NEW a \in Int, NEW b \in Int
    PROVE  Min({a, b}) = IF a <= b THEN a ELSE b
  BY DEF Min

LEMMA MaxOfTwo ==
    ASSUME NEW a \in Int, NEW b \in Int
    PROVE  Max({a, b}) = IF a >= b THEN a ELSE b
  BY DEF Max

\* The commit boundary at or below a height is a height.
LEMMA BoundaryIsHeight ==
    ASSUME NEW h \in Nat
    PROVE  Boundary(h) \in Nat
<1>1. h \div TreeInterval \in Nat
  BY ParamsAssumption
<1> QED
  BY <1>1, ParamsAssumption DEF Boundary

LEMMA PathFacts ==
    ASSUME NEW b \in Blocks
    PROVE  /\ Path[b] \in Seq(Blocks) /\ Len(Path[b]) \in Nat /\ Len(Path[b]) >= 1
           /\ Path[b][1] = Genesis /\ Path[b][Len(Path[b])] = b
           /\ \A n \in 1..Len(Path[b]) :
                /\ Path[b][n] \in Blocks
                /\ Path[Path[b][n]] = SubSeq(Path[b], 1, n)
                /\ Height(Path[b][n]) = n - 1
           /\ Height(b) \in Nat
<1>1. Path[b] \in Seq(Blocks) /\ Path[b] # << >>
  BY BlocksAssumption
<1>2. Len(Path[b]) \in Nat /\ Len(Path[b]) >= 1
  BY <1>1, EmptySeq
<1>3. \A n \in 1..Len(Path[b]) :
         Path[b][n] \in Blocks /\ Path[Path[b][n]] = SubSeq(Path[b], 1, n)
  BY <1>1, BlocksAssumption, ElementOfSeq
<1>4. \A n \in 1..Len(Path[b]) : Len(SubSeq(Path[b], 1, n)) = n
  BY <1>1, <1>2
<1>5. \A n \in 1..Len(Path[b]) : Height(Path[b][n]) = n - 1
  BY <1>3, <1>4 DEF Height
<1> QED
  BY <1>1, <1>2, <1>3, <1>5, BlocksAssumption DEF Height

-----------------------------------------------------------------------------
(* Lemmas about the chain in memory and the header file *)

\* What is in memory below the fork is also below the block reorganised to.
LEMMA ForkFacts ==
    ASSUME byHeight \in Seq(Blocks), byHeight # << >>, BestIsPath, NEW b \in Blocks
    PROVE  /\ ForkHeight(b) \in Nat
           /\ ForkHeight(b) < Len(byHeight) /\ ForkHeight(b) < Len(Path[b])
           /\ \A n \in 1..(ForkHeight(b) + 1) : byHeight[n] = Path[b][n]
<1> DEFINE S == {n \in 1..Len(byHeight) : n <= Len(Path[b]) /\ byHeight[n] = Path[b][n]}
<1>1. Len(byHeight) \in Nat /\ Len(byHeight) >= 1 /\ Tip \in Blocks /\ byHeight = Path[Tip]
  BY EmptySeq, ElementOfSeq DEF BestIsPath, Tip, Last
<1>2. 1 \in S
  BY <1>1, PathFacts
<1>3. PICK m : m = Max(S)
  OBVIOUS
<1>4. m \in S
  <2>1. S \in SUBSET Nat /\ S # {} /\ \A x \in S : x <= Len(byHeight)
    BY <1>1, <1>2
  <2> HIDE DEF S
  <2> QED
    BY <2>1, <1>1, <1>3, MaxExists
<1>5. m \in Nat /\ m >= 1 /\ m <= Len(byHeight) /\ m <= Len(Path[b]) /\ byHeight[m] = Path[b][m]
  BY <1>1, <1>4
<1>6. ForkHeight(b) = m - 1
  BY <1>3 DEF ForkHeight
<1> HIDE DEF S
<1>7. ASSUME NEW n \in 1..m PROVE byHeight[n] = Path[b][n]
  <2>1. SubSeq(byHeight, 1, m) = SubSeq(Path[b], 1, m)
    <3>1. SubSeq(byHeight, 1, m) = Path[byHeight[m]]
      <4>1. m \in 1..Len(Path[Tip]) /\ Tip \in Blocks
        BY <1>5, <1>1
      <4>2. Path[Path[Tip][m]] = SubSeq(Path[Tip], 1, m)
        BY <4>1, PathFacts
      <4> QED
        BY <4>2, <1>1
    <3>2. SubSeq(Path[b], 1, m) = Path[Path[b][m]]
      BY <1>5, <1>1, PathFacts
    <3> QED
      BY <3>1, <3>2, <1>5
  <2>2. SubSeq(byHeight, 1, m)[n] = byHeight[n] /\ SubSeq(Path[b], 1, m)[n] = Path[b][n]
    BY <1>5, <1>1, PathFacts
  <2> QED
    BY <2>1, <2>2
<1> QED
  BY <1>1, <1>5, <1>6, <1>7, PathFacts

\* The lower part of a path is a path.
LEMMA PrefixIsPath ==
    ASSUME NEW s \in Seq(Blocks), s # << >>, s = Path[Last(s)], NEW n \in 1..Len(s)
    PROVE  /\ SubSeq(s, 1, n) \in Seq(Blocks) /\ SubSeq(s, 1, n) # << >>
           /\ Len(SubSeq(s, 1, n)) = n /\ Last(SubSeq(s, 1, n)) = s[n]
           /\ SubSeq(s, 1, n) = Path[Last(SubSeq(s, 1, n))]
           /\ \A i \in 1..n : SubSeq(s, 1, n)[i] = s[i]
<1>1. Len(s) \in Nat /\ Len(s) >= 1 /\ Last(s) \in Blocks
  BY EmptySeq, ElementOfSeq DEF Last
<1>2. Path[s[n]] = SubSeq(s, 1, n)
  BY <1>1, PathFacts
<1>3. /\ SubSeq(s, 1, n) \in Seq(Blocks) /\ Len(SubSeq(s, 1, n)) = n
      /\ \A i \in 1..n : SubSeq(s, 1, n)[i] = s[i]
  BY <1>1, ElementOfSeq
<1> QED
  BY <1>1, <1>2, <1>3 DEF Last

\* Truncating the header file keeps its records below the height.
LEMMA TruncateAgrees ==
    ASSUME entries \in Seq(Blocks), NEW h \in Nat
    PROVE  /\ Truncated(h) \in Seq(Blocks)
           /\ Len(Truncated(h)) <= h /\ Len(Truncated(h)) <= Len(entries)
           /\ \A n \in 1..Len(Truncated(h)) : /\ Truncated(h)[n] = entries[n]
                                              /\ InPlace(Truncated(h), n) <=> InPlace(entries, n)
<1> DEFINE m == Min({h, Len(entries)})
<1>1. m \in 0..Len(entries) /\ m <= h
  <2>1. Len(entries) \in Nat
    OBVIOUS
  <2> QED
    BY <2>1, MinOfTwo
<1> HIDE DEF m
<1>2. /\ SubSeq(entries, 1, m) \in Seq(Blocks) /\ Len(SubSeq(entries, 1, m)) = m
      /\ \A n \in 1..m : SubSeq(entries, 1, m)[n] = entries[n]
  BY <1>1, ElementOfSeq, SubSeqProperties
<1>3. Truncated(h) = SubSeq(entries, 1, m)
  BY DEF Truncated, m
<1> QED
  BY <1>1, <1>2, <1>3 DEF InPlace

\* A flush keeps the header file in agreement with the chain it writes, also
\* when it leaves a gap.
LEMMA FlushAgrees ==
    ASSUME entries \in Seq(Blocks), persistedHeight \in Nat,
           NEW chain \in Seq(Blocks), chain # << >>, chain = Path[Last(chain)],
           Len(entries) <= persistedHeight, persistedHeight < Len(chain), Agrees(entries, chain)
    PROVE  /\ Flushed(chain) \in Seq(Blocks)
           /\ Len(Flushed(chain)) < Len(chain)
           /\ Agrees(Flushed(chain), chain)
<1> DEFINE new == SubSeq(chain, persistedHeight + 2, Len(chain))
           e == Flushed(chain)
<1>1. Len(entries) \in Nat /\ Len(chain) \in Nat /\ Len(chain) >= 1 /\ Last(chain) \in Blocks
  BY EmptySeq, ElementOfSeq DEF Last
<1>2. /\ new \in Seq(Blocks) /\ Len(new) = Len(chain) - (persistedHeight + 1)
      /\ \A i \in 1..Len(new) : new[i] = chain[persistedHeight + 1 + i]
  <2>1. \A i \in (persistedHeight + 2)..Len(chain) : chain[i] \in Blocks
    BY <1>1, ElementOfSeq
  <2>2. persistedHeight + 2 \in Int /\ Len(chain) \in Int
    BY <1>1
  <2> QED
    BY <2>1, <2>2, <1>1, SubSeqProperties
<1>3. /\ e \in Seq(Blocks) /\ Len(e) = Len(entries) + Len(new)
      /\ \A i \in 1..Len(entries) : e[i] = entries[i]
      /\ \A i \in (Len(entries) + 1)..Len(e) :
            e[i] = chain[persistedHeight + 1 + i - Len(entries)]
  <2>1. e = entries \o new
    BY DEF Flushed
  <2> HIDE DEF e, new
  <2>2. /\ e \in Seq(Blocks) /\ Len(e) = Len(entries) + Len(new)
        /\ \A i \in 1..Len(entries) + Len(new) :
              e[i] = IF i <= Len(entries) THEN entries[i] ELSE new[i - Len(entries)]
    BY <2>1, <1>2, ConcatProperties
  <2>3. ASSUME NEW i \in (Len(entries) + 1)..Len(e)
        PROVE  e[i] = chain[persistedHeight + 1 + i - Len(entries)]
    <3>1. i - Len(entries) \in 1..Len(new) /\ ~(i <= Len(entries)) /\ i \in 1..Len(entries) + Len(new)
      BY <2>2, <1>1, <1>2
    <3>2. e[i] = new[i - Len(entries)]
      BY <3>1, <2>2
    <3>3. persistedHeight + 1 + (i - Len(entries)) = persistedHeight + 1 + i - Len(entries)
      BY <1>1
    <3> QED
      BY <3>1, <3>2, <3>3, <1>2
  <2>4. ASSUME NEW i \in 1..Len(entries) PROVE e[i] = entries[i]
    BY <2>2, <1>1, <1>2
  <2> QED
    BY <2>2, <2>3, <2>4
<1>4. ASSUME NEW n \in 1..Len(e), InPlace(e, n) PROVE e[n] = chain[n + 1]
  <2>1. CASE n <= Len(entries)
    <3>1. n \in 1..Len(entries) /\ InPlace(entries, n) /\ n < Len(chain)
      BY <2>1, <1>1, <1>3, <1>4 DEF InPlace
    <3> QED
      BY <3>1, <1>3 DEF Agrees
  <2>2. CASE n > Len(entries)
    <3>1. e[Len(entries) + 1] = chain[persistedHeight + 2]
      BY <2>2, <1>1, <1>3
    <3>2. Height(chain[persistedHeight + 2]) = persistedHeight + 1
      <4>1. Last(chain) \in Blocks
        BY <1>1
      <4>2. persistedHeight + 2 \in 1..Len(Path[Last(chain)])
        <5>1. Len(e) > Len(entries) /\ Len(e) \in Nat
          BY <2>2, <1>1, <1>3
        <5>2. Len(chain) >= persistedHeight + 2
          BY <5>1, <1>1, <1>2, <1>3
        <5> QED
          BY <5>2, <1>1
      <4>3. Height(Path[Last(chain)][persistedHeight + 2]) = (persistedHeight + 2) - 1
        BY <4>1, <4>2, PathFacts
      <4> QED
        BY <4>3, <1>1
    <3>3. Height(e[Len(entries) + 1]) = Len(entries) + 1
      BY <2>2, <1>1, <1>4 DEF InPlace
    <3>4. persistedHeight = Len(entries)
      BY <3>1, <3>2, <3>3, <1>1
    <3> QED
      BY <2>2, <3>4, <1>1, <1>3
  <2> QED
    BY <2>1, <2>2, <1>1
<1>5. e = Flushed(chain)
  OBVIOUS
<1> HIDE DEF new, e
<1> QED
  BY <1>1, <1>2, <1>3, <1>4, <1>5 DEF Agrees

\* What Chain.init loads is a path, and agrees with the file it was loaded from.
LEMMA LoadFacts ==
    ASSUME entries \in Seq(Blocks), OneBranch(entries)
    PROVE  /\ Contiguous \in 0..Len(entries) /\ InPlace(entries, Contiguous)
           /\ LoadedChain \in Seq(Blocks) /\ Len(LoadedChain) = Contiguous + 1
           /\ LoadedChain[1] = Genesis
           /\ \A i \in 1..Contiguous : LoadedChain[i + 1] = entries[i]
           /\ LoadedChain = Path[Last(LoadedChain)]
<1> DEFINE S == {n \in 0..Len(entries) : \A i \in 1..n : Height(entries[i]) = i}
<1>1. Len(entries) \in Nat /\ Genesis \in Blocks /\ Path[Genesis] = <<Genesis>>
  BY BlocksAssumption
<1>2. PICK m : m = Max(S)
  OBVIOUS
<1>3. m \in S
  <2>1. S \in SUBSET Nat /\ S # {} /\ \A x \in S : x <= Len(entries)
    <3>1. 0 \in S
      BY <1>1
    <3> QED
      BY <1>1, <3>1
  <2> HIDE DEF S
  <2> QED
    BY <2>1, <1>1, <1>2, MaxExists
<1>4. m \in 0..Len(entries) /\ InPlace(entries, m)
  BY <1>3 DEF InPlace
<1>5. Contiguous = m
  BY <1>2 DEF Contiguous
<1> HIDE DEF S
<1>6. /\ SubSeq(entries, 1, m) \in Seq(Blocks) /\ Len(SubSeq(entries, 1, m)) = m
      /\ \A i \in 1..m : SubSeq(entries, 1, m)[i] = entries[i]
  BY <1>1, <1>4, ElementOfSeq, SubSeqProperties
<1>7. LoadedChain = <<Genesis>> \o SubSeq(entries, 1, m)
  BY <1>5 DEF LoadedChain
<1>8. /\ LoadedChain \in Seq(Blocks) /\ Len(LoadedChain) = m + 1
      /\ LoadedChain[1] = Genesis
      /\ \A i \in 1..m : LoadedChain[i + 1] = entries[i]
  <2>1. <<Genesis>> \in Seq(Blocks) /\ Len(<<Genesis>>) = 1 /\ <<Genesis>>[1] = Genesis
    BY <1>1
  <2>2. /\ LoadedChain \in Seq(Blocks) /\ Len(LoadedChain) = 1 + m
        /\ \A i \in 1..(1 + m) : LoadedChain[i] =
              IF i <= 1 THEN <<Genesis>>[i] ELSE SubSeq(entries, 1, m)[i - 1]
    BY <2>1, <1>6, <1>7, ConcatProperties
  <2>3. ASSUME NEW i \in 1..m PROVE LoadedChain[i + 1] = entries[i]
    <3>1. i + 1 \in 1..(1 + m) /\ ~(i + 1 <= 1) /\ (i + 1) - 1 = i
      BY <1>4, <1>1
    <3> QED
      BY <3>1, <2>2, <1>6
  <2> QED
    BY <2>1, <2>2, <2>3, <1>4, <1>1
<1>9. LoadedChain = Path[Last(LoadedChain)]
  <2>1. CASE m = 0
    BY <2>1, <1>1, <1>8, SeqEqual DEF Last
  <2>2. CASE m # 0
    <3> DEFINE b == entries[m]
    <3>1. m \in 1..Len(entries) /\ b \in Blocks /\ Last(LoadedChain) = b
      BY <2>2, <1>1, <1>4, <1>8, ElementOfSeq DEF Last
    <3>2. Path[b] \in Seq(Blocks) /\ Len(Path[b]) = m + 1 /\ Path[b][1] = Genesis
      <4>1. Height(b) = m
        BY <3>1, <1>4 DEF InPlace
      <4> QED
        BY <4>1, <3>1, <1>1, <1>4, PathFacts DEF Height
    <3>3. \A i \in 1..m : entries[i] = Path[b][i + 1]
      BY <3>1, <1>4 DEF OneBranch
    <3>4. ASSUME NEW i \in 1..(m + 1) PROVE LoadedChain[i] = Path[b][i]
      <4>1. CASE i = 1
        BY <4>1, <1>8, <3>2
      <4>2. CASE i # 1
        <5>1. i - 1 \in 1..m /\ (i - 1) + 1 = i
          BY <4>2, <1>4, <1>1
        <5> QED
          BY <5>1, <3>3, <1>8
      <4> QED
        BY <4>1, <4>2
    <3> QED
      BY <3>1, <3>2, <3>4, <1>8, SeqEqual
  <2> QED
    BY <2>1, <2>2
<1> QED
  BY <1>4, <1>5, <1>8, <1>9

\* After a crash the header file is one branch, that of the stored blocks.
LEMMA DiskAfterCrash ==
    ASSUME TypeOK, BestIsPath, InMemory, byHeight # << >>
    PROVE  OneBranch(entries) /\ Agrees(entries, stored)
<1>1. /\ Len(entries) \in Nat /\ Len(byHeight) \in Nat /\ Len(byHeight) >= 1 /\ Len(stored) \in Nat
      /\ Tip \in Blocks /\ byHeight = Path[Tip] /\ Len(entries) < Len(byHeight)
  BY EmptySeq, ElementOfSeq DEF BestIsPath, Tip, Last, TypeOK, InMemory
<1>2. ASSUME NEW n \in 1..Len(entries), InPlace(entries, n)
      PROVE  n \in 1..Len(byHeight) /\ n + 1 \in 1..Len(byHeight) /\ entries[n] = byHeight[n + 1]
  BY <1>1, <1>2 DEF InMemory, Agrees
<1>3. OneBranch(entries)
  <2> SUFFICES ASSUME NEW n \in 1..Len(entries), InPlace(entries, n), NEW i \in 1..n
               PROVE  i < Len(Path[entries[n]]) /\ entries[i] = Path[entries[n]][i + 1]
    BY DEF OneBranch
  <2>1. i \in 1..Len(entries) /\ InPlace(entries, i)
    BY <1>1 DEF InPlace
  <2>2. Path[byHeight[n + 1]] = SubSeq(byHeight, 1, n + 1)
    <3>1. n + 1 \in 1..Len(Path[Tip])
      BY <1>1, <1>2
    <3> QED
      BY <3>1, <1>1, PathFacts
  <2>3. i + 1 \in 1..(n + 1) /\ n + 1 \in 1..Len(byHeight)
    BY <1>1, <1>2
  <2>4. Len(SubSeq(byHeight, 1, n + 1)) = n + 1 /\ SubSeq(byHeight, 1, n + 1)[i + 1] = byHeight[i + 1]
    BY <2>3, <1>1 DEF TypeOK
  <2> QED
    BY <1>2, <2>1, <2>2, <2>3, <2>4
<1>4. Agrees(entries, stored)
  BY <1>1, <1>2 DEF Agrees, InMemory, Compatible
<1> QED
  BY <1>3, <1>4

-----------------------------------------------------------------------------
(* Lemmas about the parts of a step *)

\* The conjuncts of TypeOK about the name state.
NamesOK ==
    /\ pending \in Seq(NameBlocks)
    /\ nameDB.height \in Nat \cup {-1}
    /\ nameDB.tree \in Seq(NameBlocks)
    /\ DOMAIN nameDB.snapshots \subseteq Nat
    /\ \A k \in DOMAIN nameDB.snapshots : nameDB.snapshots[k] \in Seq(NameBlocks)

LEMMA RollBackTyped ==
    ASSUME TypeOK, NEW h \in Nat, CanRollBack(h), RollBackNames(h)
    PROVE  NamesOK'
<1> DEFINE c == Boundary(h)
           top == Min({h + 1, Len(stored)})
           kept == DOMAIN nameDB.snapshots \ StaleSnapshots(c)
<1>1. c \in Nat /\ c \in DOMAIN nameDB.snapshots
  BY BoundaryIsHeight DEF CanRollBack
<1>2. /\ pending' = SubSeq(stored, c + 2, top)
      /\ nameDB' = [height |-> c, tree |-> nameDB.snapshots[c],
                    snapshots |-> [k \in kept |-> nameDB.snapshots[k]]]
  BY DEF RollBackNames
<1>3. top \in Int /\ top <= Len(stored) /\ Len(stored) \in Nat
  <2>1. Len(stored) \in Nat
    BY DEF TypeOK
  <2> QED
    BY <2>1, MinOfTwo
<1>4. kept \subseteq DOMAIN nameDB.snapshots
  OBVIOUS
<1> HIDE DEF c, top, kept
<1>5. pending' \in Seq(NameBlocks)
  <2>1. \A i \in (c + 2)..top : stored[i] \in NameBlocks
    BY <1>1, <1>3, ElementOfSeq DEF TypeOK, NameBlocks
  <2>2. c + 2 \in Int
    BY <1>1
  <2>3. SubSeq(stored, c + 2, top) \in Seq(NameBlocks)
    BY <2>1, <2>2, <1>3, SubSeqProperties
  <2> QED
    BY <2>3, <1>2
<1>6. /\ nameDB'.height = c /\ nameDB'.tree = nameDB.snapshots[c]
      /\ nameDB'.snapshots = [k \in kept |-> nameDB.snapshots[k]]
  BY <1>2
<1> QED
  BY <1>1, <1>4, <1>5, <1>6 DEF NamesOK, TypeOK

LEMMA CommittedTyped ==
    ASSUME TypeOK, NEW h \in Nat, NEW pend \in Seq(NameBlocks),
           nameDB' = Committed(h, pend), pending' \in Seq(NameBlocks)
    PROVE  NamesOK'
<1> DEFINE tree == nameDB.tree \o pend
           dom == DOMAIN nameDB.snapshots \cup {h}
<1>1. tree \in Seq(NameBlocks)
  BY DEF TypeOK
<1>2. nameDB' = [height |-> h, tree |-> tree,
                 snapshots |-> [k \in dom |-> IF k = h THEN tree ELSE nameDB.snapshots[k]]]
  BY DEF Committed
<1>3. dom \subseteq Nat /\ \A k \in dom : k # h => k \in DOMAIN nameDB.snapshots
  BY DEF TypeOK
<1> HIDE DEF tree, dom
<1>4. /\ nameDB'.height = h /\ nameDB'.tree = tree
      /\ nameDB'.snapshots = [k \in dom |-> IF k = h THEN tree ELSE nameDB.snapshots[k]]
  BY <1>2
<1> QED
  BY <1>1, <1>3, <1>4 DEF NamesOK, TypeOK

LEMMA NamesUpToTyped ==
    ASSUME TypeOK, NEW h \in Nat, NEW pend \in Seq(NameBlocks), NamesUpTo(h, pend)
    PROVE  NamesOK'
<1>1. CASE h % TreeInterval = 0
  <2>1. << >> \in Seq(NameBlocks)
    OBVIOUS
  <2> QED
    BY <1>1, <2>1, CommittedTyped DEF NamesUpTo
<1>2. CASE h % TreeInterval # 0
  BY <1>2 DEF NamesUpTo, NamesOK, TypeOK
<1> QED
  BY <1>1, <1>2

\* Replaying a block over the pending map, be it there already or not.
LEMMA ReplayedTyped ==
    ASSUME TypeOK, NEW h \in Nat, NEW b \in Blocks
    PROVE  Replayed(h, b) \in Seq(NameBlocks)
<1>1. pending \in Seq(NameBlocks) /\ Append(pending, b) \in Seq(NameBlocks)
  BY DEF TypeOK, NameBlocks
<1>2. Len(pending) \in Nat /\ nameDB.height \in Nat \cup {-1}
  BY <1>1 DEF TypeOK
<1>3. CASE h <= nameDB.height + Len(pending)
  <2>1. Twice[b] \in NameBlocks
    BY DEF NameBlocks
  <2>2. [pending EXCEPT ![h - nameDB.height] = Twice[b]] \in Seq(NameBlocks)
    <3> DEFINE i == h - nameDB.height
    <3>1. CASE i \in 1..Len(pending)
      BY <1>1, <2>1, <3>1, ExceptSeq
    <3>2. CASE i \notin DOMAIN pending
      <4>1. pending = [j \in DOMAIN pending |-> pending[j]]
        BY <1>1
      <4> HIDE DEF i
      <4>2. [pending EXCEPT ![i] = Twice[b]] = [j \in DOMAIN pending |-> pending[j]]
        BY <3>2, Zenon
      <4> QED
        BY <1>1, <4>1, <4>2 DEF i
    <3>3. DOMAIN pending = 1..Len(pending)
      BY <1>1
    <3> QED
      BY <3>1, <3>2, <3>3
  <2> QED
    BY <1>3, <2>2 DEF Replayed
<1>4. CASE ~(h <= nameDB.height + Len(pending))
  BY <1>1, <1>4 DEF Replayed
<1> QED
  BY <1>3, <1>4

LEMMA EmptyTyped ==
    ASSUME nameDB' = EmptyNames, pending' \in Seq(NameBlocks)
    PROVE  NamesOK'
<1>1. /\ nameDB'.height = -1 /\ nameDB'.tree = << >> /\ nameDB'.snapshots = << >>
      /\ << >> \in Seq(NameBlocks) /\ DOMAIN << >> = {}
  BY DEF EmptyNames
<1> QED
  BY <1>1 DEF NamesOK

\* A step that leaves the chain in memory and the files of headers and blocks
\* alone keeps what is said about them.
LEMMA QuietStep ==
    ASSUME BestIsPath, StoredIsPath, OnDisk, InMemory,
           UNCHANGED <<byHeight, persistedHeight, entries, stored>>
    PROVE  BestIsPath' /\ StoredIsPath' /\ OnDisk' /\ InMemory'
<1>1. BestIsPath' /\ StoredIsPath'
  BY DEF BestIsPath, StoredIsPath, Tip
<1>2. OnDisk'
  BY DEF OnDisk
<1>3. InMemory'
  BY DEF InMemory
<1> QED
  BY <1>1, <1>2, <1>3

\* A child of the tip of a path extends it to its own path.
LEMMA ExtendPath ==
    ASSUME NEW s \in Seq(Blocks), s # << >>, s = Path[Last(s)],
           NEW b \in Blocks \ {Genesis}, Parent(b) = Last(s)
    PROVE  /\ Append(s, b) = Path[b]
           /\ Height(b) = Len(s)
           /\ Append(s, b) \in Seq(Blocks) /\ Append(s, b) # << >>
           /\ Len(Append(s, b)) = Len(s) + 1 /\ Last(Append(s, b)) = b
           /\ \A i \in 1..Len(s) : Append(s, b)[i] = s[i]
<1> DEFINE k == Len(Path[b]) - 1
<1>1. /\ Len(Path[b]) \in Nat /\ Len(Path[b]) >= 1 /\ Path[b][1] = Genesis
      /\ Path[b][Len(Path[b])] = b /\ Path[b] \in Seq(Blocks)
  BY PathFacts
<1>2. k \in Nat /\ k >= 1
  BY <1>1
<1>3. Path[Path[b][k]] = SubSeq(Path[b], 1, k)
  <2>1. k \in 1..Len(Path[b])
    BY <1>1, <1>2
  <2> HIDE DEF k
  <2> QED
    BY <2>1, PathFacts
<1>4. s = SubSeq(Path[b], 1, k)
  BY <1>3 DEF Parent
<1>5. Len(s) = k /\ \A i \in 1..k : s[i] = Path[b][i]
  BY <1>1, <1>2, <1>4
<1>6. /\ Append(s, b) \in Seq(Blocks) /\ Append(s, b) # << >> /\ Len(Append(s, b)) = Len(s) + 1
      /\ \A i \in 1..Len(s) : Append(s, b)[i] = s[i]
      /\ Append(s, b)[Len(s) + 1] = b
  BY AppendProperties
<1>7. Append(s, b) = Path[b]
  <2>1. \A i \in 1..Len(Append(s, b)) : Append(s, b)[i] = Path[b][i]
    BY <1>1, <1>2, <1>5, <1>6
  <2> QED
    BY <2>1, <1>1, <1>2, <1>5, <1>6, SeqEqual
<1> QED
  BY <1>1, <1>2, <1>5, <1>6, <1>7 DEF Height, Last

\* A new tip on top of the old one.
LEMMA ExtendMemory ==
    ASSUME IInv, NEW b \in Blocks \ {Genesis}, pc = "idle", Parent(b) = Tip,
           byHeight' = Append(byHeight, b), UNCHANGED <<persistedHeight, entries, stored>>
    PROVE  /\ byHeight' \in Seq(Blocks) /\ byHeight' # << >> /\ Len(byHeight') = Len(byHeight) + 1
           /\ byHeight'[Height(b) + 1] = b /\ Height(b) = Len(byHeight)
           /\ BestIsPath' /\ StoredIsPath' /\ OnDisk' /\ InMemory'
<1>1. byHeight \in Seq(Blocks) /\ byHeight # << >> /\ byHeight = Path[Last(byHeight)]
  BY DEF IInv, InOperation, Unloaded, TypeOK, BestIsPath, Tip
<1>2. /\ byHeight' = Path[b] /\ Height(b) = Len(byHeight)
      /\ byHeight' \in Seq(Blocks) /\ byHeight' # << >>
      /\ Len(byHeight') = Len(byHeight) + 1 /\ Last(byHeight') = b
      /\ \A i \in 1..Len(byHeight) : byHeight'[i] = byHeight[i]
  BY <1>1, ExtendPath DEF Tip
<1>3. Len(byHeight) \in Nat /\ Len(entries) \in Nat /\ Len(stored) \in Nat /\ persistedHeight \in Nat
  BY DEF IInv, TypeOK
<1>4. BestIsPath' /\ StoredIsPath' /\ OnDisk'
  BY <1>2 DEF BestIsPath, Tip, IInv, StoredIsPath, OnDisk
<1>5. InMemory'
  <2>1. /\ Len(entries) <= persistedHeight /\ persistedHeight < Len(byHeight)
        /\ Agrees(entries, byHeight) /\ Compatible(stored, byHeight) /\ Len(stored) <= Len(byHeight)
    BY <1>1 DEF IInv, InMemory, InOperation, Unloaded
  <2>2. Agrees(entries, byHeight')
    BY <2>1, <1>2, <1>3 DEF Agrees
  <2>3. Compatible(stored, byHeight')
    BY <2>1, <1>2, <1>3 DEF Compatible
  <2> QED
    BY <2>1, <2>2, <2>3, <1>2, <1>3 DEF InMemory
<1> QED
  BY <1>1, <1>2, <1>3, <1>4, <1>5, ElementOfSeq DEF Last

-----------------------------------------------------------------------------
(* The steps *)

LEMMA InitInvariant == Init => IInv
<1> SUFFICES ASSUME Init PROVE IInv
  OBVIOUS
<1>1. /\ Genesis \in Blocks /\ Path[Genesis] = <<Genesis>> /\ FreshStart \in BOOLEAN
      /\ <<Genesis>> \in Seq(Blocks) /\ Last(<<Genesis>>) = Genesis /\ << >> \in Seq(Blocks)
      /\ Len(<< >>) = 0
  BY BlocksAssumption, ParamsAssumption DEF Last
<1>2. NamesOK
  <2>1. << >> \in Seq(NameBlocks) /\ <<Genesis>> \in Seq(NameBlocks) /\ pending = << >>
    BY <1>1 DEF Init, NameBlocks
  <2>2. CASE FreshStart
    <3>1. nameDB.height = -1 /\ nameDB.tree = << >> /\ nameDB.snapshots = << >> /\ DOMAIN << >> = {}
      BY <2>2 DEF Init, EmptyNames
    <3> QED
      BY <2>1, <3>1 DEF NamesOK
  <2>3. CASE ~FreshStart
    <3>1. /\ nameDB.height = 0 /\ nameDB.tree = <<Genesis>>
          /\ nameDB.snapshots = [k \in {0} |-> <<Genesis>>]
      BY <2>3 DEF Init
    <3> QED
      BY <2>1, <3>1 DEF NamesOK
  <2> QED
    BY <2>2, <2>3
<1>3. coinDB \in [applied : SUBSET Blocks, height : Nat \cup {-1}, undo : SUBSET Nat,
                  pending : Nat \cup {-1}]
  BY <1>1 DEF Init, EmptyCoins
<1>4. stored \in Seq(Blocks) /\ (stored # << >> => stored = Path[Last(stored)])
  BY <1>1 DEF Init
<1>5. TypeOK
  BY <1>1, <1>2, <1>3, <1>4 DEF Init, TypeOK, NamesOK, Positions
<1>6. OneBranch(entries) /\ Agrees(entries, stored)
  BY <1>1 DEF Init, OneBranch, Agrees
<1>7. InOperation
  BY DEF Init, InOperation, Unloaded, Reorganizing
<1> QED
  BY <1>4, <1>5, <1>6, <1>7 DEF Init, IInv, BestIsPath, StoredIsPath, OnDisk, InMemory

\* Connecting the block of a chain that is in memory.
LEMMA ConnectBlockStep ==
    ASSUME TypeOK, NEW chain \in Seq(Blocks), chain # << >>, chain = Path[Last(chain)],
           NEW h \in 1..(Len(chain) - 1), NEW next \in {"idle", "align", "check", "reindex"},
           ConnectBlock(chain, h, next)
    PROVE  /\ NamesOK' /\ pc' \in {"save", "mark"} /\ ret' = next /\ at' = 0
           /\ block' \in Blocks /\ Height(block') = h /\ chain[h + 1] = block'
           /\ UNCHANGED <<persistedHeight, entries, stored, coinDB, crashes>>
<1>1. Len(chain) \in Nat /\ Last(chain) \in Blocks /\ h + 1 \in 1..Len(chain)
  BY ElementOfSeq, EmptySeq DEF Last
<1>2. chain[h + 1] \in Blocks /\ Height(chain[h + 1]) = (h + 1) - 1
  <2>1. h + 1 \in 1..Len(Path[Last(chain)])
    BY <1>1
  <2>2. Path[Last(chain)][h + 1] \in Blocks /\ Height(Path[Last(chain)][h + 1]) = (h + 1) - 1
    BY <1>1, <2>1, PathFacts
  <2> QED
    BY <2>2
<1>3. NamesOK'
  <2>1. Append(pending, chain[h + 1]) \in Seq(NameBlocks)
    BY <1>2 DEF TypeOK, NameBlocks
  <2>2. NamesUpTo(h, Append(pending, chain[h + 1])) /\ h \in Nat
    BY DEF ConnectBlock
  <2> QED
    BY <2>1, <2>2, NamesUpToTyped
<1> QED
  BY <1>1, <1>2, <1>3 DEF ConnectBlock

LEMMA HeadersStep ==
    ASSUME IInv, NEW b \in Blocks \ {Genesis},
           \/ AddSideHeader(b) \/ AddTipHeader(b) \/ BeginReorg(b) \/ FailReorg(b)
           \/ SubmitBlock(b)
    PROVE  IInv'
<1>1. CASE AddSideHeader(b)
  <2>1. TypeOK'
    BY <1>1 DEF AddSideHeader, IInv, TypeOK, memory, disk, control
  <2>2. BestIsPath' /\ StoredIsPath' /\ OnDisk' /\ InMemory'
    BY <1>1, QuietStep DEF AddSideHeader, IInv, disk
  <2>3. InOperation'
    BY <1>1 DEF AddSideHeader, NewHeader, IInv, InOperation, Unloaded, Reorganizing, disk, control
  <2> QED
    BY <2>1, <2>2, <2>3 DEF IInv
<1>2. CASE AddTipHeader(b)
  <2>1. /\ byHeight' \in Seq(Blocks) /\ byHeight' # << >> /\ Len(byHeight') = Len(byHeight) + 1
        /\ BestIsPath' /\ StoredIsPath' /\ OnDisk' /\ InMemory'
    BY <1>2, ExtendMemory DEF AddTipHeader, NewHeader, disk
  <2>2. TypeOK'
    BY <1>2, <2>1 DEF AddTipHeader, IInv, TypeOK, disk, control
  <2>3. InOperation'
    BY <1>2, <2>1 DEF AddTipHeader, NewHeader, IInv, InOperation, Unloaded, Reorganizing,
                      disk, control, TypeOK
  <2> QED
    BY <2>1, <2>2, <2>3 DEF IInv
<1>3. CASE BeginReorg(b)
  <2>1. /\ byHeight # << >> /\ Len(byHeight) \in Nat /\ Len(byHeight) >= 1 /\ Len(stored) \in Nat
        /\ Len(stored) <= Len(byHeight) /\ Len(stored) >= 1 /\ stored # << >>
    BY <1>3, EmptySeq DEF BeginReorg, ForkHeader, NewHeader, IInv, InOperation, Unloaded, TypeOK
  <2>2. ForkHeight(b) \in Nat
    BY <2>1, ForkFacts DEF IInv, TypeOK
  <2>3. NamesOK'
    BY <1>3, <2>2, RollBackTyped DEF BeginReorg, IInv
  <2>4. at' \in Nat /\ at' < Len(stored)
    <3>1. at' = Min({TipHeight, StoredHeight})
      BY <1>3 DEF BeginReorg
    <3>2. TipHeight \in Nat /\ StoredHeight \in Nat
      BY <2>1, <2>2 DEF TipHeight, StoredHeight
    <3>3. Min({TipHeight, StoredHeight}) \in Nat /\ Min({TipHeight, StoredHeight}) <= StoredHeight
      BY <3>2, MinOfTwo
    <3> QED
      BY <2>1, <3>1, <3>3 DEF StoredHeight
  <2>5. TypeOK'
    BY <1>3, <2>3, <2>4 DEF BeginReorg, IInv, TypeOK, NamesOK, Positions
  <2>6. BestIsPath' /\ StoredIsPath' /\ OnDisk' /\ InMemory'
    BY <1>3, QuietStep DEF BeginReorg, IInv
  <2>7. ForkHeight(block)' = ForkHeight(b) /\ Tip' = Tip
    BY <1>3 DEF BeginReorg, ForkHeight, Tip
  <2>8. InOperation'
    BY <1>3, <2>1, <2>4, <2>7 DEF BeginReorg, ForkHeader, InOperation, Unloaded, Reorganizing
  <2> QED
    BY <2>5, <2>6, <2>8 DEF IInv
<1>4. CASE FailReorg(b)
  <2>1. byHeight # << >>
    BY <1>4 DEF FailReorg, ForkHeader, NewHeader, IInv, InOperation, Unloaded
  <2>2. ForkHeight(b) \in Nat
    BY <2>1, ForkFacts DEF IInv, TypeOK
  <2>3. NamesOK'
    BY <1>4, <2>2, RollBackTyped DEF FailReorg, IInv, NamesOK, TypeOK
  <2>4. TypeOK'
    BY <1>4, <2>3 DEF FailReorg, IInv, TypeOK, NamesOK, control
  <2>5. BestIsPath' /\ StoredIsPath' /\ OnDisk' /\ InMemory'
    BY <1>4, QuietStep DEF FailReorg, IInv
  <2>6. InOperation'
    BY <1>4, <2>1 DEF FailReorg, ForkHeader, NewHeader, IInv, InOperation, Unloaded,
                      Reorganizing, control
  <2> QED
    BY <2>4, <2>5, <2>6 DEF IInv
<1>5. CASE SubmitBlock(b)
  <2>1. /\ pc = "idle" /\ Parent(b) = Tip /\ byHeight' = Append(byHeight, b)
        /\ ConnectBlock(byHeight', Height(b), "idle") /\ byHash' = byHash \cup {b}
    BY <1>5 DEF SubmitBlock, NewHeader
  <2>2. UNCHANGED <<persistedHeight, entries, stored, coinDB, crashes>>
    BY <2>1 DEF ConnectBlock
  <2>3. /\ byHeight' \in Seq(Blocks) /\ byHeight' # << >> /\ Len(byHeight') = Len(byHeight) + 1
        /\ byHeight'[Height(b) + 1] = b /\ Height(b) = Len(byHeight)
        /\ BestIsPath' /\ StoredIsPath' /\ OnDisk' /\ InMemory'
    BY <2>1, <2>2, ExtendMemory
  <2>4. byHeight' = Path[Last(byHeight')] /\ Len(byHeight) \in Nat /\ Len(byHeight) >= 1
    <3>1. byHeight # << >>
      BY <2>1 DEF IInv, InOperation, Unloaded
    <3> QED
      BY <3>1, <2>3, EmptySeq DEF BestIsPath, Tip, IInv, TypeOK
  <2>5. Height(b) \in 1..(Len(byHeight') - 1)
    BY <2>3, <2>4
  <2>6. /\ NamesOK' /\ pc' \in {"save", "mark"} /\ ret' = "idle" /\ at' = 0
        /\ block' \in Blocks /\ Height(block') = Height(b) /\ byHeight'[Height(b) + 1] = block'
    BY <2>1, <2>3, <2>4, <2>5, ConnectBlockStep DEF IInv
  <2>7. TypeOK'
    BY <2>1, <2>2, <2>3, <2>6 DEF IInv, TypeOK, NamesOK, Positions
  <2>8. InOperation'
    BY <2>1, <2>2, <2>3, <2>4, <2>6 DEF IInv, InOperation, Unloaded, Reorganizing, TypeOK
  <2> QED
    BY <2>3, <2>7, <2>8 DEF IInv
<1> QED
  BY <1>1, <1>2, <1>3, <1>4, <1>5

LEMMA SavedTyped ==
    ASSUME coinDB.applied \in SUBSET Blocks, coinDB.undo \in SUBSET Nat,
           NEW b \in Blocks, NEW h \in Nat, coinDB' = Saved(b, h)
    PROVE  coinDB' \in [applied : SUBSET Blocks, height : Nat \cup {-1}, undo : SUBSET Nat,
                        pending : Nat \cup {-1}]
  BY DEF Saved

\* What TypeOK says of the coin database, for the steps that change nothing else.
LEMMA CoinsTyped ==
    ASSUME TypeOK
    PROVE  /\ coinDB.applied \in SUBSET Blocks /\ coinDB.undo \in SUBSET Nat
           /\ coinDB.height \in Nat \cup {-1} /\ coinDB.pending \in Nat \cup {-1}
  BY DEF TypeOK

LEMMA ReorganizeStep ==
    ASSUME IInv, Reorganize
    PROVE  IInv'
<1> USE DEF Reorganizing
<1>1. /\ byHeight # << >> /\ byHeight \in Seq(Blocks) /\ Len(byHeight) \in Nat
      /\ stored \in Seq(Blocks) /\ Len(stored) \in Nat /\ block \in Blocks /\ at \in Nat
      /\ Len(stored) <= Len(byHeight) /\ Len(stored) >= 1 /\ stored # << >>
      /\ Work[block] > Work[Tip] /\ BestIsPath
  BY EmptySeq DEF Reorganize, DisconnectBlock, MissingUndo, RebuildCoins, TruncateEntries,
         TruncateBlocks, IInv, InOperation, Unloaded, TypeOK
<1>2. /\ ForkHeight(block) \in Nat /\ ForkHeight(block) < Len(byHeight)
      /\ ForkHeight(block) < Len(Path[block])
      /\ \A n \in 1..(ForkHeight(block) + 1) : byHeight[n] = Path[block][n]
  BY <1>1, ForkFacts
<1>3. CASE DisconnectBlock
  <2>1. at - 1 \in Nat
    BY <1>1, <1>2, <1>3 DEF DisconnectBlock
  <2>2. Max({0, at - 1}) \in Nat
    BY <2>1, MaxOfTwo
  <2>3. coinDB' \in [applied : SUBSET Blocks, height : Nat \cup {-1}, undo : SUBSET Nat,
                     pending : Nat \cup {-1}]
    BY <1>3, <2>2 DEF DisconnectBlock, IInv, TypeOK
  <2>4. TypeOK'
    BY <1>3, <2>1, <2>3 DEF DisconnectBlock, IInv, TypeOK, memory
  <2>5. BestIsPath' /\ StoredIsPath' /\ OnDisk' /\ InMemory'
    BY <1>3, QuietStep DEF DisconnectBlock, IInv, memory
  <2>6. ForkHeight(block)' = ForkHeight(block) /\ Tip' = Tip
    BY <1>3 DEF DisconnectBlock, memory, ForkHeight, Tip
  <2>7. InOperation'
    BY <1>1, <1>3, <2>6 DEF DisconnectBlock, IInv, InOperation, Unloaded, memory
  <2> QED
    BY <2>4, <2>5, <2>7 DEF IInv
<1>4. CASE MissingUndo
  <2>1. coinDB' \in [applied : SUBSET Blocks, height : Nat \cup {-1}, undo : SUBSET Nat,
                     pending : Nat \cup {-1}]
    BY <1>4 DEF MissingUndo, EmptyCoins
  <2>2. TypeOK'
    BY <1>4, <2>1 DEF MissingUndo, IInv, TypeOK, memory, Positions
  <2>3. BestIsPath' /\ StoredIsPath' /\ OnDisk' /\ InMemory'
    BY <1>4, QuietStep DEF MissingUndo, IInv, memory
  <2>4. ForkHeight(block)' = ForkHeight(block) /\ Tip' = Tip
    BY <1>4 DEF MissingUndo, memory, ForkHeight, Tip
  <2>5. InOperation'
    <3>1. ForkHeight(block) < Len(stored)
      BY <1>1, <1>2, <1>4 DEF MissingUndo, IInv, InOperation
    <3> QED
      BY <1>1, <1>4, <2>4, <3>1 DEF MissingUndo, InOperation, Unloaded, memory
  <2> QED
    BY <2>2, <2>3, <2>5 DEF IInv
<1>5. CASE RebuildCoins
  <2>0. ForkHeight(block) < Len(stored)
    BY <1>5 DEF RebuildCoins, IInv, InOperation
  <2>1. stored[at + 1] \in Blocks
    BY <1>1, <1>2, <1>5, <2>0, ElementOfSeq DEF RebuildCoins
  <2>2. coinDB' \in [applied : SUBSET Blocks, height : Nat \cup {-1}, undo : SUBSET Nat,
                     pending : Nat \cup {-1}]
    BY <1>1, <1>5, <2>1, CoinsTyped, SavedTyped DEF RebuildCoins, IInv
  <2>3. TypeOK'
    BY <1>5, <2>2 DEF RebuildCoins, IInv, TypeOK, memory
  <2>4. BestIsPath' /\ StoredIsPath' /\ OnDisk' /\ InMemory'
    BY <1>5, QuietStep DEF RebuildCoins, IInv, memory
  <2>5. ForkHeight(block)' = ForkHeight(block) /\ Tip' = Tip
    BY <1>5 DEF RebuildCoins, memory, ForkHeight, Tip
  <2>6. InOperation'
    BY <1>1, <1>5, <2>0, <2>5 DEF RebuildCoins, InOperation, Unloaded, memory
  <2> QED
    BY <2>3, <2>4, <2>6 DEF IInv
<1>6. CASE TruncateEntries
  <2>1. /\ entries' = Truncated(ForkHeight(block)) /\ pc' = "truncateBlocks" /\ at' = 0
        /\ UNCHANGED <<memory, stored, coinDB, nameDB, ret, block, crashes>>
    BY <1>6 DEF TruncateEntries
  <2>2. /\ entries' \in Seq(Blocks) /\ Len(entries') <= ForkHeight(block)
        /\ Len(entries') <= Len(entries) /\ Len(entries') \in Nat /\ Len(entries) \in Nat
        /\ \A n \in 1..Len(entries') : /\ entries'[n] = entries[n]
                                       /\ InPlace(entries', n) <=> InPlace(entries, n)
    <3> DEFINE f == ForkHeight(block)
    <3>1. f \in Nat /\ entries \in Seq(Blocks) /\ entries' = Truncated(f)
      BY <1>2, <2>1 DEF IInv, TypeOK
    <3> HIDE DEF f
    <3>2. /\ Truncated(f) \in Seq(Blocks)
          /\ Len(Truncated(f)) <= f /\ Len(Truncated(f)) <= Len(entries)
          /\ \A n \in 1..Len(Truncated(f)) : /\ Truncated(f)[n] = entries[n]
                                             /\ InPlace(Truncated(f), n) <=> InPlace(entries, n)
      BY <3>1, TruncateAgrees
    <3>3. /\ entries' \in Seq(Blocks) /\ Len(entries') <= f /\ Len(entries') <= Len(entries)
          /\ \A n \in 1..Len(entries') : /\ entries'[n] = entries[n]
                                         /\ InPlace(entries', n) <=> InPlace(entries, n)
      BY <3>1, <3>2
    <3> QED
      BY <3>1, <3>3 DEF f
  <2>3. TypeOK'
    BY <2>1, <2>2 DEF IInv, TypeOK, memory, Positions
  <2>4. BestIsPath' /\ StoredIsPath' /\ OnDisk'
    BY <1>1, <2>1 DEF IInv, BestIsPath, StoredIsPath, OnDisk, Tip, memory
  <2>5. InMemory'
    <3>1. Agrees(entries', byHeight)
      BY <1>1, <2>2 DEF IInv, InMemory, Agrees
    <3> QED
      BY <1>1, <2>1, <2>2, <3>1 DEF IInv, InMemory, memory, TypeOK
  <2>6. ForkHeight(block)' = ForkHeight(block) /\ Tip' = Tip
    BY <2>1 DEF memory, ForkHeight, Tip
  <2>7. InOperation'
    BY <1>1, <2>1, <2>2, <2>6 DEF InOperation, Unloaded, memory
  <2> QED
    BY <2>3, <2>4, <2>5, <2>7 DEF IInv
<1>7. CASE TruncateBlocks
  <2> DEFINE f == ForkHeight(block)
  <2>1. /\ pc = "truncateBlocks" /\ pc' = "idle" /\ ret' = "idle" /\ block' = Genesis /\ at' = 0
        /\ byHeight' = Path[block] /\ persistedHeight' = f
        /\ UNCHANGED <<byHash, pending, entries, coinDB, nameDB, crashes>>
    BY <1>7 DEF TruncateBlocks, Return
  <2> HIDE DEF f
  <2>2. f \in Nat /\ f < Len(byHeight) /\ f < Len(Path[block])
        /\ \A n \in 1..(f + 1) : byHeight[n] = Path[block][n]
    BY <1>2 DEF f
  <2>3. PICK m : m = Min({f + 1, Len(stored)})
    OBVIOUS
  <2>31. m \in 1..Len(stored) /\ m <= f + 1
    <3>1. Len(stored) \in Nat /\ Len(stored) >= 1 /\ f + 1 \in Nat /\ f + 1 >= 1
      BY <1>1, <2>1, <2>2, EmptySeq DEF IInv, TypeOK, InOperation, Unloaded
    <3>2. m = IF f + 1 <= Len(stored) THEN f + 1 ELSE Len(stored)
      BY <2>3, <3>1, MinOfTwo
    <3> QED
      BY <3>1, <3>2
  <2>4. /\ stored' \in Seq(Blocks) /\ stored' # << >> /\ Len(stored') = m
        /\ stored' = Path[Last(stored')]
        /\ \A i \in 1..m : stored'[i] = stored[i]
    <3>1. stored' = SubSeq(stored, 1, m)
      BY <1>7, <2>3 DEF TruncateBlocks, f
    <3>2. stored = Path[Last(stored)]
      BY <1>1 DEF IInv, StoredIsPath
    <3> QED
      BY <1>1, <2>31, <3>1, <3>2, PrefixIsPath
  <2>5. /\ byHeight' \in Seq(Blocks) /\ byHeight' # << >> /\ Last(byHeight') = block
        /\ Len(byHeight') \in Nat
    BY <1>1, <2>1, PathFacts, EmptySeq DEF Last
  <2>6. TypeOK'
    BY <1>1, <2>1, <2>2, <2>4, <2>5, BlocksAssumption DEF IInv, TypeOK, Positions
  <2>7. BestIsPath' /\ StoredIsPath' /\ OnDisk'
    BY <2>1, <2>4, <2>5 DEF BestIsPath, StoredIsPath, OnDisk, Tip
  <2>8. InMemory'
    <3>1. /\ Len(entries) <= f /\ Len(entries) \in Nat
          /\ Agrees(entries, byHeight) /\ Compatible(stored, byHeight)
      BY <1>1, <2>1 DEF IInv, InMemory, InOperation, TypeOK, f
    <3>2. Agrees(entries, byHeight')
      <4> SUFFICES ASSUME NEW n \in 1..Len(entries), InPlace(entries, n)
                   PROVE  entries[n] = byHeight'[n + 1]
        BY DEF Agrees
      <4>1. n < Len(byHeight) /\ n + 1 \in 1..(f + 1)
        BY <1>1, <2>2, <3>1
      <4>2. entries[n] = byHeight[n + 1] /\ byHeight[n + 1] = Path[block][n + 1]
        BY <2>2, <3>1, <4>1 DEF Agrees
      <4> QED
        BY <2>1, <4>2
    <3>3. Compatible(stored', byHeight')
      <4> SUFFICES ASSUME NEW i \in 1..Len(stored') PROVE stored'[i] = byHeight'[i]
        BY DEF Compatible
      <4>1. i \in 1..m /\ i \in 1..(f + 1) /\ i \in 1..Len(stored) /\ i <= Len(byHeight)
        BY <1>1, <2>2, <2>31, <2>4
      <4>2. stored'[i] = stored[i] /\ stored[i] = byHeight[i] /\ byHeight[i] = Path[block][i]
        BY <2>2, <2>4, <3>1, <4>1 DEF Compatible
      <4> QED
        BY <2>1, <4>2
    <3> QED
      BY <1>1, <2>1, <2>2, <2>5, <3>1, <3>2, <3>3 DEF InMemory
  <2>9. InOperation'
    <3>1. Len(stored') <= Len(byHeight')
      BY <1>1, <2>1, <2>2, <2>31, <2>4, PathFacts
    <3> QED
      BY <2>1, <2>4, <2>5, <3>1 DEF InOperation, Unloaded
  <2> QED
    BY <2>6, <2>7, <2>8, <2>9 DEF IInv
<1> QED
  BY <1>3, <1>4, <1>5, <1>6, <1>7 DEF Reorganize

LEMMA FlushStep ==
    ASSUME IInv, Flush
    PROVE  IInv'
<1>1. /\ byHeight # << >> /\ byHeight \in Seq(Blocks) /\ Len(byHeight) \in Nat /\ Len(byHeight) >= 1
      /\ byHeight = Path[Last(byHeight)]
  BY EmptySeq DEF Flush, IInv, InOperation, Unloaded, TypeOK, BestIsPath, Tip
<1>2. /\ entries' \in Seq(Blocks) /\ Len(entries') < Len(byHeight) /\ Agrees(entries', byHeight)
  BY <1>1, FlushAgrees DEF Flush, IInv, InMemory, TypeOK
<1>3. /\ persistedHeight' = Len(byHeight) - 1 /\ Len(entries') \in Nat
      /\ UNCHANGED <<byHash, byHeight, pending, stored, coinDB, nameDB, pc, ret, block, at, crashes>>
  BY <1>2 DEF Flush, TipHeight, control
<1>4. TypeOK'
  BY <1>1, <1>2, <1>3 DEF IInv, TypeOK
<1>5. BestIsPath' /\ StoredIsPath' /\ OnDisk'
  BY <1>1, <1>3 DEF IInv, BestIsPath, StoredIsPath, OnDisk, Tip
<1>6. InMemory'
  BY <1>1, <1>2, <1>3 DEF IInv, InMemory
<1>7. InOperation'
  BY <1>1, <1>3 DEF Flush, IInv, InOperation, Unloaded, Reorganizing
<1> QED
  BY <1>4, <1>5, <1>6, <1>7 DEF IInv

LEMMA ConnectStep ==
    ASSUME IInv, ConnectNext \/ Connect
    PROVE  IInv'
<1>1. /\ byHeight # << >> /\ byHeight \in Seq(Blocks) /\ Len(byHeight) \in Nat /\ Len(byHeight) >= 1
      /\ byHeight = Path[Last(byHeight)] /\ Len(stored) \in Nat /\ Len(stored) <= Len(byHeight)
      /\ block \in Blocks /\ Height(block) \in Nat /\ Compatible(stored, byHeight)
  <2>1. pc \in {"idle", "mark", "store", "save", "commitGenesis"}
    BY DEF ConnectNext, Connect, MarkPending, StoreBlock, StoreMismatch, SaveView, CommitGenesis
  <2>2. byHeight # << >> /\ Len(stored) <= Len(byHeight)
    BY <2>1 DEF IInv, InOperation, Unloaded
  <2>3. byHeight \in Seq(Blocks) /\ Len(byHeight) \in Nat /\ Len(stored) \in Nat /\ block \in Blocks
    BY DEF IInv, TypeOK
  <2>4. byHeight = Path[Last(byHeight)] /\ Compatible(stored, byHeight)
    BY <2>2 DEF IInv, BestIsPath, Tip, InMemory
  <2> QED
    BY <2>2, <2>3, <2>4, EmptySeq, PathFacts
<1>2. CASE ConnectNext
  <2>1. /\ pc = "idle" /\ Len(stored) \in 1..(Len(byHeight) - 1)
        /\ ConnectBlock(byHeight, Len(stored), "idle") /\ UNCHANGED <<byHash, byHeight>>
    BY <1>1, <1>2 DEF ConnectNext, ConnectBlock
  <2>2. /\ NamesOK' /\ pc' \in {"save", "mark"} /\ ret' = "idle" /\ at' = 0
        /\ block' \in Blocks /\ Height(block') = Len(stored)
        /\ byHeight[Len(stored) + 1] = block'
        /\ UNCHANGED <<persistedHeight, entries, stored, coinDB, crashes>>
    BY <1>1, <2>1, ConnectBlockStep DEF IInv
  <2>3. TypeOK'
    BY <2>1, <2>2 DEF IInv, TypeOK, NamesOK, Positions
  <2>4. BestIsPath' /\ StoredIsPath' /\ OnDisk' /\ InMemory'
    BY <2>1, <2>2, QuietStep DEF IInv
  <2>5. InOperation'
    BY <1>1, <2>1, <2>2 DEF InOperation, Unloaded, Reorganizing
  <2> QED
    BY <2>3, <2>4, <2>5 DEF IInv
<1>3. CASE MarkPending
  <2>1. coinDB' \in [applied : SUBSET Blocks, height : Nat \cup {-1}, undo : SUBSET Nat,
                     pending : Nat \cup {-1}]
    BY <1>1, <1>3 DEF MarkPending, IInv, TypeOK
  <2>2. TypeOK'
    BY <1>3, <2>1 DEF MarkPending, Goto, IInv, TypeOK, memory, Positions
  <2>3. BestIsPath' /\ StoredIsPath' /\ OnDisk' /\ InMemory'
    BY <1>3, QuietStep DEF MarkPending, IInv, memory
  <2>4. InOperation'
    BY <1>1, <1>3 DEF MarkPending, Goto, IInv, InOperation, Unloaded, Reorganizing, memory
  <2> QED
    BY <2>2, <2>3, <2>4 DEF IInv
<1>4. CASE StoreBlock
  <2>1. /\ pc = "store" /\ Height(block) = Len(stored) /\ stored' = Append(stored, block)
        /\ pc' = "save"
        /\ UNCHANGED <<memory, entries, coinDB, nameDB, ret, block, at, crashes>>
    BY <1>4 DEF StoreBlock, Goto
  <2>2. Len(stored) + 1 \in 1..Len(byHeight) /\ byHeight[Len(stored) + 1] = block
    BY <1>1, <2>1 DEF IInv, InOperation
  <2>3. /\ stored' \in Seq(Blocks) /\ Len(stored') = Len(stored) + 1
        /\ \A i \in 1..Len(stored) : stored'[i] = stored[i]
        /\ stored'[Len(stored) + 1] = block /\ stored' # << >>
    BY <1>1, <2>1, AppendProperties DEF IInv, TypeOK
  <2>4. \A i \in 1..Len(stored') : stored'[i] = byHeight[i]
    BY <1>1, <2>2, <2>3 DEF Compatible
  <2>5. stored' = SubSeq(byHeight, 1, Len(stored) + 1)
    BY <1>1, <2>2, <2>3, <2>4, PrefixIsPath, SeqEqual
  <2>6. StoredIsPath'
    BY <1>1, <2>2, <2>5, PrefixIsPath DEF StoredIsPath
  <2>7. TypeOK'
    BY <2>1, <2>3 DEF IInv, TypeOK, memory, Positions
  <2>8. BestIsPath' /\ OnDisk'
    BY <1>1, <2>1 DEF IInv, BestIsPath, OnDisk, Tip, memory
  <2>9. InMemory'
    BY <2>1, <2>4 DEF IInv, InMemory, Compatible, memory
  <2>10. InOperation'
    BY <1>1, <2>1, <2>2, <2>3 DEF InOperation, Unloaded, Reorganizing, memory
  <2> QED
    BY <2>6, <2>7, <2>8, <2>9, <2>10 DEF IInv
<1>5. CASE StoreMismatch
  <2>1. TypeOK'
    BY <1>5, BlocksAssumption DEF StoreMismatch, Return, IInv, TypeOK, memory, disk, Positions
  <2>2. BestIsPath' /\ StoredIsPath' /\ OnDisk' /\ InMemory'
    BY <1>5, QuietStep DEF StoreMismatch, IInv, memory, disk
  <2>3. InOperation'
    <3>1. stored # << >>
      <4>1. stored = << >> => block = Genesis
        BY <1>5 DEF StoreMismatch, IInv, InOperation
      <4>2. Height(Genesis) = 0
        BY BlocksAssumption DEF Height
      <4>3. stored = << >> => Len(stored) = 0
        OBVIOUS
      <4> QED
        BY <1>5, <4>1, <4>2, <4>3 DEF StoreMismatch
    <3> QED
      BY <1>1, <1>5, <3>1 DEF StoreMismatch, Return, InOperation, Unloaded, Reorganizing, memory, disk
  <2> QED
    BY <2>1, <2>2, <2>3 DEF IInv
<1>6. CASE SaveView
  <2>1. coinDB' \in [applied : SUBSET Blocks, height : Nat \cup {-1}, undo : SUBSET Nat,
                     pending : Nat \cup {-1}]
    BY <1>1, <1>6, CoinsTyped, SavedTyped DEF SaveView, IInv
  <2>2. /\ pc' \in {"commitGenesis", "idle", "align", "check", "reindex"}
        /\ ret' \in {"idle", "align", "check", "reindex"} /\ block' \in Blocks /\ at' \in Nat
        /\ crashes' = crashes
    <3>1. /\ ret \in {"idle", "align", "check", "reindex"} /\ Genesis \in Blocks /\ 0 \in Nat
          /\ block \in Blocks /\ at \in Nat
      BY BlocksAssumption DEF IInv, TypeOK
    <3>2. CASE block = Genesis
      BY <1>6, <3>1, <3>2 DEF SaveView, Goto
    <3>3. CASE block # Genesis
      BY <1>6, <3>1, <3>3 DEF SaveView, Return
    <3> QED
      BY <3>2, <3>3
  <2>3. TypeOK'
    BY <1>6, <2>1, <2>2 DEF SaveView, IInv, TypeOK, memory, Positions
  <2>4. BestIsPath' /\ StoredIsPath' /\ OnDisk' /\ InMemory'
    BY <1>6, QuietStep DEF SaveView, IInv, memory
  <2>5. InOperation'
    <3>1. stored # << >>
      BY <1>6 DEF SaveView, IInv, InOperation, Unloaded
    <3> QED
      BY <1>1, <1>6, <2>2, <3>1 DEF SaveView, InOperation, Unloaded, Reorganizing, memory
  <2> QED
    BY <2>3, <2>4, <2>5 DEF IInv
<1>7. CASE CommitGenesis
  <2>1. /\ nameDB' = Committed(0, Append(pending, Genesis)) /\ pending' = << >>
        /\ pc' = ret /\ ret' = "idle" /\ block' = Genesis /\ at' = 0 /\ crashes' = crashes
        /\ UNCHANGED <<byHash, byHeight, persistedHeight, entries, stored, coinDB>>
    BY <1>7 DEF CommitGenesis, Return
  <2>2. Append(pending, Genesis) \in Seq(NameBlocks)
    BY BlocksAssumption DEF IInv, TypeOK, NameBlocks
  <2>3. NamesOK'
    <3>1. << >> \in Seq(NameBlocks)
      OBVIOUS
    <3> QED
      BY <2>1, <2>2, <3>1, CommittedTyped DEF IInv
  <2>4. TypeOK'
    BY <2>1, <2>3, BlocksAssumption DEF IInv, TypeOK, NamesOK, Positions
  <2>5. BestIsPath' /\ StoredIsPath' /\ OnDisk' /\ InMemory'
    BY <2>1, QuietStep DEF IInv
  <2>6. InOperation'
    <3>1. stored # << >>
      BY <1>7 DEF CommitGenesis, IInv, InOperation, Unloaded
    <3> QED
      BY <1>1, <2>1, <3>1 DEF IInv, TypeOK, InOperation, Unloaded, Reorganizing
  <2> QED
    BY <2>4, <2>5, <2>6 DEF IInv
<1> QED
  BY <1>2, <1>3, <1>4, <1>5, <1>6, <1>7 DEF Connect

\* resetToStoredHeight, as far as the headers go.
LEMMA ResetEntriesStep ==
    ASSUME IInv, NEW next \in {"idle", "check"}, pc \in {"idle", "align"}, ResetEntries(next)
    PROVE  IInv'
<1>1. /\ stored # << >> /\ stored \in Seq(Blocks) /\ Len(stored) \in Nat /\ Len(stored) >= 1
      /\ byHeight # << >> /\ byHeight \in Seq(Blocks) /\ Len(byHeight) \in Nat
      /\ byHeight = Path[Last(byHeight)] /\ Len(stored) < Len(byHeight)
      /\ Compatible(stored, byHeight) /\ Agrees(entries, byHeight) /\ entries \in Seq(Blocks)
      /\ StoredHeight = Len(stored) - 1 /\ StoredHeight \in Nat
  <2>1. stored \in Seq(Blocks) /\ Len(stored) \in Nat /\ byHeight \in Seq(Blocks)
        /\ Len(byHeight) \in Nat /\ entries \in Seq(Blocks)
    BY DEF IInv, TypeOK
  <2>2. byHeight # << >>
    BY DEF IInv, InOperation, Unloaded
  <2> QED
    BY <2>1, <2>2, EmptySeq DEF ResetEntries, StoredHeight, TipHeight, IInv, BestIsPath, Tip, InMemory
<1>2. /\ byHeight' = SubSeq(byHeight, 1, Len(stored))
      /\ byHash' \subseteq byHash /\ entries' = Truncated(StoredHeight)
      /\ persistedHeight' = StoredHeight /\ pc' = "resetNames" /\ ret' = next
      /\ UNCHANGED <<pending, stored, coinDB, nameDB, block, at, crashes>>
  BY DEF ResetEntries
<1>3. /\ byHeight' \in Seq(Blocks) /\ byHeight' # << >> /\ Len(byHeight') = Len(stored)
      /\ byHeight' = Path[Last(byHeight')]
      /\ \A i \in 1..Len(stored) : byHeight'[i] = byHeight[i]
  BY <1>1, <1>2, PrefixIsPath
<1>4. /\ entries' \in Seq(Blocks) /\ Len(entries') <= StoredHeight /\ Len(entries') <= Len(entries)
      /\ \A n \in 1..Len(entries') : /\ entries'[n] = entries[n]
                                     /\ InPlace(entries', n) <=> InPlace(entries, n)
  <2> DEFINE h == StoredHeight
  <2>1. h \in Nat /\ entries' = Truncated(h)
    BY <1>1, <1>2
  <2> HIDE DEF h
  <2>2. /\ Truncated(h) \in Seq(Blocks)
        /\ Len(Truncated(h)) <= h /\ Len(Truncated(h)) <= Len(entries)
        /\ \A n \in 1..Len(Truncated(h)) : /\ Truncated(h)[n] = entries[n]
                                           /\ InPlace(Truncated(h), n) <=> InPlace(entries, n)
    BY <1>1, <2>1, TruncateAgrees
  <2>3. /\ entries' \in Seq(Blocks) /\ Len(entries') <= h /\ Len(entries') <= Len(entries)
        /\ \A n \in 1..Len(entries') : /\ entries'[n] = entries[n]
                                       /\ InPlace(entries', n) <=> InPlace(entries, n)
    BY <2>1, <2>2
  <2> QED
    BY <2>3 DEF h
<1>5. TypeOK'
  BY <1>1, <1>2, <1>3, <1>4 DEF IInv, TypeOK, Positions
<1>6. BestIsPath' /\ StoredIsPath' /\ OnDisk'
  BY <1>2, <1>3 DEF IInv, BestIsPath, StoredIsPath, OnDisk, Tip
<1>7. InMemory'
  <2>1. Agrees(entries', byHeight')
    <3> SUFFICES ASSUME NEW n \in 1..Len(entries'), InPlace(entries', n), n < Len(byHeight')
                 PROVE  entries'[n] = byHeight'[n + 1]
      BY DEF Agrees
    <3>1. Len(entries) \in Nat /\ Len(entries') \in Nat
      BY <1>1, <1>4
    <3>2. n \in 1..Len(entries) /\ InPlace(entries, n) /\ n < Len(byHeight) /\ n + 1 \in 1..Len(stored)
      BY <3>1, <1>1, <1>3, <1>4
    <3> QED
      BY <3>2, <1>1, <1>3, <1>4 DEF Agrees
  <2>2. Compatible(stored', byHeight')
    BY <1>1, <1>2, <1>3 DEF Compatible
  <2>3. Len(entries') \in Nat
    BY <1>4
  <2> QED
    BY <2>1, <2>2, <2>3, <1>1, <1>2, <1>3, <1>4 DEF InMemory
<1>8. InOperation'
  BY <1>1, <1>2, <1>3 DEF InOperation, Unloaded, Reorganizing
<1> QED
  BY <1>5, <1>6, <1>7, <1>8 DEF IInv

\* Everything in memory is lost.
LEMMA DiesStep ==
    ASSUME IInv, Dies, pc' \in {"down", "failed"}, ret' = "idle", block' = Genesis, at' = 0,
           crashes' \in Nat
    PROVE  IInv'
<1>1. /\ byHash' = {} /\ byHeight' = << >> /\ persistedHeight' = 0 /\ pending' = << >>
      /\ UNCHANGED <<entries, stored, coinDB, nameDB>>
  BY DEF Dies, disk
<1>2. << >> \in Seq(Blocks) /\ << >> \in Seq(NameBlocks) /\ Genesis \in Blocks
  BY BlocksAssumption
<1>3. TypeOK'
  BY <1>1, <1>2 DEF IInv, TypeOK, Positions
<1>4. BestIsPath' /\ StoredIsPath' /\ InMemory'
  BY <1>1 DEF IInv, BestIsPath, StoredIsPath, InMemory, Tip
<1>5. OneBranch(entries) /\ Agrees(entries, stored)
  BY DiskAfterCrash DEF IInv, OnDisk
<1>6. OnDisk'
  BY <1>1, <1>5 DEF OnDisk
<1>7. InOperation'
  BY <1>1 DEF InOperation, Unloaded, Reorganizing
<1> QED
  BY <1>3, <1>4, <1>6, <1>7 DEF IInv

LEMMA RecoverStep ==
    ASSUME IInv, ResetToStoredHeight \/ RepairTree \/ Recover
    PROVE  IInv'
<1> USE DEF Unloaded, Reorganizing
<1>1. CASE ResetToStoredHeight
  BY <1>1, ResetEntriesStep DEF ResetToStoredHeight
<1>2. CASE ResetNames
  <2>1. StoredHeight \in Nat
    BY <1>2, EmptySeq DEF ResetNames, IInv, InOperation, TypeOK, StoredHeight
  <2>2. NamesOK'
    BY <1>2, <2>1, RollBackTyped DEF ResetNames, IInv
  <2>3. TypeOK'
    BY <1>2, <2>2, BlocksAssumption DEF ResetNames, Return, IInv, TypeOK, NamesOK, Positions
  <2>4. BestIsPath' /\ StoredIsPath' /\ OnDisk' /\ InMemory'
    BY <1>2, QuietStep DEF ResetNames, IInv
  <2>5. InOperation'
    BY <1>2 DEF ResetNames, Return, IInv, TypeOK, InOperation
  <2> QED
    BY <2>3, <2>4, <2>5 DEF IInv
<1>3. CASE ResetFails
  BY <1>3, DiesStep DEF ResetFails, Return, IInv, TypeOK
<1>4. CASE RepairTree
  <2>1. NamesOK'
    <3>1. << >> \in Seq(NameBlocks)
      OBVIOUS
    <3> QED
      BY <1>4, <3>1, EmptyTyped DEF RepairTree
  <2>2. TypeOK'
    BY <1>4, <2>1 DEF RepairTree, IInv, TypeOK, NamesOK, Positions
  <2>3. BestIsPath' /\ StoredIsPath' /\ OnDisk' /\ InMemory'
    BY <1>4, QuietStep DEF RepairTree, IInv
  <2>4. InOperation'
    BY <1>4 DEF RepairTree, IInv, InOperation
  <2> QED
    BY <2>2, <2>3, <2>4 DEF IInv
<1>5. CASE RepairGenesis
  <2>1. /\ at' = 1
        /\ UNCHANGED <<memory, entries, stored, coinDB, pc, ret, block, crashes>>
    BY <1>5 DEF RepairGenesis
  <2>2. NamesOK'
    <3>1. <<Genesis>> \in Seq(NameBlocks) /\ pending \in Seq(NameBlocks)
      BY BlocksAssumption DEF IInv, TypeOK, NameBlocks
    <3>2. nameDB' = Committed(0, <<Genesis>>) /\ pending' = pending /\ 0 \in Nat
      BY <1>5 DEF RepairGenesis, memory
    <3> QED
      BY <3>1, <3>2, CommittedTyped DEF IInv
  <2>3. TypeOK'
    BY <2>1, <2>2 DEF IInv, TypeOK, NamesOK, memory
  <2>4. BestIsPath' /\ StoredIsPath' /\ OnDisk' /\ InMemory'
    BY <2>1, QuietStep DEF IInv, memory
  <2>5. InOperation'
    BY <1>5, <2>1 DEF RepairGenesis, IInv, InOperation, memory
  <2> QED
    BY <2>3, <2>4, <2>5 DEF IInv
<1>6. CASE RepairBlock
  <2>1. at \in Nat /\ at + 1 \in 1..Len(stored) /\ stored \in Seq(Blocks)
    BY <1>6 DEF RepairBlock, IInv, TypeOK
  <2>2. stored[at + 1] \in Blocks /\ stored[at + 1] \in NameBlocks
    BY <2>1, ElementOfSeq DEF NameBlocks
  <2>3. NamesOK'
    <3>1. Replayed(at, stored[at + 1]) \in Seq(NameBlocks)
      BY <2>1, <2>2, ReplayedTyped DEF IInv
    <3> QED
      BY <1>6, <2>1, <3>1, NamesUpToTyped DEF RepairBlock, IInv
  <2>4. TypeOK'
    BY <1>6, <2>1, <2>3 DEF RepairBlock, IInv, TypeOK, NamesOK
  <2>5. BestIsPath' /\ StoredIsPath' /\ OnDisk' /\ InMemory'
    BY <1>6, QuietStep DEF RepairBlock, IInv
  <2>6. InOperation'
    BY <1>6 DEF RepairBlock, IInv, InOperation
  <2> QED
    BY <2>4, <2>5, <2>6 DEF IInv
<1>7. CASE RepairDone
  <2>1. TypeOK'
    BY <1>7, BlocksAssumption DEF RepairDone, Return, IInv, TypeOK, memory, disk, Positions
  <2>2. BestIsPath' /\ StoredIsPath' /\ OnDisk' /\ InMemory'
    BY <1>7, QuietStep DEF RepairDone, IInv, memory, disk
  <2>3. InOperation'
    BY <1>7 DEF RepairDone, Return, IInv, InOperation, memory, disk
  <2> QED
    BY <2>1, <2>2, <2>3 DEF IInv
<1> QED
  BY <1>1, <1>2, <1>3, <1>4, <1>5, <1>6, <1>7 DEF Recover

\* A step of the start-up sequence, before or after Chain.init, that only goes on.
LEMMA GotoStep ==
    ASSUME IInv, UNCHANGED <<byHash, byHeight, persistedHeight, entries, stored>>,
           pending' = pending \/ pending' = << >>,
           coinDB' = coinDB \/ coinDB' = EmptyCoins, nameDB' = nameDB \/ nameDB' = EmptyNames,
           ret' \in {"idle", "align", "check", "reindex"}, block' \in Blocks, at' \in Nat,
           crashes' = crashes,
           \/ pc \in Unloaded /\ pc' \in Unloaded /\ block' = block
           \/ pc = "align" /\ pc' = "check" /\ StoredHeight = TipHeight
           \/ /\ pc \in {"check", "reindex", "rebuild"}
              /\ pc' \in {"reindex", "rebuild", "save", "idle"}
    PROVE  IInv'
<1>1. coinDB' \in [applied : SUBSET Blocks, height : Nat \cup {-1}, undo : SUBSET Nat,
                   pending : Nat \cup {-1}]
  BY DEF IInv, TypeOK, EmptyCoins
<1>2. NamesOK'
  <2>1. pending' \in Seq(NameBlocks)
    <3>1. << >> \in Seq(NameBlocks) /\ pending \in Seq(NameBlocks)
      BY DEF IInv, TypeOK
    <3> QED
      BY <3>1
  <2>2. CASE nameDB' = nameDB
    BY <2>1, <2>2 DEF NamesOK, IInv, TypeOK
  <2>3. CASE nameDB' = EmptyNames
    BY <2>1, <2>3, EmptyTyped
  <2> QED
    BY <2>2, <2>3
<1>3. TypeOK'
  BY <1>1, <1>2 DEF IInv, TypeOK, NamesOK, Positions, Unloaded
<1>4. BestIsPath' /\ StoredIsPath' /\ OnDisk' /\ InMemory'
  BY QuietStep DEF IInv
<1>5. InOperation'
  <2>1. Len(stored) \in Nat /\ Len(byHeight) \in Nat
    BY DEF IInv, TypeOK
  <2> QED
    BY <2>1 DEF IInv, InOperation, Unloaded, Reorganizing, StoredHeight, TipHeight
<1> QED
  BY <1>3, <1>4, <1>5 DEF IInv

\* Chain.init.
LEMMA LoadChainStep ==
    ASSUME IInv, LoadChain
    PROVE  IInv'
<1>1. pc = "load" /\ byHeight = << >> /\ OneBranch(entries) /\ Agrees(entries, stored)
  BY DEF LoadChain, IInv, InOperation, Unloaded, OnDisk
<1>2. /\ entries \in Seq(Blocks) /\ Len(entries) \in Nat
      /\ stored \in Seq(Blocks) /\ Len(stored) \in Nat
  BY DEF IInv, TypeOK
<1>3. /\ Contiguous \in 0..Len(entries) /\ InPlace(entries, Contiguous)
      /\ LoadedChain \in Seq(Blocks) /\ Len(LoadedChain) = Contiguous + 1
      /\ LoadedChain[1] = Genesis
      /\ \A i \in 1..Contiguous : LoadedChain[i + 1] = entries[i]
      /\ LoadedChain = Path[Last(LoadedChain)]
  BY <1>1, <1>2, LoadFacts
<1>4. /\ byHeight' = LoadedChain /\ byHash' = ToSet(LoadedChain) /\ persistedHeight' = Contiguous
      /\ entries' = Truncated(Contiguous) /\ UNCHANGED <<pending, stored, coinDB, nameDB>>
      /\ UNCHANGED <<block, at, crashes>>
      /\ \/ stored = << >> /\ pc' = "mark" /\ ret' = "align"
         \/ stored # << >> /\ pc' = "align" /\ ret' = ret
  BY DEF LoadChain, Goto
<1>5. PICK n : n = Contiguous
  OBVIOUS
<1>6. /\ n \in Nat /\ n <= Len(entries) /\ InPlace(entries, n)
      /\ byHeight' \in Seq(Blocks) /\ Len(byHeight') = n + 1 /\ byHeight'[1] = Genesis
      /\ \A i \in 1..n : byHeight'[i + 1] = entries[i]
      /\ byHeight' = Path[Last(byHeight')]
      /\ persistedHeight' = n /\ entries' = Truncated(n) /\ byHash' = ToSet(byHeight')
  BY <1>2, <1>3, <1>4, <1>5
<1>7. /\ entries' \in Seq(Blocks) /\ Len(entries') <= n /\ Len(entries') \in Nat
      /\ \A i \in 1..Len(entries') : entries'[i] = entries[i]
  <2>1. /\ Truncated(n) \in Seq(Blocks) /\ Len(Truncated(n)) <= n
        /\ \A i \in 1..Len(Truncated(n)) : Truncated(n)[i] = entries[i]
    BY <1>2, <1>6, TruncateAgrees
  <2> QED
    BY <2>1, <1>6
<1>8. byHeight' # << >> /\ Last(byHeight') \in Blocks
  BY <1>6, EmptySeq, ElementOfSeq DEF Last
<1>9. TypeOK'
  <2>1. ToSet(byHeight') \subseteq Blocks
    BY <1>6, ElementOfSeq DEF ToSet
  <2> QED
    BY <2>1, <1>4, <1>6, <1>7 DEF IInv, TypeOK, Positions
<1>10. BestIsPath' /\ StoredIsPath' /\ OnDisk'
  BY <1>4, <1>6, <1>8 DEF IInv, BestIsPath, StoredIsPath, OnDisk, Tip
<1>11. InMemory'
  <2>1. Agrees(entries', byHeight')
    BY <1>6, <1>7 DEF Agrees
  <2>2. ASSUME NEW i \in 1..Len(stored), i <= Len(byHeight')
        PROVE  stored[i] = byHeight'[i]
    <3>1. CASE i = 1
      <4>1. stored # << >> /\ Last(stored) \in Blocks /\ stored = Path[Last(stored)]
        BY <1>2, <2>2, EmptySeq, ElementOfSeq DEF Last, IInv, StoredIsPath
      <4> QED
        BY <3>1, <4>1, <1>6, PathFacts
    <3>2. CASE i # 1
      <4> DEFINE k == i - 1
      <4>1. k \in 1..n /\ k \in 1..Len(entries) /\ k < Len(stored) /\ k + 1 = i
        BY <3>2, <2>2, <1>2, <1>6
      <4> HIDE DEF k
      <4>2. InPlace(entries, k)
        BY <4>1, <1>6 DEF InPlace
      <4> QED
        BY <4>1, <4>2, <1>1, <1>6 DEF Agrees
    <3> QED
      BY <3>1, <3>2
  <2>3. Compatible(stored', byHeight')
    BY <2>2, <1>4 DEF Compatible
  <2> QED
    BY <2>1, <2>3, <1>6, <1>7 DEF InMemory
<1>12. InOperation'
  <2>1. CASE stored = << >> /\ pc' = "mark"
    <3>1. block = Genesis
      BY <1>1 DEF IInv, InOperation, Unloaded
    <3>2. Height(block') = 0 /\ Len(stored') = 0
      BY <2>1, <3>1, <1>4, BlocksAssumption, EmptySeq DEF Height
    <3> QED
      BY <2>1, <3>1, <3>2, <1>4, <1>6, <1>8 DEF InOperation, Unloaded, Reorganizing
  <2>2. CASE pc' = "align"
    BY <2>2, <1>4, <1>6, <1>8 DEF InOperation, Unloaded, Reorganizing
  <2> QED
    BY <2>1, <2>2, <1>4
<1> QED
  BY <1>9, <1>10, <1>11, <1>12 DEF IInv

\* The stored blocks above the loaded tip become the best chain.
LEMMA AlignReplayStep ==
    ASSUME IInv, AlignReplay
    PROVE  IInv'
<1>1. /\ byHeight # << >> /\ byHeight \in Seq(Blocks) /\ Len(byHeight) \in Nat /\ Len(byHeight) >= 1
      /\ stored # << >> /\ stored \in Seq(Blocks) /\ Len(stored) \in Nat
      /\ Len(byHeight) < Len(stored)
      /\ stored = Path[Last(stored)] /\ Compatible(stored, byHeight) /\ Agrees(entries, byHeight)
      /\ entries \in Seq(Blocks) /\ Len(entries) \in Nat /\ persistedHeight \in Nat
      /\ Len(entries) <= persistedHeight /\ persistedHeight < Len(byHeight)
  <2>1. /\ byHeight \in Seq(Blocks) /\ Len(byHeight) \in Nat /\ stored \in Seq(Blocks)
        /\ Len(stored) \in Nat /\ entries \in Seq(Blocks) /\ Len(entries) \in Nat
        /\ persistedHeight \in Nat
    BY DEF IInv, TypeOK
  <2>2. byHeight # << >> /\ Len(byHeight) < Len(stored)
    BY <2>1 DEF AlignReplay, StoredHeight, TipHeight, IInv, InOperation, Unloaded
  <2>3. Len(byHeight) >= 1 /\ stored # << >>
    BY <2>1, <2>2, EmptySeq
  <2> QED
    BY <2>1, <2>2, <2>3 DEF IInv, StoredIsPath, InMemory
<1>2. /\ byHeight' = byHeight \o SubSeq(stored, Len(byHeight) + 1, Len(stored))
      /\ byHash' = byHash \cup ToSet(byHeight') /\ entries' = Flushed(byHeight')
      /\ persistedHeight' = Len(stored) - 1 /\ pc' = "check"
      /\ UNCHANGED <<pending, stored, coinDB, nameDB, ret, block, at, crashes>>
  BY DEF AlignReplay, Goto, StoredHeight
<1>3. byHeight' = stored
  <2> DEFINE k == Len(byHeight)
  <2>1. byHeight = SubSeq(stored, 1, k)
    <3>1. /\ SubSeq(stored, 1, k) \in Seq(Blocks) /\ Len(SubSeq(stored, 1, k)) = k
          /\ \A i \in 1..k : SubSeq(stored, 1, k)[i] = stored[i]
      <4>1. k \in 1..Len(stored)
        BY <1>1
      <4> HIDE DEF k
      <4> QED
        BY <4>1, <1>1, PrefixIsPath
    <3>2. \A i \in 1..k : stored[i] = byHeight[i]
      BY <1>1 DEF Compatible
    <3> QED
      BY <3>1, <3>2, <1>1, SeqEqual
  <2>2. SubSeq(stored, 1, k) \o SubSeq(stored, k + 1, Len(stored)) = SubSeq(stored, 1, Len(stored))
    <3>1. k \in (1 - 1)..Len(stored) /\ 1 \in 1..(Len(stored) + 1) /\ Len(stored) \in k..Len(stored)
      BY <1>1
    <3> HIDE DEF k
    <3> QED
      BY <3>1, <1>1, ConcatAdjacentSubSeq
  <2> QED
    BY <2>1, <2>2, <1>1, <1>2, SubSeqFull
<1>4. /\ entries' \in Seq(Blocks) /\ Len(entries') < Len(stored) /\ Agrees(entries', stored)
      /\ Len(entries') \in Nat
  <2>1. Agrees(entries, stored)
    <3> SUFFICES ASSUME NEW n \in 1..Len(entries), InPlace(entries, n)
                 PROVE  entries[n] = stored[n + 1]
      BY DEF Agrees
    <3>1. n < Len(byHeight) /\ n + 1 \in 1..Len(stored) /\ n + 1 <= Len(byHeight)
      BY <1>1
    <3> QED
      BY <3>1, <1>1 DEF Agrees, Compatible
  <2>2. persistedHeight < Len(stored)
    BY <1>1
  <2>3. /\ Flushed(stored) \in Seq(Blocks) /\ Len(Flushed(stored)) < Len(stored)
        /\ Agrees(Flushed(stored), stored)
    BY <2>1, <2>2, <1>1, FlushAgrees
  <2>4. entries' = Flushed(stored)
    BY <1>2, <1>3
  <2> HIDE DEF Flushed
  <2>5. entries' \in Seq(Blocks) /\ Len(entries') < Len(stored) /\ Agrees(entries', stored)
    BY <2>3, <2>4
  <2>6. Len(entries') \in Nat
    BY <2>5
  <2> QED
    BY <2>5, <2>6
<1>5. TypeOK'
  <2>1. ToSet(byHeight') \subseteq Blocks
    BY <1>1, <1>3, ElementOfSeq DEF ToSet
  <2> QED
    BY <2>1, <1>1, <1>2, <1>3, <1>4 DEF IInv, TypeOK, Positions
<1>6. BestIsPath' /\ StoredIsPath' /\ OnDisk'
  BY <1>1, <1>2, <1>3 DEF BestIsPath, StoredIsPath, OnDisk, Tip
<1>7. InMemory'
  <2>1. Compatible(stored', byHeight')
    BY <1>2, <1>3 DEF Compatible
  <2>2. /\ Len(entries') <= persistedHeight' /\ persistedHeight' < Len(byHeight')
    BY <1>1, <1>2, <1>3, <1>4
  <2>3. Agrees(entries', byHeight')
    BY <1>3, <1>4, Zenon
  <2> QED
    BY <2>1, <2>2, <2>3 DEF InMemory
<1>8. InOperation'
  BY <1>1, <1>2, <1>3 DEF InOperation, Unloaded, Reorganizing
<1> QED
  BY <1>5, <1>6, <1>7, <1>8 DEF IInv

LEMMA StartStep ==
    ASSUME IInv, Start
    PROVE  IInv'
<1> USE DEF Unloaded
<1>0. /\ Genesis \in Blocks /\ 0 \in Nat /\ block \in Blocks /\ at \in Nat
      /\ ret \in {"idle", "align", "check", "reindex"}
  BY BlocksAssumption DEF IInv, TypeOK
<1>1. CASE OpenStores
  BY <1>0, <1>1, GotoStep DEF OpenStores, Goto, memory, disk
<1>2. CASE WipeCoins
  BY <1>0, <1>2, GotoStep DEF WipeCoins, Goto, memory
<1>3. CASE WipeTree
  BY <1>0, <1>3, GotoStep DEF WipeTree, Goto, memory
<1>4. CASE LoadChain
  BY <1>4, LoadChainStep
<1>5. CASE AlignReset
  BY <1>5, ResetEntriesStep DEF AlignReset
<1>6. CASE AlignReplay
  BY <1>6, AlignReplayStep
<1>7. CASE AlignDone
  BY <1>0, <1>7, GotoStep DEF AlignDone, Goto, memory, disk
<1>8. CASE StartReindex
  BY <1>0, <1>8, GotoStep DEF StartReindex, Goto
<1>9. CASE ReindexGenesis
  BY <1>0, <1>9, GotoStep DEF ReindexGenesis, memory, disk
<1>10. CASE ReindexDone
  BY <1>0, <1>10, GotoStep DEF ReindexDone, Return, memory, disk
<1>11. CASE StartRebuild
  <2>1. nameDB.height + 1 \in Nat
    BY DEF IInv, TypeOK
  <2> QED
    BY <1>0, <1>11, <2>1, GotoStep DEF StartRebuild, memory, disk
<1>12. CASE RebuildDone
  BY <1>0, <1>12, GotoStep DEF RebuildDone, Return, memory, disk
<1>13. CASE ReindexBlock
  <2> DEFINE h == coinDB.height + 1
  <2>1. /\ pc = "reindex" /\ coinDB.height >= 0 /\ coinDB.height < StoredHeight
        /\ ConnectBlock(byHeight, h, "reindex") /\ UNCHANGED <<byHash, byHeight>>
    BY <1>13 DEF ReindexBlock
  <2>2. /\ byHeight # << >> /\ byHeight \in Seq(Blocks) /\ Len(byHeight) \in Nat
        /\ byHeight = Path[Last(byHeight)] /\ Len(stored) \in Nat /\ Len(stored) <= Len(byHeight)
    BY <2>1 DEF IInv, InOperation, TypeOK, BestIsPath, Tip
  <2>3. h \in 1..(Len(byHeight) - 1)
    <3>1. coinDB.height \in Nat
      BY <2>1, CoinsTyped DEF IInv
    <3> QED
      BY <2>1, <2>2, <3>1 DEF StoredHeight
  <2> HIDE DEF h
  <2>4. /\ NamesOK' /\ pc' \in {"save", "mark"} /\ ret' = "reindex" /\ at' = 0
        /\ block' \in Blocks /\ Height(block') = h /\ byHeight[h + 1] = block'
        /\ UNCHANGED <<persistedHeight, entries, stored, coinDB, crashes>>
    BY <2>1, <2>2, <2>3, ConnectBlockStep DEF IInv
  <2>5. TypeOK'
    BY <2>1, <2>4 DEF IInv, TypeOK, NamesOK, Positions
  <2>6. BestIsPath' /\ StoredIsPath' /\ OnDisk' /\ InMemory'
    BY <2>1, <2>4, QuietStep DEF IInv
  <2>7. InOperation'
    <3>1. stored # << >>
      BY <2>1 DEF IInv, InOperation, Unloaded
    <3> QED
      BY <2>1, <2>2, <2>3, <2>4, <3>1 DEF InOperation, Reorganizing
  <2> QED
    BY <2>5, <2>6, <2>7 DEF IInv
<1>14. CASE RebuildNames
  <2> DEFINE pend == IF at = 0 THEN Append(pending, GenesisReplayed)
                              ELSE Replayed(at, stored[at + 1])
  <2>1. /\ pc = "rebuild" /\ at < Len(stored) /\ NamesUpTo(at, pend)
        /\ pc' \in {"wipeNames", "rebuild"} /\ at' = at + 1
        /\ UNCHANGED <<byHash, byHeight, persistedHeight, entries, stored, coinDB>>
        /\ UNCHANGED <<ret, block, crashes>>
    BY <1>14 DEF RebuildNames
  <2>2. /\ stored \in Seq(Blocks) /\ Len(stored) \in Nat /\ at \in Nat /\ nameDB.height \in Nat \cup {-1}
        /\ Len(pending) \in Nat
    BY DEF IInv, TypeOK
  <2>3. pend \in Seq(NameBlocks)
    <3>1. at + 1 \in 1..Len(stored)
      BY <2>1, <2>2
    <3>2. stored[at + 1] \in Blocks
      BY <2>2, <3>1, ElementOfSeq
    <3>3. Replayed(at, stored[at + 1]) \in Seq(NameBlocks)
      BY <2>2, <3>2, ReplayedTyped DEF IInv
    <3>4. Append(pending, GenesisReplayed) \in Seq(NameBlocks)
      BY DEF IInv, TypeOK, NameBlocks
    <3> QED
      BY <3>3, <3>4
  <2> HIDE DEF pend
  <2>4. NamesOK'
    BY <2>1, <2>2, <2>3, NamesUpToTyped DEF IInv
  <2>5. TypeOK'
    BY <2>1, <2>2, <2>4 DEF IInv, TypeOK, NamesOK, Positions
  <2>6. BestIsPath' /\ StoredIsPath' /\ OnDisk' /\ InMemory'
    BY <2>1, QuietStep DEF IInv
  <2>7. InOperation'
    BY <2>1 DEF IInv, InOperation, Reorganizing
  <2> QED
    BY <2>5, <2>6, <2>7 DEF IInv
<1> QED
  BY <1>1, <1>2, <1>3, <1>4, <1>5, <1>6, <1>7, <1>8, <1>9, <1>10, <1>11, <1>12, <1>13, <1>14
     DEF Start

LEMMA NextStep ==
    ASSUME IInv, [Next]_vars
    PROVE  IInv'
<1>1. CASE Headers
  BY <1>1, HeadersStep DEF Headers
<1>2. CASE ConnectNext \/ Connect
  BY <1>2, ConnectStep
<1>3. CASE Flush
  BY <1>3, FlushStep
<1>4. CASE ResetToStoredHeight \/ RepairTree \/ Recover
  BY <1>4, RecoverStep
<1>5. CASE Reorganize
  BY <1>5, ReorganizeStep
<1>6. CASE Start
  BY <1>6, StartStep
<1>7. CASE Crash
  <2>1. crashes' \in Nat
    BY <1>7 DEF Crash, IInv, TypeOK
  <2> QED
    BY <1>7, <2>1, DiesStep DEF Crash
<1>8. CASE UNCHANGED vars
  <2>1. UNCHANGED <<byHeight, persistedHeight, entries, stored>>
    BY <1>8 DEF vars, memory, disk
  <2>2. BestIsPath' /\ StoredIsPath' /\ OnDisk' /\ InMemory'
    BY <2>1, QuietStep DEF IInv
  <2>3. TypeOK'
    BY <1>8 DEF IInv, TypeOK, vars, memory, disk, control
  <2>4. InOperation'
    <3>1. ForkHeight(block)' = ForkHeight(block) /\ Tip' = Tip
      BY <1>8 DEF vars, memory, control, ForkHeight, Tip
    <3> QED
      BY <1>8, <3>1 DEF IInv, InOperation, vars, memory, disk, control
  <2> QED
    BY <2>2, <2>3, <2>4 DEF IInv
<1> QED
  BY <1>1, <1>2, <1>3, <1>4, <1>5, <1>6, <1>7, <1>8 DEF Next, Progress, Wait

-----------------------------------------------------------------------------
(* The theorems *)

\* The strengthening holds in every reachable state.
THEOREM Invariance == Spec => []IInv
<1>1. Init => IInv
  BY InitInvariant
<1>2. IInv /\ [Next]_vars => IInv'
  BY NextStep
<1> QED
  BY <1>1, <1>2, PTL DEF Spec

\* Every variable keeps its type in every position of every operation: no
\* height, index or truncation in the code leaves its range, crashes included.
THEOREM TypeCorrect == Spec => []TypeOK
<1>1. IInv => TypeOK
  BY DEF IInv
<1> QED
  BY <1>1, Invariance, PTL

\* The best chain is always one chain, also when it is loaded from a header
\* file with gaps.
THEOREM BestChainIsPath == Spec => []BestIsPath
<1>1. IInv => BestIsPath
  BY DEF IInv
<1> QED
  BY <1>1, Invariance, PTL

\* The blocks on disk are one chain from genesis in every state.
THEOREM StoredChainIsPath == Spec => []StoredIsPath
<1>1. IInv => StoredIsPath
  BY DEF IInv
<1> QED
  BY <1>1, Invariance, PTL

\* At rest the stored blocks are the lower part of the best chain.
THEOREM StoredBelowBest == Spec => []StoredOnBestChain
<1>1. IInv => StoredOnBestChain
  <2> SUFFICES ASSUME IInv, pc = "idle" PROVE IsPrefix(stored, byHeight)
    BY DEF StoredOnBestChain
  <2>1. /\ byHeight # << >> /\ Len(stored) <= Len(byHeight)
        /\ stored \in Seq(Blocks) /\ byHeight \in Seq(Blocks)
        /\ Len(stored) \in Nat /\ Len(byHeight) \in Nat
    BY DEF IInv, InOperation, Unloaded, TypeOK
  <2>2. \A i \in 1..Len(stored) : stored[i] = byHeight[i]
    BY <2>1 DEF IInv, InMemory, Compatible
  <2>3. SubSeq(stored, 1, Len(stored)) = stored
    BY <2>1, SubSeqFull
  <2>4. /\ SubSeq(byHeight, 1, Len(stored)) \in Seq(Blocks)
        /\ Len(SubSeq(byHeight, 1, Len(stored))) = Len(stored)
        /\ \A i \in 1..Len(stored) : SubSeq(byHeight, 1, Len(stored))[i] = byHeight[i]
    <3>1. \A i \in 1..Len(stored) : byHeight[i] \in Blocks
      BY <2>1, ElementOfSeq
    <3> QED
      BY <2>1, <3>1, SubSeqProperties
  <2>5. stored = SubSeq(byHeight, 1, Len(stored))
    BY <2>1, <2>2, <2>4, SeqEqual
  <2> QED
    BY <2>1, <2>3, <2>5 DEF IsPrefix
<1> QED
  BY <1>1, Invariance, PTL

\* Only two steps write the file of blocks.
LEMMA StoredSteps ==
    ASSUME [Next]_vars, stored' # stored
    PROVE  StoreBlock \/ TruncateBlocks
<1> SUFFICES ASSUME ~StoreBlock, ~TruncateBlocks PROVE stored' = stored
  OBVIOUS
<1> USE DEF memory, disk
<1>1. ~Headers
  BY DEF Headers, AddSideHeader, AddTipHeader, BeginReorg, FailReorg, SubmitBlock, ConnectBlock
<1>2. ~ConnectNext /\ ~Flush /\ ~ResetToStoredHeight /\ ~RepairTree
  BY DEF ConnectNext, ConnectBlock, Flush, ResetToStoredHeight, ResetEntries, RepairTree
<1>3. ~Reorganize
  BY DEF Reorganize, DisconnectBlock, MissingUndo, RebuildCoins, TruncateEntries
<1>4. ~Connect
  BY DEF Connect, MarkPending, StoreMismatch, SaveView, CommitGenesis
<1>5. ~Recover
  BY DEF Recover, ResetNames, ResetFails, Dies, RepairGenesis, RepairBlock, RepairDone
<1>6. ~Start
  BY DEF Start, OpenStores, WipeCoins, WipeTree, LoadChain, AlignReset, ResetEntries, AlignReplay,
         AlignDone, StartReindex, ReindexGenesis, ReindexBlock, ConnectBlock, ReindexDone,
         StartRebuild, RebuildNames, RebuildDone
<1>7. ~Crash
  BY DEF Crash, Dies
<1> QED
  BY <1>1, <1>2, <1>3, <1>4, <1>5, <1>6, <1>7 DEF Next, Progress, Wait, vars

\* The block that StoreBlock appends carries the path on.
LEMMA StoreBlockExtends ==
    ASSUME IInv, IInv', StoreBlock
    PROVE  block \in Blocks /\ stored' = Append(stored, block) /\ Path[block] = stored'
<1>1. block \in Blocks /\ stored \in Seq(Blocks) /\ stored' = Append(stored, block)
  BY DEF StoreBlock, IInv, TypeOK
<1>2. stored' # << >> /\ Last(stored') = block
  BY <1>1, AppendProperties DEF Last
<1> QED
  BY <1>1, <1>2 DEF IInv, StoredIsPath

\* What TruncateBlocks leaves and what it makes the tip.
LEMMA TruncateBlocksRewinds ==
    ASSUME IInv, TruncateBlocks
    PROVE  /\ \E n \in 1..Len(stored) : stored' = SubSeq(stored, 1, n)
           /\ Work[Last(byHeight')] > Work[Last(stored)]
<1>1. /\ byHeight # << >> /\ byHeight \in Seq(Blocks) /\ Len(byHeight) \in Nat
      /\ byHeight = Path[Tip] /\ block \in Blocks /\ stored \in Seq(Blocks)
      /\ Len(stored) \in Nat /\ Len(stored) <= Len(byHeight) /\ BestIsPath
      /\ Len(stored) >= 1 /\ Work[block] > Work[Tip]
      /\ Compatible(stored, byHeight)
  BY EmptySeq DEF TruncateBlocks, IInv, InOperation, Unloaded, Reorganizing, TypeOK, BestIsPath,
                  InMemory
<1>2. ForkHeight(block) \in Nat
  BY <1>1, ForkFacts
<1>3. Min({ForkHeight(block) + 1, Len(stored)}) \in 1..Len(stored)
  BY <1>1, <1>2, MinOfTwo
<1>4. \E n \in 1..Len(stored) : stored' = SubSeq(stored, 1, n)
  BY <1>3 DEF TruncateBlocks
<1>5. Last(byHeight') = block
  BY <1>1, PathFacts DEF TruncateBlocks, Last
<1>6. Tip \in Blocks /\ Tip = byHeight[Len(byHeight)] /\ Len(stored) \in 1..Len(byHeight)
  BY <1>1, <1>2, ElementOfSeq DEF Tip, Last
<1>7. Last(stored) = Path[Tip][Len(stored)]
  BY <1>1, <1>6 DEF Compatible, Last
<1>8. Last(stored) \in Blocks
  BY <1>1, <1>6, ElementOfSeq DEF Last
<1>9. Work[Last(stored)] <= Work[Tip]
  <2>1. CASE Len(stored) = Len(byHeight)
    <3>1. Last(stored) = Tip
      BY <2>1, <1>1, <1>6, <1>7
    <3>2. Work[Tip] \in Nat
      BY <1>6, BlocksAssumption
    <3> QED
      BY <3>1, <3>2
  <2>2. CASE Len(stored) # Len(byHeight)
    <3>1. Len(stored) \in 1..(Len(Path[Tip]) - 1)
      BY <2>2, <1>1, <1>6
    <3>2. Work[Path[Tip][Len(stored)]] < Work[Tip]
      BY <3>1, <1>6, BlocksAssumption
    <3>3. Work[Last(stored)] \in Nat /\ Work[Tip] \in Nat
      BY <1>6, <1>8, BlocksAssumption
    <3> QED
      BY <3>2, <3>3, <1>7
  <2> QED
    BY <2>1, <2>2
<1>10. Work[Last(stored)] \in Nat /\ Work[Tip] \in Nat /\ Work[block] \in Nat
  BY <1>1, <1>6, <1>8, BlocksAssumption
<1> QED
  BY <1>1, <1>4, <1>5, <1>9, <1>10

\* Stored blocks are thrown away only for a branch with more work: no reset,
\* crash, repair or start-up step loses a block.
THEOREM RewindNeedsWork == Spec => RewindOnlyForMoreWork
<1>1. IInv /\ IInv' /\ [Next]_vars =>
        [Len(stored') < Len(stored) => Work[Last(byHeight')] > Work[Last(stored)]]_vars
  <2> SUFFICES ASSUME IInv, IInv', [Next]_vars, Len(stored') < Len(stored)
               PROVE  Work[Last(byHeight')] > Work[Last(stored)]
    OBVIOUS
  <2>1. stored' # stored
    BY DEF IInv, TypeOK
  <2>2. CASE StoreBlock
    <3>1. stored' = Append(stored, block) /\ block \in Blocks /\ stored \in Seq(Blocks)
      BY <2>2, StoreBlockExtends DEF IInv, TypeOK
    <3>2. Len(stored') = Len(stored) + 1 /\ Len(stored) \in Nat
      BY <3>1, AppendProperties
    <3> QED
      BY <3>2
  <2>3. CASE TruncateBlocks
    BY <2>3, TruncateBlocksRewinds
  <2> QED
    BY <2>1, <2>2, <2>3, StoredSteps
<1> QED
  BY <1>1, Invariance, PTL DEF Spec, RewindOnlyForMoreWork

\* The stored blocks, through crashes, reorganisations, resets and start-ups,
\* behave as module Ledger says: one path of the block tree, extended by one
\* child at a time, cut back to one of its own blocks and never below genesis.
THEOREM Refinement == Spec => ImplementsLedger
<1>1. Init => L!Init
  <2> SUFFICES ASSUME Init PROVE stored = << >> \/ stored = <<Genesis>>
    BY BlocksAssumption DEF L!Init
  <2> QED
    BY DEF Init
<1>2. IInv /\ IInv' /\ [Next]_vars => [L!Next]_stored
  <2> SUFFICES ASSUME IInv, IInv', [Next]_vars, stored' # stored
               PROVE  L!Next
    OBVIOUS
  <2>1. CASE StoreBlock
    BY <2>1, StoreBlockExtends DEF L!Next, L!Extend
  <2>2. CASE TruncateBlocks
    BY <2>2, TruncateBlocksRewinds DEF L!Next, L!Rewind
  <2> QED
    BY <2>1, <2>2, StoredSteps
<1> QED
  BY <1>1, <1>2, Invariance, PTL DEF Spec, ImplementsLedger, L!Spec

=============================================================================
