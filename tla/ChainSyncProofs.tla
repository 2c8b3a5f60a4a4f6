--------------------------- MODULE ChainSyncProofs ---------------------------
(***************************************************************************)
(* Theorems about ChainSync, for every block tree, any peers, any length   *)
(* of a message, any window and any number of faults.                      *)
(***************************************************************************)
EXTENDS ChainSync, Loops, FiniteSetTheorems, SequenceTheorems, TLAPS

-----------------------------------------------------------------------------
(* The inductive invariant *)

States == {"idle", "syncingHeaders", "syncingBlocks", "synced"}

Nodes ==
    [known : SUBSET Blocks, tip : Blocks, stored : Nat, state : States,
     syncPeerId : Peers \cup {None}, orphanRetries : 0..2, lastHeaderRequest : BOOLEAN,
     pendingBlocks : SUBSET Blocks, blockBuffer : SUBSET Blocks,
     nextConnectHeight : Nat, nextBlockHeight : Nat,
     pendingCompactBlock : Blocks \cup {None}, compacted : BOOLEAN,
     up : [Peers -> {"off", "up", "closing"}], height : [Peers -> Nat],
     asked : [Peers -> SUBSET Requests], banned : SUBSET Peers]

\* The headers that are known are closed under prevBlock, and none follows the tip: what
\* follows the tip has more work and would be the tip.
ChainInv(n) ==
    /\ Genesis \in n.known /\ n.tip \in n.known /\ n.stored <= TipHeight(n)
    /\ \A b \in n.known : \A k \in 1..Len(Path[b]) :
          Path[b][k] \in n.known /\ (Path[b][k] = n.tip => b = n.tip)

\* Only a peer that is connected has requests to answer.
PeersInv(n) == \A p \in Peers : n.asked[p] # {} => n.up[p] # "off"

\* A download has a sync peer that will answer or go.
SyncPeerInv(n) ==
    n.state \in {"syncingHeaders", "syncingBlocks"} =>
        n.syncPeerId \in Peers /\ n.up[n.syncPeerId] # "off"

HeaderTimer(n) ==
    n.state = "syncingHeaders" /\ n.up[n.syncPeerId] = "up" => n.lastHeaderRequest

WindowInv(n) ==
    /\ IsFiniteSet(n.pendingBlocks) /\ IsFiniteSet(n.blockBuffer)
    /\ Cardinality(n.pendingBlocks) + Cardinality(n.blockBuffer) <= Window
    /\ n.state # "syncingBlocks" =>
        n.pendingBlocks = {} /\ n.blockBuffer = {} /\ n.compacted = FALSE

\* Requested and buffered blocks have every height from the one to connect next to the
\* one to request next, and no height twice, whatever branch they are on.
Outstanding(n) == n.pendingBlocks \cup n.blockBuffer

InOrder(n) ==
    /\ n.pendingBlocks \cap n.blockBuffer = {}
    /\ \A b, c \in Outstanding(n) : Height(b) = Height(c) => b = c
    /\ \A b \in Outstanding(n) : Height(b) \in n.nextConnectHeight..(n.nextBlockHeight - 1)
    /\ \A h \in n.nextConnectHeight..(n.nextBlockHeight - 1) :
          \E b \in Outstanding(n) : Height(b) = h
    /\ n.stored < n.nextConnectHeight /\ n.nextConnectHeight <= n.nextBlockHeight

\* A download of blocks waits for at least one.
QueueInv(n) ==
    n.state = "syncingBlocks" =>
        IF n.compacted THEN n.pendingBlocks = {} ELSE n.pendingBlocks # {} /\ InOrder(n)

NodeInv(n) ==
    /\ n \in Nodes /\ ChainInv(n) /\ PeersInv(n)
    /\ SyncPeerInv(n) /\ HeaderTimer(n) /\ WindowInv(n) /\ QueueInv(n)

\* A peer whose highest block is tip has the block, or had it before it reorganised.
HasShown(p, tip, b) == \E t \in Tips[p] : Work[t] <= Work[tip] /\ b \in ToSet(Path[t])

BufferShown ==
    node.state = "syncingBlocks" /\ ~node.compacted =>
        \A b \in node.blockBuffer : HasShown(node.syncPeerId, peerTip[node.syncPeerId], b)

IInv ==
    /\ NodeInv(node) /\ BufferShown
    /\ peerTip \in [Peers -> Blocks] /\ \A p \in Peers : peerTip[p] \in Tips[p]
    /\ told \subseteq Peers /\ faults \in 0..MaxFaults

-----------------------------------------------------------------------------
(* The loops *)

\* A family of sets that every turn of the loop of onHeaders stays in has what it ends in.
LEMMA ScanStays ==
    ASSUME NEW n, NEW p, NEW hs \in Seq(Blocks), NEW V,
           [n |-> n, added |-> 0, stop |-> "no"] \in V[0],
           \A i \in 1..Len(hs) : \A s \in V[i - 1] : ScanHeader(s, p, hs[i]) \in V[i]
    PROVE  ScanHeaders(n, p, hs) \subseteq V[Len(hs)]
<1> DEFINE N == Len(hs)
           base == {[n |-> n, added |-> 0, stop |-> "no"]}
           W == [i \in 0..N |-> SUBSET V[i]]
           G == [i \in 1..N |-> [x \in W[i - 1] |-> {ScanHeader(s, p, hs[i]) : s \in x}]]
           Body(f) == [i \in 0..N |-> IF i = 0 THEN base ELSE {ScanHeader(s, p, hs[i]) : s \in f[i - 1]}]
           run == CHOOSE f : f = Body(f)
<1>1. N \in Nat
  OBVIOUS
<1>2. base \in W[0]
  BY <1>1
<1>3. \A i \in 1..N : \A x \in SUBSET V[i - 1] : {ScanHeader(s, p, hs[i]) : s \in x} \in SUBSET V[i]
  BY <1>1
<1>4. MapsOn(N, W, G)
  <2> SUFFICES ASSUME NEW i \in 1..N PROVE G[i] \in [W[i - 1] -> W[i]]
    BY DEF MapsOn
  <2>1. i \in 0..N /\ i - 1 \in 0..N
    BY <1>1
  <2>2. ASSUME NEW x \in W[i - 1] PROVE {ScanHeader(s, p, hs[i]) : s \in x} \in W[i]
    BY <2>1, <2>2, <1>3
  <2>3. QED
    BY <2>2
<1>5. PICK g : Iterates(g, N, W, base, G)
  <2> HIDE DEF N, W, G, base
  <2>1. QED
    BY <1>1, <1>2, <1>4, IterationExists
<1>6. g = Body(g)
  <2>1. ASSUME NEW i \in 1..N PROVE g[i] = {ScanHeader(s, p, hs[i]) : s \in g[i - 1]}
    <3>1. i - 1 \in 0..N
      BY <1>1
    <3>2. g[i - 1] \in W[i - 1]
      BY <3>1, <1>5 DEF Iterates
    <3>3. QED
      BY <3>2, <1>5 DEF Iterates
  <2>2. \A i \in 0..N : i # 0 => i \in 1..N
    BY <1>1
  <2> HIDE DEF N, base
  <2>3. QED
    BY <1>5, <2>1, <2>2 DEF Iterates
<1>7. run = Body(run)
  <2> HIDE DEF Body
  <2>1. QED
    BY <1>6
<1>8. ScanHeaders(n, p, hs) = run[N]
  BY DEF ScanHeaders
<1> HIDE DEF run
<1>9. \A i \in 0..N : run[i] = IF i = 0 THEN base ELSE {ScanHeader(s, p, hs[i]) : s \in run[i - 1]}
  BY <1>7
<1> DEFINE S == {i \in 0..N : run[i] \in SUBSET V[i]}
<1>10. 0 \in S
  <2>1. 0 \in 0..N
    BY <1>1
  <2>2. run[0] = base
    BY <1>9, <2>1
  <2>3. base \in SUBSET V[0]
    BY <1>2, <2>1
  <2> HIDE DEF base, N, W
  <2>4. QED
    BY <2>1, <2>2, <2>3
<1>11. ASSUME NEW i \in 1..N, i - 1 \in S PROVE i \in S
  <2>1. i \in 0..N /\ i # 0
    BY <1>1
  <2>2. run[i] = {ScanHeader(s, p, hs[i]) : s \in run[i - 1]}
    BY <1>9, <2>1
  <2>3. QED
    BY <1>3, <1>11, <2>1, <2>2
<1>12. 0..N \subseteq S
  <2> HIDE DEF S, N
  <2>1. QED
    BY <1>1, <1>10, <1>11, SetInduction
<1>13. N \in S
  <2> HIDE DEF S, N
  <2>1. QED
    BY <1>1, <1>12
<1>14. QED
  BY <1>8, <1>13

\* The same of the loops that connect the buffered blocks.
LEMMA DrainStays ==
    ASSUME NEW n, IsFiniteSet(n.blockBuffer), NEW V,
           [n |-> n, failed |-> FALSE] \in V[0],
           \A i \in 1..Cardinality(n.blockBuffer) :
              \A s \in V[i - 1] : ConnectDue(s) \in V[i]
    PROVE  Drain(n) \subseteq V[Cardinality(n.blockBuffer)]
<1> DEFINE N == Cardinality(n.blockBuffer)
           base == {[n |-> n, failed |-> FALSE]}
           W == [i \in 0..N |-> SUBSET V[i]]
           G == [i \in 1..N |-> [x \in W[i - 1] |-> {ConnectDue(s) : s \in x}]]
           Body(f) == [i \in 0..N |-> IF i = 0 THEN base ELSE {ConnectDue(s) : s \in f[i - 1]}]
           run == CHOOSE f : f = Body(f)
<1>1. N \in Nat
  BY FS_CardinalityType
<1>2. base \in W[0]
  BY <1>1
<1>3. \A i \in 1..N : \A x \in SUBSET V[i - 1] : {ConnectDue(s) : s \in x} \in SUBSET V[i]
  BY <1>1
<1>4. MapsOn(N, W, G)
  <2> SUFFICES ASSUME NEW i \in 1..N PROVE G[i] \in [W[i - 1] -> W[i]]
    BY DEF MapsOn
  <2>1. i \in 0..N /\ i - 1 \in 0..N
    BY <1>1
  <2>2. ASSUME NEW x \in W[i - 1] PROVE {ConnectDue(s) : s \in x} \in W[i]
    BY <2>1, <2>2, <1>3
  <2>3. QED
    BY <2>2
<1>5. PICK g : Iterates(g, N, W, base, G)
  <2> HIDE DEF N, W, G, base
  <2>1. QED
    BY <1>1, <1>2, <1>4, IterationExists
<1>6. g = Body(g)
  <2>1. ASSUME NEW i \in 1..N PROVE g[i] = {ConnectDue(s) : s \in g[i - 1]}
    <3>1. i - 1 \in 0..N
      BY <1>1
    <3>2. g[i - 1] \in W[i - 1]
      BY <3>1, <1>5 DEF Iterates
    <3>3. QED
      BY <3>2, <1>5 DEF Iterates
  <2>2. \A i \in 0..N : i # 0 => i \in 1..N
    BY <1>1
  <2> HIDE DEF N, base
  <2>3. QED
    BY <1>5, <2>1, <2>2 DEF Iterates
<1>7. run = Body(run)
  <2> HIDE DEF Body
  <2>1. QED
    BY <1>6
<1>8. Drain(n) = run[N]
  BY DEF Drain
<1> HIDE DEF run
<1>9. \A i \in 0..N : run[i] = IF i = 0 THEN base ELSE {ConnectDue(s) : s \in run[i - 1]}
  BY <1>7
<1> DEFINE S == {i \in 0..N : run[i] \in SUBSET V[i]}
<1>10. 0 \in S
  <2>1. 0 \in 0..N
    BY <1>1
  <2>2. run[0] = base
    BY <1>9, <2>1
  <2>3. base \in SUBSET V[0]
    BY <1>2, <2>1
  <2> HIDE DEF base, N, W
  <2>4. QED
    BY <2>1, <2>2, <2>3
<1>11. ASSUME NEW i \in 1..N, i - 1 \in S PROVE i \in S
  <2>1. i \in 0..N /\ i # 0
    BY <1>1
  <2>2. run[i] = {ConnectDue(s) : s \in run[i - 1]}
    BY <1>9, <2>1
  <2>3. QED
    BY <1>3, <1>11, <2>1, <2>2
<1>12. 0..N \subseteq S
  <2> HIDE DEF S, N
  <2>1. QED
    BY <1>1, <1>10, <1>11, SetInduction
<1>13. N \in S
  <2> HIDE DEF S, N
  <2>1. QED
    BY <1>1, <1>12
<1>14. QED
  BY <1>8, <1>13

\* The same of the loop that only indexes headers.
LEMMA IndexStays ==
    ASSUME NEW n, NEW hs \in Seq(Blocks), NEW U, n \in U,
           \A m \in U : \A b \in Blocks : Add(m, b) \in U
    PROVE  IndexHeaders(n, hs) \subseteq U
<1> DEFINE V == [i \in 0..Len(hs) |-> U]
           N == Len(hs)
           base == {n}
           W == [i \in 0..N |-> SUBSET V[i]]
           G == [i \in 1..N |-> [x \in W[i - 1] |-> (IF \E j \in 1..i : hs[j] \in Unproved THEN x ELSE {Add(m, hs[i]) : m \in x})]]
           Body(f) == [i \in 0..N |-> IF i = 0 THEN base ELSE (IF \E j \in 1..i : hs[j] \in Unproved THEN f[i - 1] ELSE {Add(m, hs[i]) : m \in f[i - 1]})]
           run == CHOOSE f : f = Body(f)
<1>1. N \in Nat
  OBVIOUS
<1>2. base \in W[0]
  BY <1>1
<1>3. \A i \in 1..N : \A x \in SUBSET V[i - 1] : (IF \E j \in 1..i : hs[j] \in Unproved THEN x ELSE {Add(m, hs[i]) : m \in x}) \in SUBSET V[i]
  BY <1>1
<1>4. MapsOn(N, W, G)
  <2> SUFFICES ASSUME NEW i \in 1..N PROVE G[i] \in [W[i - 1] -> W[i]]
    BY DEF MapsOn
  <2>1. i \in 0..N /\ i - 1 \in 0..N
    BY <1>1
  <2>2. ASSUME NEW x \in W[i - 1] PROVE (IF \E j \in 1..i : hs[j] \in Unproved THEN x ELSE {Add(m, hs[i]) : m \in x}) \in W[i]
    BY <2>1, <2>2, <1>3
  <2>3. QED
    BY <2>2
<1>5. PICK g : Iterates(g, N, W, base, G)
  <2> HIDE DEF N, W, G, base
  <2>1. QED
    BY <1>1, <1>2, <1>4, IterationExists
<1>6. g = Body(g)
  <2>1. ASSUME NEW i \in 1..N PROVE g[i] = (IF \E j \in 1..i : hs[j] \in Unproved THEN g[i - 1] ELSE {Add(m, hs[i]) : m \in g[i - 1]})
    <3>1. i - 1 \in 0..N
      BY <1>1
    <3>2. g[i - 1] \in W[i - 1]
      BY <3>1, <1>5 DEF Iterates
    <3>3. QED
      BY <3>2, <1>5 DEF Iterates
  <2>2. \A i \in 0..N : i # 0 => i \in 1..N
    BY <1>1
  <2> HIDE DEF N, base
  <2>3. QED
    BY <1>5, <2>1, <2>2 DEF Iterates
<1>7. run = Body(run)
  <2> HIDE DEF Body
  <2>1. QED
    BY <1>6
<1>8. IndexHeaders(n, hs) = run[N]
  BY DEF IndexHeaders
<1> HIDE DEF run
<1>9. \A i \in 0..N : run[i] = IF i = 0 THEN base ELSE (IF \E j \in 1..i : hs[j] \in Unproved THEN run[i - 1] ELSE {Add(m, hs[i]) : m \in run[i - 1]})
  BY <1>7
<1> DEFINE S == {i \in 0..N : run[i] \in SUBSET V[i]}
<1>10. 0 \in S
  <2>1. 0 \in 0..N
    BY <1>1
  <2>2. run[0] = base
    BY <1>9, <2>1
  <2>3. base \in SUBSET V[0]
    BY <1>2, <2>1
  <2> HIDE DEF base, N, W
  <2>4. QED
    BY <2>1, <2>2, <2>3
<1>11. ASSUME NEW i \in 1..N, i - 1 \in S PROVE i \in S
  <2>1. i \in 0..N /\ i # 0
    BY <1>1
  <2>2. run[i] = (IF \E j \in 1..i : hs[j] \in Unproved THEN run[i - 1] ELSE {Add(m, hs[i]) : m \in run[i - 1]})
    BY <1>9, <2>1
  <2>3. QED
    BY <1>3, <1>11, <2>1, <2>2
<1>12. 0..N \subseteq S
  <2> HIDE DEF S, N
  <2>1. QED
    BY <1>1, <1>10, <1>11, SetInduction
<1>13. N \in S
  <2> HIDE DEF S, N
  <2>1. QED
    BY <1>1, <1>12
<1>14. QED
  BY <1>8, <1>13

-----------------------------------------------------------------------------
(* Lemmas about numbers and about paths *)

\* A set of naturals that is bounded and not empty has a greatest element.
LEMMA MaxExists ==
    ASSUME NEW S \in SUBSET Nat, S # {}, NEW N \in Nat, \A x \in S : x <= N
    PROVE  Max(S) \in S /\ \A y \in S : y <= Max(S)
<1> DEFINE D == {N - x : x \in S}
<1>0. \A x \in S : x \in Nat /\ x <= N /\ N - x \in Nat
  OBVIOUS
<1>1. D # {} /\ D \subseteq Nat
  BY <1>0
<1>2. PICK d \in D : \A y \in D : <<y, d>> \notin Less
  BY <1>1, LessWellFounded, WFMin
<1>3. PICK x \in S : d = N - x
  OBVIOUS
<1>4. ASSUME NEW y \in S PROVE y <= x
  <2>1. N - y \in D
    OBVIOUS
  <2>2. <<N - y, d>> \notin Less
    BY <1>2, <2>1
  <2>3. ~(N - y < d)
    BY <2>1, <2>2, <1>1 DEF Less
  <2>4. QED
    BY <2>3, <1>0, <1>3
<1>5. QED
  BY <1>4 DEF Max

LEMMA MinOfTwo ==
    ASSUME NEW a \in Int, NEW b \in Int
    PROVE  Min({a, b}) = IF a <= b THEN a ELSE b
  BY DEF Min

LEMMA MaxOfTwo ==
    ASSUME NEW a \in Int, NEW b \in Int
    PROVE  Max({a, b}) = IF a >= b THEN a ELSE b
  BY DEF Max

LEMMA PathFacts ==
    ASSUME NEW b \in Blocks
    PROVE  /\ Path[b] \in Seq(Blocks) /\ Len(Path[b]) \in Nat /\ Len(Path[b]) >= 1
           /\ Path[b][1] = Genesis /\ Path[b][Len(Path[b])] = b
           /\ \A n \in 1..Len(Path[b]) :
                /\ Path[b][n] \in Blocks
                /\ Path[Path[b][n]] = SubSeq(Path[b], 1, n)
                /\ Height(Path[b][n]) = n - 1
                /\ Work[Path[b][n]] <= Work[b]
           /\ Height(b) \in Nat /\ Len(Path[b]) = Height(b) + 1 /\ Work[b] \in Nat
<1>1. Path[b] \in Seq(Blocks) /\ Path[b] # << >> /\ Work[b] \in Nat
  BY TreeAssumption
<1>2. Len(Path[b]) \in Nat /\ Len(Path[b]) >= 1
  BY <1>1, EmptySeq
<1>3. \A n \in 1..Len(Path[b]) :
         Path[b][n] \in Blocks /\ Path[Path[b][n]] = SubSeq(Path[b], 1, n)
  BY <1>1, TreeAssumption, ElementOfSeq
<1>4. \A n \in 1..Len(Path[b]) : Len(SubSeq(Path[b], 1, n)) = n
  BY <1>1, <1>2
<1>5. \A n \in 1..Len(Path[b]) : Height(Path[b][n]) = n - 1
  BY <1>3, <1>4 DEF Height
<1>6. ASSUME NEW n \in 1..Len(Path[b]) PROVE Work[Path[b][n]] <= Work[b]
  <2>1. CASE n = Len(Path[b])
    <3>1. Path[b][n] = b
      BY <2>1, TreeAssumption
    <3>2. QED
      BY <3>1, <1>1
  <2>2. CASE n \in 1..(Len(Path[b]) - 1)
    <3>1. Work[Path[b][n]] < Work[b] /\ Work[Path[b][n]] \in Nat
      BY <2>2, <1>3, TreeAssumption
    <3>2. QED
      BY <3>1, <1>1
  <2>3. QED
    BY <2>1, <2>2, <1>2
<1>7. QED
  BY <1>1, <1>2, <1>3, <1>5, <1>6, TreeAssumption DEF Height

\* A block of a path has the beginning of that path.
LEMMA PrefixOfPath ==
    ASSUME NEW b \in Blocks, NEW n \in 1..Len(Path[b]), NEW c, c = Path[b][n]
    PROVE  c \in Blocks /\ Len(Path[c]) = n /\ \A i \in 1..n : Path[c][i] = Path[b][i]
<1>1. c \in Blocks /\ Path[c] = SubSeq(Path[b], 1, n) /\ Path[b] \in Seq(Blocks)
  BY PathFacts
<1>2. Len(Path[b]) \in Nat /\ n \in Nat /\ n <= Len(Path[b])
  BY PathFacts
<1>3. Len(SubSeq(Path[b], 1, n)) = n /\ \A i \in 1..n : SubSeq(Path[b], 1, n)[i] = Path[b][i]
  BY <1>1, <1>2
<1>4. QED
  BY <1>1, <1>3

LEMMA ParentFacts ==
    ASSUME NEW b \in Blocks, b # Genesis
    PROVE  /\ Len(Path[b]) >= 2 /\ Parent(b) \in Blocks
           /\ Height(Parent(b)) = Height(b) - 1 /\ Parent(b) # b
           /\ \A i \in 1..(Len(Path[b]) - 1) : Path[Parent(b)][i] = Path[b][i]
<1>1. Len(Path[b]) \in Nat /\ Len(Path[b]) >= 2 /\ Height(b) \in Int
  BY PathFacts
<1>2. Len(Path[b]) - 1 \in 1..Len(Path[b]) /\ Parent(b) = Path[b][Len(Path[b]) - 1]
  BY <1>1 DEF Parent
<1>3. Parent(b) \in Blocks /\ Len(Path[Parent(b)]) = Len(Path[b]) - 1
  BY <1>2, PrefixOfPath
<1>4. \A i \in 1..(Len(Path[b]) - 1) : Path[Parent(b)][i] = Path[b][i]
  BY <1>2, PrefixOfPath
<1>5. Height(Parent(b)) = Height(b) - 1
  BY <1>1, <1>3 DEF Height
<1>6. QED
  BY <1>1, <1>3, <1>4, <1>5

\* Where two paths part.
LEMMA CommonFacts ==
    ASSUME NEW b \in Blocks, NEW c \in Blocks
    PROVE  LET k == Common(Path[b], Path[c]) IN
           /\ k \in 1..Len(Path[b]) /\ k <= Len(Path[c]) /\ Path[b][k] = Path[c][k]
           /\ \A i \in 1..Len(Path[b]) : i <= Len(Path[c]) /\ Path[b][i] = Path[c][i] => i <= k
<1> DEFINE S == {i \in 1..Len(Path[b]) : i <= Len(Path[c]) /\ Path[b][i] = Path[c][i]}
<1>1. Len(Path[b]) \in Nat /\ Len(Path[b]) >= 1 /\ Len(Path[c]) \in Nat /\ Len(Path[c]) >= 1
  BY PathFacts
<1>2. 1 \in S
  <2>1. Path[b][1] = Genesis /\ Path[c][1] = Genesis
    BY TreeAssumption
  <2>2. QED
    BY <1>1, <2>1
<1>3. S \in SUBSET Nat /\ \A i \in S : i <= Len(Path[b])
  BY <1>1
<1>4. Common(Path[b], Path[c]) = Max(S)
  BY DEF Common
<1> HIDE DEF S
<1>5. Max(S) \in S /\ \A i \in S : i <= Max(S)
  BY <1>1, <1>2, <1>3, MaxExists
<1>6. QED
  BY <1>4, <1>5 DEF S

-----------------------------------------------------------------------------
(* Lemmas about the chain *)

Known(n) == n \in Nodes /\ ChainInv(n)

\* The best chain is in the index, height by height.
LEMMA BestChainFacts ==
    ASSUME NEW n, Known(n)
    PROVE  /\ TipHeight(n) \in Nat /\ n.stored \in 0..TipHeight(n) /\ n.tip \in Blocks
           /\ \A h \in 0..TipHeight(n) :
                /\ Path[n.tip][h + 1] \in n.known
                /\ Height(Path[n.tip][h + 1]) = h
                /\ OnBestChain(n, Path[n.tip][h + 1])
           /\ \A b : OnBestChain(n, b) =>
                b \in Blocks /\ Height(b) \in 0..TipHeight(n) /\ b = Path[n.tip][Height(b) + 1]
<1>1. n.tip \in Blocks /\ n.stored \in Nat /\ n.known \subseteq Blocks
  BY DEF Known, Nodes
<1>2. TipHeight(n) \in Nat /\ Len(Path[n.tip]) = TipHeight(n) + 1
  BY <1>1, PathFacts DEF TipHeight
<1>3. n.stored \in 0..TipHeight(n)
  BY <1>1, <1>2 DEF Known, ChainInv
<1>4. ASSUME NEW h \in 0..TipHeight(n)
      PROVE  /\ Path[n.tip][h + 1] \in n.known
             /\ Height(Path[n.tip][h + 1]) = h
             /\ OnBestChain(n, Path[n.tip][h + 1])
  <2>1. h + 1 \in 1..Len(Path[n.tip])
    BY <1>2
  <2>2. Path[n.tip][h + 1] \in n.known
    BY <2>1 DEF Known, ChainInv
  <2>3. Height(Path[n.tip][h + 1]) = (h + 1) - 1
    BY <2>1, <1>1, PathFacts
  <2>4. QED
    BY <2>2, <2>3, <1>2 DEF OnBestChain
<1>5. ASSUME NEW b, OnBestChain(n, b)
      PROVE  b \in Blocks /\ Height(b) \in 0..TipHeight(n) /\ b = Path[n.tip][Height(b) + 1]
  <2>1. b \in Blocks
    BY <1>1, <1>5 DEF OnBestChain
  <2>2. Height(b) \in Nat
    BY <2>1, PathFacts
  <2>3. QED
    BY <2>1, <2>2, <1>2, <1>5 DEF OnBestChain
<1>6. QED
  BY <1>1, <1>2, <1>3, <1>4, <1>5

\* Everything but the headers and the stored height.
SameButChain(m, n) ==
    /\ m.state = n.state /\ m.syncPeerId = n.syncPeerId /\ m.orphanRetries = n.orphanRetries
    /\ m.lastHeaderRequest = n.lastHeaderRequest
    /\ m.pendingBlocks = n.pendingBlocks /\ m.blockBuffer = n.blockBuffer
    /\ m.nextConnectHeight = n.nextConnectHeight /\ m.nextBlockHeight = n.nextBlockHeight
    /\ m.pendingCompactBlock = n.pendingCompactBlock /\ m.compacted = n.compacted
    /\ m.up = n.up /\ m.asked = n.asked /\ m.banned = n.banned

SameChain(m, n) == m.known = n.known /\ m.tip = n.tip /\ m.stored = n.stored

LEMMA ChainTyped ==
    ASSUME NEW n \in Nodes, NEW ks \in SUBSET Blocks, NEW t \in Blocks, NEW h \in Nat
    PROVE  [n EXCEPT !.known = ks, !.tip = t, !.stored = h] \in Nodes
  BY Zenon DEF Nodes

\* Chain.add keeps the chain in order, whatever the header.
LEMMA AddFacts ==
    ASSUME NEW n, Known(n), NEW b \in Blocks
    PROVE  /\ Known(Add(n, b)) /\ SameButChain(Add(n, b), n) /\ Add(n, b).height = n.height
           /\ Add(n, b).stored <= n.stored
           /\ \/ Add(n, b).tip = n.tip /\ Add(n, b).stored = n.stored
              \/ Add(n, b).tip = b /\ Verdict(n, b) = "added"
           /\ n.known \subseteq Add(n, b).known
<1> DEFINE v == Verdict(n, b)
           F == ForkHeight(n, b)
<1>1. n \in Nodes /\ ChainInv(n) /\ n.tip \in Blocks /\ n.known \subseteq Blocks /\ n.stored \in Nat
  BY DEF Known, Nodes
<1>2. CASE v \notin {"added", "failed"}
  <2>1. Add(n, b) = n
    BY <1>2 DEF Add
  <2>2. QED
    BY <2>1, <1>1 DEF Known, SameButChain
<1>3. CASE v \in {"added", "failed"}
  <2>1. b # Genesis /\ Parent(b) \in n.known /\ b \notin n.known
    BY <1>3 DEF Verdict
  <2>2. Len(Path[b]) \in Nat /\ Len(Path[b]) >= 2
    BY <2>1, ParentFacts, PathFacts
  <2>3. ASSUME NEW c \in n.known \cup {b}, NEW k \in 1..Len(Path[c])
        PROVE  Path[c][k] \in n.known \cup {b} /\ (Path[c][k] = b => c = b)
    <3>1. CASE c \in n.known
      BY <3>1, <2>1, <1>1 DEF ChainInv
    <3>2. CASE c = b /\ k = Len(Path[b])
      BY <3>2, PathFacts
    <3>3. CASE c = b /\ k \in 1..(Len(Path[b]) - 1)
      <4>1. Len(Path[Parent(b)]) = Len(Path[b]) - 1
        BY <2>1, ParentFacts, PathFacts
      <4>2. Path[Parent(b)][k] \in n.known
        BY <3>3, <4>1, <2>1, <1>1 DEF ChainInv
      <4>3. QED
        BY <4>2, <3>3, <2>1, ParentFacts
    <3>4. QED
      BY <3>1, <3>2, <3>3, <2>2
  <2>4. F \in 0..Height(b)
    BY <1>1, <2>2, CommonFacts DEF ForkHeight, Height
  <2>5. Min({n.stored, F}) \in Nat /\ Min({n.stored, F}) <= n.stored /\ Min({n.stored, F}) <= Height(b)
    <3>1. Height(b) \in Nat
      BY PathFacts
    <3>2. QED
      BY <1>1, <2>4, <3>1, MinOfTwo
  <2>6. CASE v = "failed" \/ Work[b] <= Work[n.tip]
    <3>1. Add(n, b) = [n EXCEPT !.known = @ \cup {b}]
      BY <1>3, <2>6 DEF Add
    <3>2. \A k \in 1..Len(Path[b]) : Path[b][k] # n.tip
      <4>1. SUFFICES ASSUME NEW k \in 1..Len(Path[b]), Path[b][k] = n.tip PROVE FALSE
        OBVIOUS
      <4>2. n.tip # b
        BY <2>1, <1>1 DEF ChainInv
      <4>3. k \in 1..(Len(Path[b]) - 1)
        <5>1. Path[b][Len(Path[b])] = b
          BY PathFacts
        <5>2. QED
          BY <5>1, <4>1, <4>2, <2>2
      <4>4. Len(Path[Parent(b)]) = Len(Path[b]) - 1 /\ Path[Parent(b)][k] = n.tip
        <5>1. Path[Parent(b)][k] = Path[b][k]
          BY <4>3, <2>1, ParentFacts
        <5>2. Len(Path[Parent(b)]) = Len(Path[b]) - 1
          BY <2>1, ParentFacts, PathFacts
        <5>3. QED
          BY <5>1, <5>2, <4>1
      <4>5. Parent(b) = n.tip
        BY <4>3, <4>4, <2>1, <1>1 DEF ChainInv
      <4>6. Work[n.tip] < Work[b] /\ Work[n.tip] \in Nat /\ Work[b] \in Nat
        BY <4>1, <4>3, <1>1, TreeAssumption
      <4>7. v = "failed"
        BY <4>6, <2>6
      <4>8. QED
        BY <4>5, <4>7 DEF Verdict
    <3>3. Known(Add(n, b))
      <4>1. Add(n, b) \in Nodes
        BY <3>1, <1>1 DEF Nodes
      <4>2. Add(n, b).known = n.known \cup {b} /\ Add(n, b).tip = n.tip /\ Add(n, b).stored = n.stored
        BY <3>1, <1>1 DEF Nodes
      <4>3. ChainInv(Add(n, b))
        BY <4>2, <3>2, <2>3, <1>1 DEF ChainInv, TipHeight
      <4>4. QED
        BY <4>1, <4>3 DEF Known
    <3>4. QED
      BY <3>1, <3>3, <1>1 DEF Nodes, SameButChain
  <2>7. CASE ~(v = "failed" \/ Work[b] <= Work[n.tip])
    <3>1. Add(n, b) = [n EXCEPT !.known = @ \cup {b}, !.tip = b, !.stored = Min({@, F})]
      BY <1>3, <2>7 DEF Add
    <3> DEFINE q == Min({n.stored, F})
               ks == n.known \cup {b}
    <3>2. Add(n, b) \in Nodes
      <4>1. Add(n, b) = [n EXCEPT !.known = ks, !.tip = b, !.stored = q]
        BY <3>1
      <4>2. q \in Nat /\ ks \in SUBSET Blocks
        BY <2>5, <1>1
      <4> HIDE DEF q, ks
      <4>3. [n EXCEPT !.known = ks, !.tip = b, !.stored = q] \in Nodes
        BY <4>2, <1>1, ChainTyped, Zenon
      <4>4. QED
        BY <4>1, <4>3
    <3>3. Add(n, b).known = n.known \cup {b} /\ Add(n, b).tip = b /\ Add(n, b).stored = Min({n.stored, F})
      BY <3>1, <1>1 DEF Nodes
    <3>4. ChainInv(Add(n, b))
      BY <3>3, <2>3, <2>5, <1>1 DEF ChainInv, TipHeight
    <3>5. SameButChain(Add(n, b), n) /\ Add(n, b).height = n.height
      BY <3>1, <1>1 DEF Nodes, SameButChain
    <3>6. QED
      BY <3>2, <3>3, <3>4, <3>5, <2>5, <1>3, <2>7 DEF Known
  <2>8. QED
    BY <2>6, <2>7
<1>4. QED
  BY <1>2, <1>3

-----------------------------------------------------------------------------
(* Lemmas about what a handler does to peers and to the download *)

Base(n) == Known(n) /\ PeersInv(n)

NoQueue(n) == n.pendingBlocks = {} /\ n.blockBuffer = {} /\ n.compacted = FALSE

\* Nobody is banned, and what is buffered was buffered in the same download.
Kept(m, n) ==
    /\ m.banned = n.banned
    /\ m.state = "syncingBlocks" /\ ~m.compacted /\ m.blockBuffer # {} =>
        /\ n.state = "syncingBlocks" /\ ~n.compacted
        /\ m.syncPeerId = n.syncPeerId /\ m.blockBuffer \subseteq n.blockBuffer

\* Outside a download the rest of the invariant follows.
LEMMA RestingNode ==
    ASSUME NEW n, Base(n), NoQueue(n), n.state \in {"idle", "synced"}
    PROVE  NodeInv(n)
<1>1. n \in Nodes /\ ChainInv(n) /\ PeersInv(n)
  BY DEF Base, Known
<1>2. WindowInv(n)
  BY FS_EmptySet, PeersAssumption DEF WindowInv, NoQueue
<1>3. QED
  BY <1>1, <1>2 DEF NodeInv, SyncPeerInv, HeaderTimer, QueueInv

LEMMA HeadersAfterTyped ==
    ASSUME NEW n, Known(n)
    PROVE  HeadersAfter(n) \in SUBSET Requests
  BY DEF Known, Nodes, HeadersAfter, Requests

LEMMA AskFacts ==
    ASSUME NEW n, Base(n), NEW p \in Peers, NEW rs \in SUBSET Requests
    PROVE  LET m == Ask(n, p, rs) IN
           /\ Base(m) /\ SameChain(m, n) /\ m.height = n.height
           /\ m.state = n.state /\ m.syncPeerId = n.syncPeerId /\ m.orphanRetries = n.orphanRetries
           /\ m.lastHeaderRequest = n.lastHeaderRequest
           /\ m.pendingBlocks = n.pendingBlocks /\ m.blockBuffer = n.blockBuffer
           /\ m.nextConnectHeight = n.nextConnectHeight /\ m.nextBlockHeight = n.nextBlockHeight
           /\ m.compacted = n.compacted /\ m.up = n.up /\ m.banned = n.banned
<1>1. n \in Nodes /\ ChainInv(n) /\ PeersInv(n)
  BY DEF Base, Known
<1> DEFINE m == Ask(n, p, rs)
<1>2. m \in Nodes
  BY <1>1 DEF Ask, Nodes
<1>3. /\ SameChain(m, n) /\ m.height = n.height
      /\ m.state = n.state /\ m.syncPeerId = n.syncPeerId /\ m.orphanRetries = n.orphanRetries
      /\ m.lastHeaderRequest = n.lastHeaderRequest
      /\ m.pendingBlocks = n.pendingBlocks /\ m.blockBuffer = n.blockBuffer
      /\ m.nextConnectHeight = n.nextConnectHeight /\ m.nextBlockHeight = n.nextBlockHeight
      /\ m.compacted = n.compacted /\ m.up = n.up /\ m.banned = n.banned
  BY <1>1 DEF Ask, Nodes, SameChain
<1>4. PeersInv(m)
  BY <1>1 DEF Ask, Nodes, PeersInv
<1>5. ChainInv(m)
  <2> HIDE DEF m
  <2>1. QED
    BY <1>1, <1>3 DEF SameChain, ChainInv, TipHeight
<1>6. QED
  BY <1>2, <1>3, <1>4, <1>5 DEF Base, Known

LEMMA RequestHeadersFacts ==
    ASSUME NEW n, Base(n), NEW p \in Peers
    PROVE  LET m == RequestHeaders(n, p) IN
           /\ Base(m) /\ SameChain(m, n) /\ m.lastHeaderRequest = TRUE
           /\ m.state = n.state /\ m.syncPeerId = n.syncPeerId /\ m.orphanRetries = n.orphanRetries
           /\ m.pendingBlocks = n.pendingBlocks /\ m.blockBuffer = n.blockBuffer
           /\ m.compacted = n.compacted /\ m.up = n.up /\ m.banned = n.banned
<1> DEFINE k == [n EXCEPT !.lastHeaderRequest = TRUE]
<1>1. n \in Nodes /\ ChainInv(n) /\ PeersInv(n)
  BY DEF Base, Known
<1>2. k \in Nodes
  BY <1>1 DEF Nodes
<1>3. /\ SameChain(k, n) /\ k.lastHeaderRequest = TRUE
      /\ k.state = n.state /\ k.syncPeerId = n.syncPeerId /\ k.orphanRetries = n.orphanRetries
      /\ k.pendingBlocks = n.pendingBlocks /\ k.blockBuffer = n.blockBuffer
      /\ k.compacted = n.compacted /\ k.up = n.up /\ k.banned = n.banned /\ k.asked = n.asked
  BY <1>1 DEF Nodes, SameChain
<1>4. RequestHeaders(n, p) = Ask(k, p, HeadersAfter(n))
  BY DEF RequestHeaders
<1> HIDE DEF k
<1>5. Base(k)
  BY <1>1, <1>2, <1>3 DEF Base, Known, ChainInv, PeersInv, SameChain, TipHeight
<1>6. HeadersAfter(n) \in SUBSET Requests
  BY HeadersAfterTyped DEF Base
<1>7. QED
  BY <1>3, <1>4, <1>5, <1>6, AskFacts DEF SameChain

LEMMA RequestFromAllFacts ==
    ASSUME NEW n, Base(n)
    PROVE  LET m == RequestHeadersFromAllPeers(n) IN
           /\ Base(m) /\ SameChain(m, n) /\ m.state = n.state
           /\ m.pendingBlocks = n.pendingBlocks /\ m.blockBuffer = n.blockBuffer
           /\ m.compacted = n.compacted /\ m.up = n.up /\ m.banned = n.banned
<1> DEFINE m == RequestHeadersFromAllPeers(n)
<1>1. n \in Nodes /\ ChainInv(n) /\ PeersInv(n) /\ HeadersAfter(n) \in SUBSET Requests
  BY HeadersAfterTyped DEF Base, Known
<1>2. m \in Nodes
  BY <1>1 DEF Nodes, RequestHeadersFromAllPeers
<1>3. /\ SameChain(m, n) /\ m.state = n.state
      /\ m.pendingBlocks = n.pendingBlocks /\ m.blockBuffer = n.blockBuffer
      /\ m.compacted = n.compacted /\ m.up = n.up /\ m.banned = n.banned
  BY <1>1 DEF Nodes, RequestHeadersFromAllPeers, SameChain
<1>4. PeersInv(m)
  BY <1>1 DEF Nodes, RequestHeadersFromAllPeers, PeersInv
<1>5. ChainInv(m)
  <2> HIDE DEF m
  <2>1. QED
    BY <1>1, <1>3 DEF SameChain, ChainInv, TipHeight
<1>6. QED
  BY <1>2, <1>3, <1>4, <1>5 DEF Base, Known

LEMMA ModeTyped ==
    ASSUME NEW n \in Nodes, NEW s \in States, NEW q \in Peers \cup {None}, NEW r \in 0..2
    PROVE  [n EXCEPT !.state = s, !.syncPeerId = q, !.orphanRetries = r] \in Nodes
  BY Zenon DEF Nodes

\* A peer that is connected starts to serve headers.
LEMMA StartSyncFacts ==
    ASSUME NEW n, Base(n), NoQueue(n), NEW p \in Peers, n.up[p] # "off"
    PROVE  NodeInv(StartSync(n, p)) /\ Kept(StartSync(n, p), n)
<1> DEFINE k == [n EXCEPT !.state = "syncingHeaders", !.syncPeerId = p, !.orphanRetries = 0]
           m == StartSync(n, p)
<1>1. n \in Nodes /\ ChainInv(n) /\ PeersInv(n)
  BY DEF Base, Known
<1>2. k \in Nodes
  <2>1. "syncingHeaders" \in States /\ p \in Peers \cup {None} /\ 0 \in 0..2
    BY DEF States
  <2>2. QED
    BY <1>1, <2>1, ModeTyped
<1>3. /\ SameChain(k, n) /\ k.state = "syncingHeaders" /\ k.syncPeerId = p
      /\ k.pendingBlocks = n.pendingBlocks /\ k.blockBuffer = n.blockBuffer
      /\ k.compacted = n.compacted /\ k.up = n.up /\ k.banned = n.banned /\ k.asked = n.asked
  BY <1>1 DEF Nodes, SameChain
<1>4. m = RequestHeaders(k, p)
  BY DEF StartSync
<1> HIDE DEF k, m
<1>5. Base(k)
  BY <1>1, <1>2, <1>3 DEF Base, Known, ChainInv, PeersInv, SameChain, TipHeight
<1>6. /\ Base(m) /\ NoQueue(m) /\ m.lastHeaderRequest = TRUE /\ m.state = "syncingHeaders"
      /\ m.syncPeerId = p /\ m.up = n.up /\ m.banned = n.banned
  BY <1>3, <1>4, <1>5, RequestHeadersFacts DEF NoQueue
<1>7. m \in Nodes /\ ChainInv(m) /\ PeersInv(m)
  BY <1>6 DEF Base, Known
<1>8. WindowInv(m)
  BY <1>6, FS_EmptySet, PeersAssumption DEF WindowInv, NoQueue
<1>9. NodeInv(m)
  BY <1>6, <1>7, <1>8 DEF NodeInv, SyncPeerInv, HeaderTimer, QueueInv
<1>10. QED
  BY <1>6, <1>9 DEF Kept, m

\* The rest of the network may take a download over.
LEMMA SyncWithFacts ==
    ASSUME NEW n, Base(n), NoQueue(n), NEW ps \in SUBSET Handshaked(n), NEW otherwise,
           \A m \in otherwise : NodeInv(m) /\ Kept(m, n)
    PROVE  \A m \in SyncWith(n, ps, otherwise) : NodeInv(m) /\ Kept(m, n)
<1>1. \A p \in ps : p \in Peers /\ n.up[p] # "off"
  BY DEF Handshaked
<1>2. QED
  BY <1>1, StartSyncFacts DEF SyncWith

LEMMA ResetFacts ==
    ASSUME NEW n, Base(n), NoQueue(n)
    PROVE  LET m == Reset(n) IN
           /\ Base(m) /\ NoQueue(m) /\ m.state = n.state /\ m.up = n.up /\ m.banned = n.banned
           /\ m.compacted = n.compacted
<1> DEFINE m == Reset(n)
           t == Path[n.tip][n.stored + 1]
           ks == {b \in n.known : Height(b) <= n.stored}
<1>1. n \in Nodes /\ ChainInv(n) /\ PeersInv(n) /\ n.known \subseteq Blocks /\ n.stored \in Nat
  BY DEF Base, Known, Nodes
<1>2. t \in n.known /\ Height(t) = n.stored
  BY BestChainFacts DEF Base
<1>3. m = [n EXCEPT !.tip = t, !.known = ks]
  BY <1>1 DEF Reset
<1>4. /\ m.tip = t /\ m.known = ks /\ m.stored = n.stored
      /\ m.pendingBlocks = n.pendingBlocks /\ m.blockBuffer = n.blockBuffer /\ m.asked = n.asked
      /\ m.compacted = n.compacted /\ m.state = n.state /\ m.up = n.up /\ m.banned = n.banned
  BY <1>1, <1>3 DEF Nodes
<1>5. m \in Nodes
  <2>1. t \in Blocks /\ ks \in SUBSET Blocks
    BY <1>1, <1>2
  <2> HIDE DEF t, ks
  <2>2. [n EXCEPT !.tip = t, !.known = ks] \in Nodes
    BY <1>1, <2>1 DEF Nodes
  <2>3. QED
    BY <2>2, <1>3
<1>6. ChainInv(m)
  <2>1. Genesis \in ks
    <3>1. Genesis \in n.known /\ Genesis \in Blocks /\ Len(Path[Genesis]) = 1
      BY <1>1, TreeAssumption DEF ChainInv
    <3>2. Height(Genesis) = 0
      BY <3>1 DEF Height
    <3>3. QED
      BY <3>1, <3>2, <1>1
  <2>2. ASSUME NEW b \in ks, NEW k \in 1..Len(Path[b])
        PROVE  Path[b][k] \in ks /\ (Path[b][k] = t => b = t)
    <3>1. b \in Blocks /\ b \in n.known /\ Height(b) <= n.stored
      BY <1>1
    <3>2. Height(Path[b][k]) = k - 1 /\ Len(Path[b]) = Height(b) + 1 /\ Height(b) \in Nat
      BY <3>1, PathFacts
    <3>3. Path[b][k] \in ks
      BY <3>1, <3>2, <1>1 DEF ChainInv
    <3>4. ASSUME Path[b][k] = t PROVE b = t
      <4>1. k = Len(Path[b])
        BY <3>1, <3>2, <3>4, <1>2, <1>1
      <4>2. QED
        BY <4>1, <3>4, <3>1, PathFacts
    <3>5. QED
      BY <3>3, <3>4
  <2>3. t \in ks /\ n.stored <= Height(t)
    BY <1>1, <1>2
  <2> HIDE DEF t, ks, m
  <2>4. QED
    BY <1>4, <2>1, <2>2, <2>3 DEF ChainInv, TipHeight
<1>7. QED
  BY <1>1, <1>4, <1>5, <1>6 DEF Base, Known, PeersInv, NoQueue

LEMMA GiveUpFacts ==
    ASSUME NEW n, Base(n), NEW s \in {"idle", "synced"}
    PROVE  LET m == GiveUp(n, s) IN
           /\ Base(m) /\ NoQueue(m) /\ SameChain(m, n) /\ m.state = s /\ m.up = n.up
           /\ m.banned = n.banned
<1> DEFINE m == GiveUp(n, s)
<1>1. n \in Nodes /\ ChainInv(n) /\ PeersInv(n)
  BY DEF Base, Known
<1>2. m \in Nodes
  <2>1. s \in States
    BY DEF States
  <2>2. QED
    BY <1>1, <2>1, Zenon DEF GiveUp, Nodes
<1>3. /\ m.state = s /\ NoQueue(m) /\ SameChain(m, n) /\ m.up = n.up /\ m.banned = n.banned
      /\ m.asked = n.asked
  BY <1>1 DEF GiveUp, Nodes, NoQueue, SameChain
<1> HIDE DEF m
<1>4. Base(m)
  BY <1>1, <1>2, <1>3 DEF Base, Known, ChainInv, PeersInv, SameChain, TipHeight
<1>5. QED
  BY <1>3, <1>4 DEF m

LEMMA RecoverFacts ==
    ASSUME NEW n, Base(n), NoQueue(n), n.state = "idle"
    PROVE  \A m \in RecoverOrphanedHeaders(n) : NodeInv(m) /\ Kept(m, n)
<1>1. NodeInv(n) /\ Kept(n, n)
  BY RestingNode DEF Kept
<1>2. CASE n.stored < TipHeight(n)
  <2> DEFINE k == Reset(n)
  <2>1. RecoverOrphanedHeaders(n) = SyncWith(k, Handshaked(k), {k})
    BY <1>2 DEF RecoverOrphanedHeaders, Then
  <2>2. Base(k) /\ NoQueue(k) /\ k.state = "idle" /\ k.banned = n.banned
    BY ResetFacts
  <2> HIDE DEF k
  <2>3. NodeInv(k) /\ Kept(k, k)
    BY <2>2, RestingNode DEF Kept
  <2>4. \A m \in SyncWith(k, Handshaked(k), {k}) : NodeInv(m) /\ Kept(m, k)
    BY <2>2, <2>3, SyncWithFacts
  <2>5. QED
    BY <2>1, <2>2, <2>4 DEF Kept
<1>3. CASE ~(n.stored < TipHeight(n))
  BY <1>1, <1>3 DEF RecoverOrphanedHeaders
<1>4. QED
  BY <1>2, <1>3

LEMMA SyncElsewhereFacts ==
    ASSUME NEW n, Base(n), NoQueue(n), n.state = "idle", NEW p
    PROVE  \A m \in SyncElsewhere(n, p) : NodeInv(m) /\ Kept(m, n)
<1>1. {q \in Handshaked(n) \ {p} : Ahead(n, q)} \in SUBSET Handshaked(n)
  OBVIOUS
<1>2. QED
  BY <1>1, RecoverFacts, SyncWithFacts DEF SyncElsewhere

\* The node that takes itself for synced has nothing else that changes.
LEMMA SyncedIfIdleFacts ==
    ASSUME NEW n, NEW ns, \A m \in ns : NodeInv(m) /\ Kept(m, n)
    PROVE  \A m \in SyncedIfIdle(ns) : NodeInv(m) /\ Kept(m, n)
<1>1. SUFFICES ASSUME NEW k \in ns, k.state = "idle"
               PROVE  LET m == [k EXCEPT !.state = "synced"] IN NodeInv(m) /\ Kept(m, n)
  BY DEF SyncedIfIdle
<1> DEFINE m == [k EXCEPT !.state = "synced"]
<1>2. NodeInv(k) /\ Kept(k, n) /\ k \in Nodes /\ NoQueue(k)
  BY <1>1 DEF NodeInv, WindowInv, NoQueue
<1>3. m \in Nodes
  BY <1>2 DEF Nodes, States
<1>4. /\ SameChain(m, k) /\ m.state = "synced" /\ m.up = k.up /\ m.asked = k.asked
      /\ m.banned = k.banned /\ NoQueue(m)
  BY <1>2 DEF Nodes, SameChain, NoQueue
<1> HIDE DEF m
<1>5. Base(m)
  BY <1>2, <1>3, <1>4 DEF NodeInv, Base, Known, ChainInv, PeersInv, SameChain, TipHeight
<1>6. QED
  BY <1>2, <1>4, <1>5, RestingNode DEF Kept, m

-----------------------------------------------------------------------------
(* Lemmas about the window *)

\* What one call requests: blocks of the best chain, from a height on.
BlocksFrom(n, lo, room) ==
    {b \in n.known : OnBestChain(n, b) /\ Height(b) >= lo /\ Height(b) < lo + room}

LEMMA BlocksFromFacts ==
    ASSUME NEW n, Known(n), NEW lo \in Nat, NEW room \in Nat
    PROVE  LET new == BlocksFrom(n, lo, room) IN
           /\ new \in SUBSET Blocks /\ IsFiniteSet(new)
           /\ Cardinality(new) \in 0..room
           /\ \A b, c \in new : Height(b) = Height(c) => b = c
           /\ \A b \in new : Height(b) \in lo..((lo + Cardinality(new)) - 1)
           /\ \A h \in lo..((lo + Cardinality(new)) - 1) : \E b \in new : Height(b) = h
           /\ lo <= TipHeight(n) /\ room > 0 => new # {}
<1> DEFINE new == BlocksFrom(n, lo, room)
           top == IF TipHeight(n) < lo + room THEN TipHeight(n) ELSE lo + room - 1
           f == [h \in lo..top |-> Path[n.tip][h + 1]]
<1>1. TipHeight(n) \in Nat /\ top \in Int /\ top <= TipHeight(n) /\ top < lo + room
  BY BestChainFacts
<1>2. \A h \in lo..top : f[h] \in new /\ Height(f[h]) = h
  <2> TAKE h \in lo..top
  <2>1. h \in 0..TipHeight(n)
    BY <1>1
  <2>2. f[h] \in n.known /\ Height(f[h]) = h /\ OnBestChain(n, f[h])
    BY <2>1, BestChainFacts
  <2>3. QED
    BY <2>2, <1>1 DEF BlocksFrom
<1>3. \A b \in new : Height(b) \in lo..top /\ b = f[Height(b)]
  <2> TAKE b \in new
  <2>0. OnBestChain(n, b) /\ Height(b) >= lo /\ Height(b) < lo + room
    BY DEF BlocksFrom
  <2>1. Height(b) \in 0..TipHeight(n) /\ b = Path[n.tip][Height(b) + 1]
    BY <2>0, BestChainFacts
  <2>2. Height(b) \in lo..top
    BY <2>0, <2>1, <1>1
  <2>3. QED
    BY <2>1, <2>2
<1> HIDE DEF f, new
<1>4. f \in Bijection(lo..top, new)
  <2>1. f \in [lo..top -> new]
    BY <1>2 DEF f
  <2>2. f \in Injection(lo..top, new)
    <3>1. \A a, b \in lo..top : f[a] = f[b] => a = b
      BY <1>2
    <3>2. QED
      BY <2>1, <3>1 DEF Injection, IsInjective
  <2>3. f \in Surjection(lo..top, new)
    BY <2>1, <1>3 DEF Surjection
  <2>4. QED
    BY <2>2, <2>3 DEF Bijection
<1>5. /\ IsFiniteSet(lo..top)
      /\ Cardinality(lo..top) = IF lo > top THEN 0 ELSE top - lo + 1
  <2> HIDE DEF top
  <2>1. lo \in Int /\ top \in Int
    BY <1>1
  <2>2. QED
    BY <2>1, FS_Interval
<1>6. IsFiniteSet(new) /\ Cardinality(new) = Cardinality(lo..top)
  <2>1. ExistsBijection(lo..top, new)
    BY <1>4 DEF ExistsBijection
  <2>2. QED
    BY <2>1, <1>5, FS_Bijection
<1>7. new \in SUBSET Blocks
  BY DEF Known, Nodes, new, BlocksFrom
<1>8. \A b, c \in new : Height(b) = Height(c) => b = c
  BY <1>3
<1>9. (lo + Cardinality(new)) - 1 = top \/ (lo > top /\ Cardinality(new) = 0)
  BY <1>1, <1>5, <1>6
<1>10. Cardinality(new) \in 0..room
  BY <1>1, <1>5, <1>6
<1>11. lo <= TipHeight(n) /\ room > 0 => new # {}
  <2>1. SUFFICES ASSUME lo <= TipHeight(n), room > 0 PROVE new # {}
    OBVIOUS
  <2>2. lo \in lo..top
    BY <2>1, <1>1
  <2>3. QED
    BY <2>2, <1>2
<1>12. lo > top => new = {}
  BY <1>1, <1>3
<1>13. \A b \in new : Height(b) \in lo..((lo + Cardinality(new)) - 1)
  BY <1>3, <1>9, <1>12
<1>14. \A h \in lo..((lo + Cardinality(new)) - 1) : \E b \in new : Height(b) = h
  <2> TAKE h \in lo..((lo + Cardinality(new)) - 1)
  <2>1. h \in lo..top
    BY <1>9, <1>1
  <2>2. QED
    BY <2>1, <1>2
<1> HIDE DEF top
<1>15. QED
  BY <1>6, <1>7, <1>8, <1>10, <1>11, <1>13, <1>14 DEF new

\* The two sets are finite and fit into the window.
Fits(n) ==
    /\ IsFiniteSet(n.pendingBlocks) /\ IsFiniteSet(n.blockBuffer)
    /\ Cardinality(n.pendingBlocks) + Cardinality(n.blockBuffer) <= Window

\* More blocks are requested: the queue stays in order, within the window.
LEMMA RequestBlocksFacts ==
    ASSUME NEW n, Base(n), Fits(n), InOrder(n), NEW p \in Peers
    PROVE  LET m == RequestBlocks(n, p) IN
           /\ Base(m) /\ Fits(m) /\ InOrder(m) /\ SameChain(m, n)
           /\ m.state = n.state /\ m.syncPeerId = n.syncPeerId /\ m.compacted = n.compacted
           /\ m.up = n.up /\ m.banned = n.banned
           /\ m.blockBuffer = n.blockBuffer /\ n.pendingBlocks \subseteq m.pendingBlocks
           /\ n.blockBuffer = {} /\ n.pendingBlocks = {} /\ n.nextBlockHeight <= TipHeight(n) =>
                m.pendingBlocks # {}
<1> DEFINE room == Window - Cardinality(n.pendingBlocks) - Cardinality(n.blockBuffer)
           new == BlocksFrom(n, n.nextBlockHeight, room)
           pend == n.pendingBlocks \cup new
           next == n.nextBlockHeight + Cardinality(new)
           k == [n EXCEPT !.pendingBlocks = pend, !.nextBlockHeight = next]
           m == RequestBlocks(n, p)
<1>1. /\ n \in Nodes /\ ChainInv(n) /\ PeersInv(n) /\ Known(n)
      /\ n.nextBlockHeight \in Nat /\ n.nextConnectHeight \in Nat
      /\ n.pendingBlocks \subseteq Blocks /\ n.blockBuffer \subseteq Blocks
  BY DEF Base, Known, Nodes
<1>2. /\ IsFiniteSet(n.pendingBlocks) /\ IsFiniteSet(n.blockBuffer)
      /\ Cardinality(n.pendingBlocks) \in Nat /\ Cardinality(n.blockBuffer) \in Nat
  BY FS_CardinalityType DEF Fits
<1>3. room \in Nat
  BY <1>2, PeersAssumption DEF Fits
<1>4. /\ new \in SUBSET Blocks /\ IsFiniteSet(new)
      /\ Cardinality(new) \in 0..room
      /\ \A b, c \in new : Height(b) = Height(c) => b = c
      /\ \A b \in new : Height(b) \in n.nextBlockHeight..(next - 1)
      /\ \A h \in n.nextBlockHeight..(next - 1) : \E b \in new : Height(b) = h
      /\ n.nextBlockHeight <= TipHeight(n) /\ room > 0 => new # {}
  <2> HIDE DEF room
  <2>1. QED
    BY <1>1, <1>3, BlocksFromFacts, Zenon
<1>5. m = Ask(k, p, BlockRequests(new))
  BY <1>1 DEF RequestBlocks, BlocksFrom
<1>6. BlockRequests(new) \in SUBSET Requests
  BY <1>4 DEF BlockRequests, Requests
<1> HIDE DEF room, new
<1>7. next \in Nat /\ next >= n.nextBlockHeight /\ pend \in SUBSET Blocks
  BY <1>1, <1>3, <1>4
<1> HIDE DEF pend, next
<1>8. k \in Nodes
  BY <1>1, <1>7, Zenon DEF Nodes
<1>9. /\ k.pendingBlocks = pend /\ k.nextBlockHeight = next
      /\ k.blockBuffer = n.blockBuffer /\ k.nextConnectHeight = n.nextConnectHeight
      /\ SameChain(k, n) /\ k.state = n.state /\ k.syncPeerId = n.syncPeerId
      /\ k.compacted = n.compacted /\ k.up = n.up /\ k.banned = n.banned /\ k.asked = n.asked
  BY <1>1 DEF Nodes, SameChain
<1> HIDE DEF k, m
<1>10. Base(k)
  BY <1>1, <1>8, <1>9 DEF Base, Known, ChainInv, PeersInv, SameChain, TipHeight
<1>11. /\ Base(m) /\ SameChain(m, k) /\ m.state = k.state /\ m.syncPeerId = k.syncPeerId
       /\ m.compacted = k.compacted /\ m.up = k.up /\ m.banned = k.banned
       /\ m.pendingBlocks = k.pendingBlocks /\ m.blockBuffer = k.blockBuffer
       /\ m.nextConnectHeight = k.nextConnectHeight /\ m.nextBlockHeight = k.nextBlockHeight
  BY <1>5, <1>6, <1>10, AskFacts
<1>12. Fits(m)
  <2>1. /\ IsFiniteSet(pend)
        /\ Cardinality(pend) = Cardinality(n.pendingBlocks) + Cardinality(new)
                                 - Cardinality(n.pendingBlocks \cap new)
    BY <1>2, <1>4, FS_Union DEF pend
  <2>2. Cardinality(n.pendingBlocks \cap new) \in Nat
    BY <1>2, FS_Intersection, FS_CardinalityType
  <2>3. Cardinality(pend) + Cardinality(n.blockBuffer) <= Window
    BY <2>1, <2>2, <1>2, <1>4, PeersAssumption DEF room
  <2>4. QED
    BY <2>1, <2>3, <1>2, <1>9, <1>11 DEF Fits
<1>13. InOrder(m)
  <2>1. Outstanding(m) = Outstanding(n) \cup new
    BY <1>9, <1>11 DEF Outstanding, pend
  <2>2. /\ n.pendingBlocks \cap n.blockBuffer = {}
        /\ \A b, c \in Outstanding(n) : Height(b) = Height(c) => b = c
        /\ \A b \in Outstanding(n) : Height(b) \in n.nextConnectHeight..(n.nextBlockHeight - 1)
        /\ \A h \in n.nextConnectHeight..(n.nextBlockHeight - 1) :
              \E b \in Outstanding(n) : Height(b) = h
        /\ n.stored < n.nextConnectHeight /\ n.nextConnectHeight <= n.nextBlockHeight
    BY DEF InOrder
  <2>2a. \A b \in Outstanding(n) : Height(b) < n.nextBlockHeight
    BY <2>2, <1>1
  <2>2b. \A b \in new : Height(b) >= n.nextBlockHeight
    BY <1>4, <1>1
  <2>2c. \A b \in Outstanding(n) \cup new : Height(b) \in Nat
    BY <1>1, <1>4, PathFacts DEF Outstanding
  <2>3. pend \cap n.blockBuffer = {}
    BY <2>2, <2>2a, <2>2b, <2>2c, <1>1 DEF Outstanding, pend
  <2>4. \A b, c \in Outstanding(n) \cup new : Height(b) = Height(c) => b = c
    BY <2>2, <2>2a, <2>2b, <2>2c, <1>1, <1>4
  <2>6. \A h \in n.nextConnectHeight..(next - 1) : \E b \in Outstanding(n) \cup new : Height(b) = h
    <3> TAKE h \in n.nextConnectHeight..(next - 1)
    <3>1. CASE h < n.nextBlockHeight
      BY <3>1, <2>2, <1>1, <1>7
    <3>2. CASE h >= n.nextBlockHeight
      BY <3>2, <1>4, <1>1, <1>7
    <3>3. QED
      BY <3>1, <3>2, <1>1
  <2>7. \A b \in Outstanding(n) \cup new : Height(b) \in n.nextConnectHeight..(next - 1)
    <3>1. \A b \in Outstanding(n) : Height(b) \in n.nextConnectHeight..(next - 1)
      BY <2>2, <1>1, <1>7
    <3>2. ASSUME NEW b \in new PROVE Height(b) \in n.nextConnectHeight..(next - 1)
      BY <1>4, <1>1, <1>7, <2>2
    <3>3. QED
      BY <3>1, <3>2
  <2>8. n.stored < n.nextConnectHeight /\ n.nextConnectHeight <= next
    BY <2>2, <1>1, <1>7
  <2>9. /\ m.stored = n.stored /\ m.nextConnectHeight = n.nextConnectHeight
        /\ m.nextBlockHeight = next /\ m.pendingBlocks = pend /\ m.blockBuffer = n.blockBuffer
    BY <1>9, <1>11 DEF SameChain
  <2>10. QED
    BY <2>1, <2>3, <2>4, <2>6, <2>7, <2>8, <2>9 DEF InOrder
<1>14. n.blockBuffer = {} /\ n.pendingBlocks = {} /\ n.nextBlockHeight <= TipHeight(n) =>
          m.pendingBlocks # {}
  <2>1. SUFFICES ASSUME n.blockBuffer = {}, n.pendingBlocks = {}, n.nextBlockHeight <= TipHeight(n)
                 PROVE  m.pendingBlocks # {}
    OBVIOUS
  <2>2. room > 0
    BY <2>1, FS_EmptySet, PeersAssumption DEF room
  <2>3. QED
    BY <2>1, <2>2, <1>4, <1>9, <1>11 DEF pend
<1>15. QED
  BY <1>9, <1>11, <1>12, <1>13, <1>14 DEF SameChain, m, pend

LEMMA CursorTyped ==
    ASSUME NEW n \in Nodes, NEW q \in Peers \cup {None}, NEW h \in Nat
    PROVE  [n EXCEPT !.state = "syncingBlocks", !.syncPeerId = q,
                     !.nextBlockHeight = h, !.nextConnectHeight = h] \in Nodes
  BY Zenon DEF Nodes, States

\* A download of blocks begins above the stored ones, with requests to its peer.
LEMMA DownloadFacts ==
    ASSUME NEW n, Base(n), NoQueue(n), NEW p \in Peers, n.up[p] # "off",
           n.stored < TipHeight(n)
    PROVE  LET k == [n EXCEPT !.state = "syncingBlocks", !.syncPeerId = p,
                              !.nextBlockHeight = n.stored + 1,
                              !.nextConnectHeight = n.stored + 1]
               m == RequestBlocks(k, p)
           IN  NodeInv(m) /\ Kept(m, n)
<1> DEFINE h == n.stored + 1
           k == [n EXCEPT !.state = "syncingBlocks", !.syncPeerId = p,
                          !.nextBlockHeight = h, !.nextConnectHeight = h]
           m == RequestBlocks(k, p)
<1>1. n \in Nodes /\ ChainInv(n) /\ PeersInv(n) /\ n.stored \in Nat /\ h \in Nat
  BY DEF Base, Known, Nodes
<1>2. k \in Nodes
  <2> HIDE DEF h
  <2>1. QED
    BY <1>1, CursorTyped
<1>3. /\ SameChain(k, n) /\ k.state = "syncingBlocks" /\ k.syncPeerId = p
      /\ k.pendingBlocks = {} /\ k.blockBuffer = {} /\ k.compacted = FALSE
      /\ k.nextBlockHeight = h /\ k.nextConnectHeight = h
      /\ k.up = n.up /\ k.banned = n.banned /\ k.asked = n.asked
  BY <1>1 DEF Nodes, SameChain, NoQueue
<1> HIDE DEF k
<1>4. Base(k)
  BY <1>1, <1>2, <1>3 DEF Base, Known, ChainInv, PeersInv, SameChain, TipHeight
<1>5. Fits(k)
  BY <1>3, FS_EmptySet, PeersAssumption DEF Fits
<1>6. InOrder(k)
  <2>1. Outstanding(k) = {}
    BY <1>3 DEF Outstanding
  <2>2. k.stored = n.stored
    BY <1>3 DEF SameChain
  <2>3. QED
    BY <1>1, <1>3, <2>1, <2>2 DEF InOrder
<1>7. k.nextBlockHeight <= TipHeight(k)
  <2>1. TipHeight(n) \in Nat /\ TipHeight(k) = TipHeight(n)
    BY <1>3, BestChainFacts DEF Base, SameChain, TipHeight
  <2>2. QED
    BY <2>1, <1>1, <1>3
<1>8. /\ Base(m) /\ Fits(m) /\ InOrder(m) /\ m.state = "syncingBlocks" /\ m.syncPeerId = p
      /\ m.compacted = FALSE /\ m.up = n.up /\ m.banned = n.banned
      /\ m.blockBuffer = {} /\ m.pendingBlocks # {}
  BY <1>3, <1>4, <1>5, <1>6, <1>7, RequestBlocksFacts
<1> HIDE DEF m
<1>9. NodeInv(m)
  BY <1>8 DEF NodeInv, Base, Known, SyncPeerInv, HeaderTimer, WindowInv, QueueInv, Fits
<1>10. Kept(m, n)
  BY <1>8 DEF Kept
<1>11. QED
  BY <1>9, <1>10 DEF m, k

LEMMA FinishHeaderSyncFacts ==
    ASSUME NEW n, Base(n), NoQueue(n), NEW p \in Peers, n.up[p] # "off", n.syncPeerId = p
    PROVE  NodeInv(FinishHeaderSync(n, p)) /\ Kept(FinishHeaderSync(n, p), n)
<1>1. n \in Nodes /\ ChainInv(n) /\ PeersInv(n)
  BY DEF Base, Known
<1>2. CASE n.stored < TipHeight(n)
  <2>1. [n EXCEPT !.state = "syncingBlocks", !.nextBlockHeight = n.stored + 1,
                  !.nextConnectHeight = n.stored + 1]
          = [n EXCEPT !.state = "syncingBlocks", !.syncPeerId = p,
                      !.nextBlockHeight = n.stored + 1, !.nextConnectHeight = n.stored + 1]
    BY <1>1 DEF Nodes
  <2>2. QED
    BY <1>2, <2>1, DownloadFacts DEF FinishHeaderSync
<1>3. CASE ~(n.stored < TipHeight(n))
  <2> DEFINE k == [n EXCEPT !.state = "synced", !.syncPeerId = None]
  <2>1. k \in Nodes
    BY <1>1, Zenon DEF Nodes, States
  <2>2. /\ SameChain(k, n) /\ k.state = "synced" /\ NoQueue(k)
        /\ k.up = n.up /\ k.banned = n.banned /\ k.asked = n.asked
    BY <1>1 DEF Nodes, SameChain, NoQueue
  <2>3. FinishHeaderSync(n, p) = RequestHeadersFromAllPeers(k)
    BY <1>3 DEF FinishHeaderSync
  <2> HIDE DEF k
  <2>4. Base(k)
    BY <1>1, <2>1, <2>2 DEF Base, Known, ChainInv, PeersInv, SameChain, TipHeight
  <2> DEFINE m == RequestHeadersFromAllPeers(k)
  <2>5. Base(m) /\ m.state = "synced" /\ NoQueue(m) /\ m.banned = n.banned
    BY <2>2, <2>4, RequestFromAllFacts DEF NoQueue
  <2> HIDE DEF m
  <2>6. NodeInv(m) /\ Kept(m, n)
    BY <2>5, RestingNode DEF Kept
  <2>7. QED
    BY <2>3, <2>6 DEF m
<1>4. QED
  BY <1>2, <1>3

LEMMA OnPeerHandshakeFacts ==
    ASSUME NEW n, NodeInv(n), NEW p \in Peers, n.up[p] # "off"
    PROVE  \A m \in OnPeerHandshake(n, p) : NodeInv(m) /\ Kept(m, n)
<1>1. Base(n) /\ n \in Nodes /\ Kept(n, n)
  BY DEF NodeInv, Base, Known, Kept
<1>2. CASE n.state \notin {"idle", "synced"}
  BY <1>1, <1>2 DEF OnPeerHandshake
<1>3. CASE n.state \in {"idle", "synced"}
  <2>1. NoQueue(n)
    BY <1>3 DEF NodeInv, WindowInv, NoQueue
  <2>2. CASE Ahead(n, p)
    BY <1>1, <1>3, <2>1, <2>2, StartSyncFacts DEF OnPeerHandshake
  <2>3. CASE n.state = "idle" /\ ~Ahead(n, p) /\ n.stored < TipHeight(n)
    BY <1>1, <2>1, <2>3, DownloadFacts DEF OnPeerHandshake
  <2>4. CASE ~Ahead(n, p) /\ ~(n.state = "idle" /\ n.stored < TipHeight(n))
    <3> DEFINE k == [n EXCEPT !.state = "synced"]
    <3>1. k \in Nodes
      BY <1>1 DEF Nodes, States
    <3>2. /\ SameChain(k, n) /\ k.state = "synced" /\ NoQueue(k)
          /\ k.up = n.up /\ k.banned = n.banned /\ k.asked = n.asked
      BY <1>1, <2>1 DEF Nodes, SameChain, NoQueue
    <3>3. OnPeerHandshake(n, p) = {k}
      BY <1>3, <2>4 DEF OnPeerHandshake
    <3> HIDE DEF k
    <3>4. Base(k)
      BY <1>1, <3>1, <3>2 DEF Base, Known, ChainInv, PeersInv, SameChain, TipHeight
    <3>5. NodeInv(k) /\ Kept(k, n)
      BY <3>2, <3>4, RestingNode DEF Kept
    <3>6. QED
      BY <3>3, <3>5
  <2>5. QED
    BY <2>2, <2>3, <2>4, <1>3
<1>4. QED
  BY <1>2, <1>3

-----------------------------------------------------------------------------
(* Lemmas about bans, heights and requests *)

LEMMA CloseFacts ==
    ASSUME NEW n, Base(n), NEW p \in Peers
    PROVE  LET m == Close(n, p) IN
           /\ Base(m) /\ SameChain(m, n)
           /\ m.state = n.state /\ m.syncPeerId = n.syncPeerId /\ m.orphanRetries = n.orphanRetries
           /\ m.pendingBlocks = n.pendingBlocks /\ m.blockBuffer = n.blockBuffer
           /\ m.lastHeaderRequest = n.lastHeaderRequest
           /\ m.compacted = n.compacted /\ m.banned = n.banned /\ m.up[p] # "up"
           /\ \A q \in Peers : /\ n.up[q] # "off" => m.up[q] # "off"
                               /\ m.up[q] = "up" => n.up[q] = "up"
<1> DEFINE m == Close(n, p)
<1>1. n \in Nodes /\ ChainInv(n) /\ PeersInv(n)
  BY DEF Base, Known
<1>2. m \in Nodes
  BY <1>1 DEF Close, Nodes
<1>3. /\ SameChain(m, n) /\ m.asked = n.asked
      /\ m.state = n.state /\ m.syncPeerId = n.syncPeerId /\ m.orphanRetries = n.orphanRetries
      /\ m.pendingBlocks = n.pendingBlocks /\ m.blockBuffer = n.blockBuffer
      /\ m.lastHeaderRequest = n.lastHeaderRequest
      /\ m.compacted = n.compacted /\ m.banned = n.banned /\ m.up[p] # "up"
      /\ \A q \in Peers : /\ n.up[q] # "off" => m.up[q] # "off"
                          /\ m.up[q] = "up" => n.up[q] = "up"
  BY <1>1 DEF Close, Nodes, SameChain
<1> HIDE DEF m
<1>4. Base(m)
  BY <1>1, <1>2, <1>3 DEF Base, Known, ChainInv, PeersInv, SameChain, TipHeight
<1>5. QED
  BY <1>3, <1>4 DEF m

LEMMA BanFacts ==
    ASSUME NEW n, Base(n), NEW p \in Peers
    PROVE  LET m == Ban(n, p) IN
           /\ Base(m) /\ SameChain(m, n)
           /\ m.state = n.state /\ m.syncPeerId = n.syncPeerId /\ m.orphanRetries = n.orphanRetries
           /\ m.pendingBlocks = n.pendingBlocks /\ m.blockBuffer = n.blockBuffer
           /\ m.lastHeaderRequest = n.lastHeaderRequest
           /\ m.compacted = n.compacted /\ m.banned = n.banned \cup {p} /\ m.up[p] # "up"
           /\ \A q \in Peers : /\ n.up[q] # "off" => m.up[q] # "off"
                               /\ m.up[q] = "up" => n.up[q] = "up"
<1> DEFINE k == Close(n, p)
           m == [k EXCEPT !.banned = @ \cup {p}]
<1>1. /\ Base(k) /\ SameChain(k, n)
      /\ k.state = n.state /\ k.syncPeerId = n.syncPeerId /\ k.orphanRetries = n.orphanRetries
      /\ k.pendingBlocks = n.pendingBlocks /\ k.blockBuffer = n.blockBuffer
      /\ k.lastHeaderRequest = n.lastHeaderRequest
      /\ k.compacted = n.compacted /\ k.banned = n.banned /\ k.up[p] # "up"
      /\ \A q \in Peers : /\ n.up[q] # "off" => k.up[q] # "off"
                          /\ k.up[q] = "up" => n.up[q] = "up"
  BY CloseFacts
<1>2. Ban(n, p) = m
  BY DEF Ban
<1> HIDE DEF k
<1>3. k \in Nodes /\ ChainInv(k) /\ PeersInv(k)
  BY <1>1 DEF Base, Known
<1>4. m \in Nodes
  BY <1>3 DEF Nodes
<1>5. /\ SameChain(m, k) /\ m.asked = k.asked /\ m.up = k.up
      /\ m.state = k.state /\ m.syncPeerId = k.syncPeerId /\ m.orphanRetries = k.orphanRetries
      /\ m.pendingBlocks = k.pendingBlocks /\ m.blockBuffer = k.blockBuffer
      /\ m.lastHeaderRequest = k.lastHeaderRequest
      /\ m.compacted = k.compacted /\ m.banned = k.banned \cup {p}
  BY <1>3 DEF Nodes, SameChain
<1> HIDE DEF m
<1>6. Base(m)
  BY <1>3, <1>4, <1>5 DEF Base, Known, ChainInv, PeersInv, SameChain, TipHeight
<1>7. QED
  BY <1>1, <1>2, <1>5, <1>6 DEF SameChain

LEMMA HeardFacts ==
    ASSUME NEW n, Known(n), NEW p \in Peers, NEW b \in Blocks
    PROVE  Known(Heard(n, p, b)) /\ SameButChain(Heard(n, p, b), n) /\ SameChain(Heard(n, p, b), n)
<1> DEFINE h == Max({n.height[p], Height(b)})
           m == [n EXCEPT !.height[p] = h]
<1>1. n \in Nodes /\ ChainInv(n) /\ n.height \in [Peers -> Nat]
  BY DEF Known, Nodes
<1>2. h \in Nat
  <2>1. Height(b) \in Nat /\ n.height[p] \in Nat
    BY <1>1, PathFacts
  <2>2. QED
    BY <2>1, MaxOfTwo
<1>3. Heard(n, p, b) = m
  BY DEF Heard
<1> HIDE DEF h
<1>4. m \in Nodes
  BY <1>1, <1>2 DEF Nodes
<1>5. SameButChain(m, n) /\ SameChain(m, n)
  BY <1>1 DEF Nodes, SameButChain, SameChain
<1> HIDE DEF m
<1>6. Known(m)
  BY <1>1, <1>4, <1>5 DEF Known, SameChain, ChainInv, TipHeight
<1>7. QED
  BY <1>3, <1>5, <1>6

\* Nothing of the invariant but the chain depends on the headers, and on the stored blocks
\* only that they are below the ones to connect.
LEMMA ChainMayChange ==
    ASSUME NEW n, NodeInv(n), NEW m, Known(m), SameButChain(m, n), m.stored <= n.stored
    PROVE  NodeInv(m) /\ Kept(m, n)
<1>1. /\ n \in Nodes /\ PeersInv(n) /\ SyncPeerInv(n) /\ HeaderTimer(n) /\ WindowInv(n) /\ QueueInv(n)
      /\ n.stored \in Nat /\ n.nextConnectHeight \in Nat
  BY DEF NodeInv, Nodes
<1>2. m \in Nodes /\ ChainInv(m) /\ m.stored \in Nat
  BY DEF Known, Nodes
<1>3. PeersInv(m) /\ SyncPeerInv(m) /\ HeaderTimer(m) /\ WindowInv(m)
  BY <1>1 DEF SameButChain, PeersInv, SyncPeerInv, HeaderTimer, WindowInv
<1>4. InOrder(n) => InOrder(m)
  <2>1. SUFFICES ASSUME InOrder(n) PROVE InOrder(m)
    OBVIOUS
  <2>2. m.stored < n.nextConnectHeight
    BY <2>1, <1>1, <1>2 DEF InOrder
  <2>3. Outstanding(m) = Outstanding(n)
    BY DEF Outstanding, SameButChain
  <2>4. QED
    BY <2>1, <2>2, <2>3 DEF InOrder, SameButChain
<1>5. QueueInv(m)
  BY <1>1, <1>4 DEF QueueInv, SameButChain
<1>6. Kept(m, n)
  BY DEF Kept, SameButChain
<1>7. QED
  BY <1>2, <1>3, <1>5, <1>6 DEF NodeInv

\* A node that waits for headers, with a timer.
LEMMA WaitingNode ==
    ASSUME NEW n, Base(n), NoQueue(n), n.state = "syncingHeaders",
           n.syncPeerId \in Peers, n.up[n.syncPeerId] # "off",
           n.up[n.syncPeerId] = "up" => n.lastHeaderRequest
    PROVE  NodeInv(n)
<1>1. n \in Nodes /\ ChainInv(n) /\ PeersInv(n)
  BY DEF Base, Known
<1>2. WindowInv(n)
  BY FS_EmptySet, PeersAssumption DEF WindowInv, NoQueue
<1>3. QED
  BY <1>1, <1>2 DEF NodeInv, SyncPeerInv, HeaderTimer, QueueInv

\* Headers are asked for, by a node that waits for some or is synced.
LEMMA AskHeadersFacts ==
    ASSUME NEW n, Base(n), NoQueue(n), NEW p \in Peers, n.up[p] # "off", n.syncPeerId = p,
           n.state \in {"syncingHeaders", "synced"}
    PROVE  NodeInv(RequestHeaders(n, p)) /\ Kept(RequestHeaders(n, p), n)
<1> DEFINE m == RequestHeaders(n, p)
<1>1. /\ Base(m) /\ NoQueue(m) /\ m.lastHeaderRequest = TRUE /\ m.state = n.state
      /\ m.syncPeerId = p /\ m.up = n.up /\ m.banned = n.banned
  BY RequestHeadersFacts DEF NoQueue
<1> HIDE DEF m
<1>2. NodeInv(m)
  BY <1>1, WaitingNode, RestingNode
<1>3. Kept(m, n)
  BY <1>1 DEF Kept
<1>4. QED
  BY <1>2, <1>3 DEF m

-----------------------------------------------------------------------------
(* Lemmas about headers *)

\* What a peer sends follows one block of its chain after the other.
Consecutive(hs, t) ==
    /\ hs \in Seq(Blocks)
    /\ \E k \in Nat : \A i \in 1..Len(hs) : k + i \in 1..Len(Path[t]) /\ hs[i] = Path[t][k + i]

\* Chain.add throws for the branch of t (NeedsUnstored).
Unstored(n, t) ==
    /\ Work[t] > Work[n.tip]
    /\ ForkHeight(n, t) \in (n.stored + 1)..(TipHeight(n) - 1)

LEMMA IndexHeadersFacts ==
    ASSUME NEW n, NodeInv(n), NEW hs \in Seq(Blocks)
    PROVE  \A m \in IndexHeaders(n, hs) : NodeInv(m) /\ Kept(m, n)
<1> DEFINE U == {m \in Nodes : Known(m) /\ SameButChain(m, n) /\ m.stored <= n.stored}
<1>1. n \in U
  BY DEF NodeInv, Known, SameButChain, Nodes
<1>2. ASSUME NEW m \in U, NEW b \in Blocks PROVE Add(m, b) \in U
  <2>1. Known(m) /\ SameButChain(m, n) /\ m.stored <= n.stored /\ m.stored \in Nat /\ n.stored \in Nat
    BY DEF Nodes, NodeInv
  <2>2. /\ Known(Add(m, b)) /\ SameButChain(Add(m, b), m) /\ Add(m, b).stored <= m.stored
    BY <2>1, AddFacts
  <2>3. Add(m, b) \in Nodes /\ Add(m, b).stored \in Nat
    BY <2>2 DEF Known, Nodes
  <2>4. SameButChain(Add(m, b), n)
    BY <2>1, <2>2 DEF SameButChain
  <2>5. QED
    BY <2>1, <2>2, <2>3, <2>4
<1>3. \A m \in U : NodeInv(m) /\ Kept(m, n)
  BY ChainMayChange
<1> HIDE DEF U
<1>4. IndexHeaders(n, hs) \subseteq U
  BY <1>1, <1>2, IndexStays
<1>5. QED
  BY <1>3, <1>4

\* When Chain.add throws in the middle of a message, the tip is still the one that it was
\* before the message, and the branch leaves the best chain above the stored blocks.
LEMMA ThrowsForBranch ==
    ASSUME NEW n, Known(n), NEW b \in Blocks, NEW t \in Blocks,
           NEW i \in 1..Len(Path[t]), b = Path[t][i], Verdict(n, b) = "failed"
    PROVE  Unstored(n, t)
<1> DEFINE T == Path[n.tip]
           kb == Common(Path[b], T)
           kt == Common(Path[t], T)
<1>1. /\ n.tip \in Blocks /\ n.tip \in n.known /\ n.known \subseteq Blocks
      /\ n.stored \in Nat /\ ChainInv(n)
  BY DEF Known, Nodes, ChainInv
<1>2. /\ b # Genesis /\ Parent(b) \in n.known /\ Work[b] > Work[n.tip]
      /\ Parent(b) # n.tip /\ kb - 1 > n.stored
  BY DEF Verdict, ForkHeight
<1>3. Work[b] <= Work[t] /\ Work[t] \in Nat /\ Work[b] \in Nat /\ Work[n.tip] \in Nat
  <2>1. Work[b] <= Work[t] /\ Work[t] \in Nat
    BY PathFacts
  <2>2. Work[b] \in Nat /\ Work[n.tip] \in Nat
    BY <1>1, PathFacts
  <2>3. QED
    BY <2>1, <2>2
<1>4. Len(Path[b]) = i /\ \A j \in 1..i : Path[b][j] = Path[t][j]
  BY PrefixOfPath
<1>5. /\ Len(Path[t]) \in Nat /\ Len(T) \in Nat /\ Len(T) = TipHeight(n) + 1 /\ TipHeight(n) \in Nat
      /\ i \in Nat /\ i <= Len(Path[t])
  <2>1. Len(Path[t]) \in Nat
    BY PathFacts
  <2>2. Len(T) \in Nat /\ Len(T) = TipHeight(n) + 1 /\ TipHeight(n) \in Nat
    BY <1>1, PathFacts DEF TipHeight
  <2>3. QED
    BY <2>1, <2>2
<1>6. /\ kb \in 1..Len(Path[b]) /\ kb <= Len(T) /\ Path[b][kb] = T[kb]
  BY <1>1, CommonFacts
<1>7. /\ kt \in 1..Len(Path[t]) /\ kt <= Len(T) /\ Path[t][kt] = T[kt]
      /\ \A j \in 1..Len(Path[t]) : j <= Len(T) /\ Path[t][j] = T[j] => j <= kt
  BY <1>1, CommonFacts
<1> HIDE DEF kb, kt
<1>8. kb <= kt
  <2>1. kb \in 1..i
    BY <1>4, <1>6
  <2>2. Path[t][kb] = T[kb]
    BY <2>1, <1>4, <1>6
  <2>3. kb \in 1..Len(Path[t]) /\ kb <= Len(T)
    BY <2>1, <1>5, <1>6
  <2> HIDE DEF T
  <2>4. QED
    BY <2>2, <2>3, <1>7
<1>9. kt # Len(T)
  <2>1. SUFFICES ASSUME kt = Len(T) PROVE FALSE
    OBVIOUS
  <2>2. Path[t][kt] = n.tip
    <3>1. T[Len(T)] = n.tip
      BY <1>1, PathFacts
    <3>2. QED
      BY <3>1, <2>1, <1>7
  <2>3. CASE kt <= i
    <3>1. Path[b][kt] = n.tip
      BY <2>2, <2>3, <1>4, <1>7, <1>5
    <3>2. b # n.tip
      BY <1>2, <1>3
    <3>3. kt # i
      <4>1. Path[b][Len(Path[b])] = b
        BY PathFacts
      <4>2. QED
        BY <4>1, <3>1, <3>2, <1>4
    <3>4. kt \in 1..(Len(Path[b]) - 1)
      BY <3>3, <2>3, <1>4, <1>5, <1>7
    <3>5. Path[Parent(b)][kt] = n.tip
      BY <3>1, <3>4, <1>2, ParentFacts
    <3>6. kt \in 1..Len(Path[Parent(b)])
      <4>1. Parent(b) \in Blocks /\ Height(Parent(b)) = Height(b) - 1 /\ Len(Path[b]) = Height(b) + 1
        BY <1>2, ParentFacts, PathFacts
      <4>2. Len(Path[Parent(b)]) = Height(Parent(b)) + 1 /\ Height(b) \in Nat
        BY <4>1, PathFacts
      <4>3. QED
        BY <3>4, <4>1, <4>2
    <3>7. QED
      BY <3>5, <3>6, <1>1, <1>2 DEF ChainInv
  <2>4. CASE i < kt
    <3>1. i \in 1..Len(T)
      BY <2>1, <2>4, <1>5
    <3>2. i \in 1..kt /\ kt \in 1..Len(Path[t])
      BY <2>4, <1>5, <1>7
    <3>3. Path[n.tip][i] = Path[t][i]
      BY <3>2, <2>2, <1>1, PrefixOfPath
    <3>4. b = T[i]
      BY <3>3
    <3>5. Work[b] <= Work[n.tip]
      BY <3>1, <3>4, <1>1, PathFacts
    <3>6. QED
      BY <3>5, <1>2, <1>3
  <2>5. QED
    BY <2>3, <2>4, <1>5, <1>7
<1>10. kt - 1 \in (n.stored + 1)..(TipHeight(n) - 1)
  BY <1>1, <1>2, <1>5, <1>6, <1>7, <1>8, <1>9
<1>11. Work[t] > Work[n.tip]
  BY <1>2, <1>3
<1>12. QED
  BY <1>10, <1>11 DEF Unstored, ForkHeight, kt

\* A branch whose tip is the tip of the chain does not leave it.
LEMMA NotUnstored ==
    ASSUME NEW n, Known(n), NEW t \in Blocks, NEW i \in 1..Len(Path[t]), n.tip = Path[t][i]
    PROVE  ~Unstored(n, t)
<1> DEFINE T == Path[n.tip]
           kt == Common(Path[t], T)
<1>1. /\ n.tip \in Blocks /\ Len(T) \in Nat /\ Len(T) = TipHeight(n) + 1 /\ TipHeight(n) \in Nat
      /\ n.stored \in Nat
  <2>1. n.tip \in Blocks /\ n.stored \in Nat
    BY DEF Known, Nodes
  <2>2. QED
    BY <2>1, PathFacts DEF TipHeight
<1>2. Len(T) = i /\ T[Len(T)] = n.tip
  <2>1. Len(T) = i
    BY PrefixOfPath
  <2>2. T[Len(T)] = n.tip
    BY <1>1, PathFacts
  <2>3. QED
    BY <2>1, <2>2
<1>3. \A j \in 1..Len(Path[t]) : j <= Len(T) /\ Path[t][j] = T[j] => j <= kt
  BY <1>1, CommonFacts
<1>4. kt \in 1..Len(Path[t]) /\ Len(Path[t]) \in Nat
  BY <1>1, CommonFacts, PathFacts
<1> HIDE DEF T, kt
<1>5. i <= kt
  BY <1>2, <1>3, <1>1
<1>6. ~(kt - 1 \in (n.stored + 1)..(TipHeight(n) - 1))
  BY <1>1, <1>2, <1>4, <1>5
<1>7. QED
  BY <1>6 DEF Unstored, ForkHeight, kt, T

Stops == {"no", "orphan", "unproved", "invalid", "failed"}
Scans == [n : Nodes, added : Nat, stop : Stops]

\* The loop of onHeaders, after the first i headers.
Scanned(s, n, hs, t, i) ==
    /\ Known(s.n) /\ SameButChain(s.n, n)
    /\ (s.n.tip = n.tip /\ s.n.stored = n.stored) \/ \E j \in 1..i : s.n.tip = hs[j]
    /\ s.stop = "unproved" => \E j \in 1..Len(hs) : hs[j] \in Unproved
    /\ s.stop = "invalid" => \E j \in 1..Len(hs) : hs[j] \in BadHeaders
    /\ s.stop = "failed" => Unstored(n, t)

LEMMA ScanHeaderFacts ==
    ASSUME NEW n, Known(n), NEW p \in Peers, NEW t \in Blocks, NEW hs, Consecutive(hs, t),
           NEW i \in 1..Len(hs), NEW s \in Scans, Scanned(s, n, hs, t, i - 1)
    PROVE  ScanHeader(s, p, hs[i]) \in Scans /\ Scanned(ScanHeader(s, p, hs[i]), n, hs, t, i)
<1> DEFINE b == hs[i]
           r == ScanHeader(s, p, b)
           verdict == IF b \in Unproved THEN "unproved" ELSE Verdict(s.n, b)
           k == Add(s.n, b)
<1>1. Len(hs) \in Nat /\ hs \in Seq(Blocks) /\ b \in Blocks
  BY ElementOfSeq DEF Consecutive
<1>2. /\ Known(s.n) /\ SameButChain(s.n, n) /\ s.n \in Nodes /\ s.added \in Nat /\ s.stop \in Stops
      /\ (s.n.tip = n.tip /\ s.n.stored = n.stored) \/ \E j \in 1..(i - 1) : s.n.tip = hs[j]
      /\ s.stop = "unproved" => \E j \in 1..Len(hs) : hs[j] \in Unproved
      /\ s.stop = "invalid" => \E j \in 1..Len(hs) : hs[j] \in BadHeaders
      /\ s.stop = "failed" => Unstored(n, t)
  BY DEF Scanned, Known, Scans
<1>3. \A j \in 1..(i - 1) : j \in 1..i
  BY <1>1
<1>4. (s.n.tip = n.tip /\ s.n.stored = n.stored) \/ \E j \in 1..i : s.n.tip = hs[j]
  BY <1>2, <1>3
<1>5. /\ Known(k) /\ SameButChain(k, s.n) /\ k.height = s.n.height
      /\ \/ k.tip = s.n.tip /\ k.stored = s.n.stored
         \/ k.tip = b /\ Verdict(s.n, b) = "added"
  <2> HIDE DEF b
  <2>1. Known(s.n) /\ b \in Blocks
    BY <1>1, <1>2
  <2>2. QED
    BY <2>1, AddFacts, Zenon
<1>6. k \in Nodes /\ SameButChain(k, n)
  BY <1>5, <1>2 DEF Known, SameButChain
<1>7. (k.tip = n.tip /\ k.stored = n.stored) \/ \E j \in 1..i : k.tip = hs[j]
  <2>1. i \in 1..i
    BY <1>1
  <2>2. CASE k.tip = s.n.tip /\ k.stored = s.n.stored
    BY <2>2, <1>4
  <2>3. CASE k.tip = b
    BY <2>1, <2>3
  <2>4. QED
    BY <2>2, <2>3, <1>5
<1>8. CASE s.stop # "no"
  <2>1. r = s
    BY <1>8 DEF ScanHeader
  <2> HIDE DEF r
  <2>2. QED
    BY <2>1, <1>2, <1>4 DEF Scanned, r
<1>9. CASE s.stop = "no" /\ verdict \in {"added", "duplicate"}
  <2> DEFINE g == Heard(k, p, b)
             added == IF verdict = "added" THEN s.added + 1 ELSE s.added
  <2>1. r = [n |-> g, stop |-> "no", added |-> added]
    BY <1>9 DEF ScanHeader
  <2>2. Known(g) /\ SameButChain(g, k) /\ SameChain(g, k) /\ g \in Nodes
    <3>1. Known(g) /\ SameButChain(g, k) /\ SameChain(g, k)
      BY <1>1, <1>5, HeardFacts
    <3>2. QED
      BY <3>1 DEF Known
  <2>3. added \in Nat
    BY <1>2
  <2> HIDE DEF g, added, k, r
  <2>4. r \in Scans
    BY <2>1, <2>2, <2>3 DEF Scans, Stops
  <2>5. r.n = g /\ r.stop = "no"
    BY <2>1
  <2>6. SameButChain(g, n)
    BY <2>2, <1>6 DEF SameButChain
  <2>7. (g.tip = n.tip /\ g.stored = n.stored) \/ \E j \in 1..i : g.tip = hs[j]
    BY <2>2, <1>7 DEF SameChain
  <2>8. QED
    BY <2>2, <2>4, <2>5, <2>6, <2>7 DEF Scanned, r
<1>10. CASE s.stop = "no" /\ verdict = "unproved"
  <2>1. r = [s EXCEPT !.stop = "unproved"] /\ b \in Unproved
    <3>1. b \in Unproved
      BY <1>10 DEF Verdict
    <3>2. QED
      BY <3>1, <1>10 DEF ScanHeader
  <2> HIDE DEF r
  <2>2. r \in Scans /\ r.n = s.n /\ r.stop = "unproved"
    BY <2>1 DEF Scans, Stops
  <2>3. QED
    BY <2>1, <2>2, <1>2, <1>4 DEF Scanned, r
<1>11. CASE s.stop = "no" /\ verdict \in {"orphan", "invalid", "failed"}
  <2>1. r = [s EXCEPT !.n = k, !.stop = verdict] /\ b \notin Unproved /\ verdict = Verdict(s.n, b)
    <3>1. b \notin Unproved
      BY <1>11
    <3>2. QED
      BY <3>1, <1>11 DEF ScanHeader
  <2>2. verdict = "invalid" => b \in BadHeaders
    BY <2>1 DEF Verdict
  <2>3. ASSUME verdict = "failed" PROVE Unstored(n, t)
    <3>1. PICK d \in Nat : \A j \in 1..Len(hs) : d + j \in 1..Len(Path[t]) /\ hs[j] = Path[t][d + j]
      BY DEF Consecutive
    <3>2. d + i \in 1..Len(Path[t]) /\ b = Path[t][d + i]
      BY <3>1
    <3>3. Verdict(s.n, b) = "failed"
      BY <2>1, <2>3
    <3> HIDE DEF b
    <3>4. Unstored(s.n, t)
      BY <3>2, <3>3, <1>1, <1>2, ThrowsForBranch
    <3>5. ASSUME NEW j \in 1..(i - 1), s.n.tip = hs[j] PROVE FALSE
      <4>1. j \in 1..Len(hs)
        BY <1>1
      <4>2. d + j \in 1..Len(Path[t]) /\ s.n.tip = Path[t][d + j]
        BY <3>1, <3>5, <4>1
      <4>3. QED
        BY <4>2, <3>4, <1>2, NotUnstored
    <3>6. s.n.tip = n.tip /\ s.n.stored = n.stored
      BY <3>5, <1>2
    <3>7. QED
      BY <3>4, <3>6 DEF Unstored, ForkHeight, TipHeight
  <2> HIDE DEF r, verdict, k
  <2>4. r \in Scans /\ r.n = k /\ r.stop = verdict
    BY <2>1, <1>6, <1>11 DEF Scans, Stops
  <2>5. verdict # "unproved"
    BY <1>11
  <2>6. QED
    BY <2>2, <2>3, <2>4, <2>5, <1>5, <1>6, <1>7 DEF Scanned, r
<1>12. verdict \in {"added", "duplicate", "unproved", "orphan", "invalid", "failed"}
  BY DEF Verdict
<1>13. QED
  BY <1>8, <1>9, <1>10, <1>11, <1>12

LEMMA ScanFacts ==
    ASSUME NEW n, Known(n), NEW p \in Peers, NEW t \in Blocks, NEW hs, Consecutive(hs, t)
    PROVE  \A s \in ScanHeaders(n, p, hs) : s \in Scans /\ Scanned(s, n, hs, t, Len(hs))
<1> DEFINE V == [i \in 0..Len(hs) |-> {s \in Scans : Scanned(s, n, hs, t, i)}]
           base == [n |-> n, added |-> 0, stop |-> "no"]
<1>1. hs \in Seq(Blocks) /\ Len(hs) \in Nat
  BY DEF Consecutive
<1>2. base \in V[0]
  <2>1. base \in Scans
    BY DEF Known, Scans, Stops
  <2>2. Scanned(base, n, hs, t, 0)
    BY DEF Scanned, SameButChain
  <2>3. QED
    BY <1>1, <2>1, <2>2
<1>3. ASSUME NEW i \in 1..Len(hs), NEW s \in V[i - 1] PROVE ScanHeader(s, p, hs[i]) \in V[i]
  <2>1. i - 1 \in 0..Len(hs) /\ i \in 0..Len(hs)
    BY <1>1
  <2>2. s \in Scans /\ Scanned(s, n, hs, t, i - 1)
    BY <2>1
  <2>3. QED
    BY <2>1, <2>2, ScanHeaderFacts
<1>4. V[Len(hs)] = {s \in Scans : Scanned(s, n, hs, t, Len(hs))}
  BY <1>1
<1> HIDE DEF V
<1>5. ScanHeaders(n, p, hs) \subseteq V[Len(hs)]
  BY <1>1, <1>2, <1>3, ScanStays
<1>6. QED
  BY <1>4, <1>5

\* A peer is banned, and nothing that it sent is left.
Punished(m, n, p) ==
    /\ m.banned = n.banned \cup {p}
    /\ m.state = "syncingBlocks" /\ ~m.compacted => m.blockBuffer = {}

\* p is the sync peer of a node that looks at headers.
Listening(n, p) ==
    /\ Base(n) /\ NoQueue(n) /\ n.syncPeerId = p /\ n.up[p] # "off"
    /\ n.state \in {"syncingHeaders", "synced"}

LEMMA OrphanHeaderFacts ==
    ASSUME NEW n, NEW p \in Peers, Listening(n, p), NEW added \in Nat
    PROVE  \A m \in OrphanHeader(n, p, added) : NodeInv(m) /\ Kept(m, n)
<1> DEFINE k == IF n.state = "synced"
                THEN [n EXCEPT !.state = "syncingHeaders", !.orphanRetries = 0] ELSE n
           idle == [k EXCEPT !.state = "idle", !.syncPeerId = None, !.orphanRetries = 0]
           once == [k EXCEPT !.orphanRetries = 0]
           again == [k EXCEPT !.orphanRetries = @ + 1]
<1>1. n \in Nodes /\ ChainInv(n) /\ PeersInv(n) /\ Base(n) /\ NoQueue(n)
  BY DEF Listening, Base, Known
<1>2. k \in Nodes
  <2>1. 0 \in 0..2 /\ "syncingHeaders" \in States
    BY DEF States
  <2>2. [n EXCEPT !.state = "syncingHeaders", !.orphanRetries = 0] \in Nodes
    BY <1>1, <2>1, Zenon DEF Nodes
  <2>3. QED
    BY <2>2, <1>1
<1>3. /\ SameChain(k, n) /\ k.state = "syncingHeaders" /\ NoQueue(k) /\ k.syncPeerId = p
      /\ k.up = n.up /\ k.banned = n.banned /\ k.asked = n.asked
  BY <1>1 DEF Nodes, SameChain, NoQueue, Listening
<1>4. OrphanHeader(n, p, added) =
        CASE added > 0 -> {RequestHeaders(once, p)}
          [] added = 0 /\ k.orphanRetries < 2 -> {RequestHeaders(again, p)}
          [] OTHER -> SyncWith(idle, {q \in Handshaked(k) \ {p} : Ahead(k, q)}, {idle})
  BY DEF OrphanHeader
<1> HIDE DEF k
<1>5. /\ once \in Nodes /\ (k.orphanRetries < 2 => again \in Nodes) /\ idle \in Nodes
  <2>1. once \in Nodes
    BY <1>2 DEF Nodes
  <2>2. k.orphanRetries < 2 => again \in Nodes
    BY <1>2 DEF Nodes
  <2>3. idle \in Nodes
    <3>1. "idle" \in States /\ None \in Peers \cup {None} /\ 0 \in 0..2
      BY DEF States
    <3>2. QED
      BY <3>1, <1>2, ModeTyped
  <2>4. QED
    BY <2>1, <2>2, <2>3
<1>6. /\ SameChain(once, n) /\ once.state = "syncingHeaders" /\ NoQueue(once) /\ once.syncPeerId = p
      /\ once.up = n.up /\ once.banned = n.banned /\ once.asked = n.asked
  BY <1>2, <1>3 DEF Nodes, SameChain, NoQueue
<1>7. /\ SameChain(again, n) /\ again.state = "syncingHeaders" /\ NoQueue(again) /\ again.syncPeerId = p
      /\ again.up = n.up /\ again.banned = n.banned /\ again.asked = n.asked
  BY <1>2, <1>3 DEF Nodes, SameChain, NoQueue
<1>8. /\ SameChain(idle, n) /\ idle.state = "idle" /\ NoQueue(idle)
      /\ idle.up = n.up /\ idle.banned = n.banned /\ idle.asked = n.asked
  BY <1>2, <1>3 DEF Nodes, SameChain, NoQueue
<1> HIDE DEF once, again, idle
<1>9. CASE added > 0
  <2>1. Base(once)
    BY <1>1, <1>5, <1>6 DEF Base, Known, ChainInv, PeersInv, SameChain, TipHeight
  <2>2. NodeInv(RequestHeaders(once, p)) /\ Kept(RequestHeaders(once, p), once)
    BY <2>1, <1>6, AskHeadersFacts DEF Listening
  <2>3. QED
    BY <2>2, <1>4, <1>6, <1>9 DEF Kept
<1>10. CASE ~(added > 0) /\ k.orphanRetries < 2
  <2>1. Base(again)
    BY <1>1, <1>5, <1>7, <1>10 DEF Base, Known, ChainInv, PeersInv, SameChain, TipHeight
  <2>2. NodeInv(RequestHeaders(again, p)) /\ Kept(RequestHeaders(again, p), again)
    BY <2>1, <1>7, AskHeadersFacts DEF Listening
  <2>3. OrphanHeader(n, p, added) = {RequestHeaders(again, p)}
    BY <1>4, <1>10
  <2>4. QED
    BY <2>2, <2>3, <1>7 DEF Kept
<1>11. CASE ~(added > 0) /\ ~(k.orphanRetries < 2)
  <2> DEFINE ps == {q \in Handshaked(k) \ {p} : Ahead(k, q)}
  <2>1. Base(idle)
    BY <1>1, <1>5, <1>8 DEF Base, Known, ChainInv, PeersInv, SameChain, TipHeight
  <2>2. ps \in SUBSET Handshaked(idle)
    BY <1>3, <1>8 DEF Handshaked
  <2>3. NodeInv(idle) /\ Kept(idle, idle)
    BY <2>1, <1>8, RestingNode DEF Kept
  <2>4. OrphanHeader(n, p, added) = SyncWith(idle, ps, {idle})
    BY <1>4, <1>11
  <2> HIDE DEF ps
  <2>5. \A m \in SyncWith(idle, ps, {idle}) : NodeInv(m) /\ Kept(m, idle)
    BY <2>1, <2>2, <2>3, <1>8, SyncWithFacts
  <2>6. QED
    BY <2>4, <2>5, <1>8 DEF Kept
<1>12. QED
  BY <1>9, <1>10, <1>11

LEMMA BadHeaderFacts ==
    ASSUME NEW n, Base(n), NoQueue(n), NEW p \in Peers
    PROVE  \A m \in BadHeader(n, p) : NodeInv(m) /\ Punished(m, n, p)
<1> DEFINE k == Ban(n, p)
           idle == [k EXCEPT !.syncPeerId = None, !.pendingBlocks = {}, !.state = "idle"]
<1>1. Base(k) /\ SameChain(k, n) /\ NoQueue(k) /\ k.banned = n.banned \cup {p}
  BY BanFacts DEF NoQueue
<1>2. BadHeader(n, p) = SyncElsewhere(idle, p)
  BY DEF BadHeader, Then
<1> HIDE DEF k
<1>3. k \in Nodes /\ ChainInv(k) /\ PeersInv(k)
  BY <1>1 DEF Base, Known
<1>4. idle \in Nodes
  BY <1>3, Zenon DEF Nodes, States
<1>5. /\ SameChain(idle, k) /\ idle.state = "idle" /\ NoQueue(idle)
      /\ idle.up = k.up /\ idle.banned = k.banned /\ idle.asked = k.asked
  BY <1>1, <1>3 DEF Nodes, SameChain, NoQueue
<1> HIDE DEF idle
<1>6. Base(idle)
  BY <1>3, <1>4, <1>5 DEF Base, Known, ChainInv, PeersInv, SameChain, TipHeight
<1>7. \A m \in SyncElsewhere(idle, p) : NodeInv(m) /\ Kept(m, idle)
  BY <1>5, <1>6, SyncElsewhereFacts
<1>8. \A m \in SyncElsewhere(idle, p) : Punished(m, n, p)
  BY <1>1, <1>5, <1>7 DEF Kept, Punished
<1>9. QED
  BY <1>2, <1>7, <1>8

LEMMA GoodHeadersFacts ==
    ASSUME NEW n, NEW p \in Peers, Listening(n, p), NEW hs, NEW added
    PROVE  \A m \in GoodHeaders(n, p, hs, added) : NodeInv(m) /\ Kept(m, n)
<1>1. NodeInv(FinishHeaderSync(n, p)) /\ Kept(FinishHeaderSync(n, p), n)
  BY FinishHeaderSyncFacts DEF Listening
<1>2. NodeInv(RequestHeaders(n, p)) /\ Kept(RequestHeaders(n, p), n)
  BY AskHeadersFacts DEF Listening
<1>3. n.state # "syncingHeaders" => NodeInv(n) /\ Kept(n, n)
  BY RestingNode DEF Listening, Kept
<1>4. QED
  BY <1>1, <1>2, <1>3 DEF GoodHeaders

LEMMA BannedListener ==
    ASSUME NEW n, NEW p \in Peers, Listening(n, p)
    PROVE  NodeInv(Ban(n, p)) /\ Punished(Ban(n, p), n, p)
<1> DEFINE m == Ban(n, p)
<1>1. /\ Base(m) /\ NoQueue(m) /\ m.state = n.state /\ m.syncPeerId = p
      /\ m.up[p] # "off" /\ m.up[p] # "up" /\ m.banned = n.banned \cup {p}
      /\ m.state \in {"syncingHeaders", "synced"}
  BY BanFacts DEF Listening, NoQueue
<1> HIDE DEF m
<1>2. NodeInv(m)
  BY <1>1, WaitingNode, RestingNode
<1>3. Punished(m, n, p)
  BY <1>1 DEF Punished
<1>4. QED
  BY <1>2, <1>3 DEF m

\* A message of headers bans the peer only for a header of its own chain, or for a branch
\* that the chain cannot reorganise to.
HeadersBan(n, hs, t) ==
    Unstored(n, t) \/ \E j \in 1..Len(hs) : hs[j] \in BadHeaders \cup Unproved

LEMMA SyncPeerHeadersFacts ==
    ASSUME NEW n, NEW p \in Peers, Listening(n, p), NEW t \in Blocks, NEW hs, Consecutive(hs, t)
    PROVE  \A m \in SyncPeerHeaders(n, p, hs) :
              NodeInv(m) /\ (Kept(m, n) \/ (Punished(m, n, p) /\ HeadersBan(n, hs, t)))
<1> DEFINE k == [n EXCEPT !.lastHeaderRequest = FALSE]
<1>1. n \in Nodes /\ ChainInv(n) /\ PeersInv(n)
  BY DEF Listening, Base, Known
<1>2. k \in Nodes
  BY <1>1 DEF Nodes
<1>3. /\ SameChain(k, n) /\ k.state = n.state /\ k.syncPeerId = n.syncPeerId
      /\ k.pendingBlocks = n.pendingBlocks /\ k.blockBuffer = n.blockBuffer
      /\ k.compacted = n.compacted /\ k.up = n.up /\ k.banned = n.banned /\ k.asked = n.asked
  BY <1>1 DEF Nodes, SameChain
<1>4. SyncPeerHeaders(n, p, hs) = UNION {HeadersAdded(s, p, hs) : s \in ScanHeaders(k, p, hs)}
  BY DEF SyncPeerHeaders
<1> HIDE DEF k
<1>5. Known(k)
  BY <1>1, <1>2, <1>3 DEF Known, ChainInv, SameChain, TipHeight
<1>6. ASSUME NEW s \in ScanHeaders(k, p, hs), NEW m \in HeadersAdded(s, p, hs)
      PROVE  NodeInv(m) /\ (Kept(m, n) \/ (Punished(m, n, p) /\ HeadersBan(n, hs, t)))
  <2>1. s \in Scans /\ Scanned(s, k, hs, t, Len(hs))
    BY <1>5, ScanFacts
  <2>2. Known(s.n) /\ SameButChain(s.n, k) /\ s.added \in Nat /\ s.stop \in Stops
    BY <2>1 DEF Scanned, Scans
  <2>3. PeersInv(s.n)
    BY <2>2, <1>1, <1>3 DEF PeersInv, SameButChain
  <2>4. Listening(s.n, p) /\ s.n.banned = n.banned
    BY <2>2, <2>3, <1>3 DEF Listening, Base, NoQueue, SameButChain
  <2>5. ASSUME Kept(m, s.n) PROVE Kept(m, n)
    BY <2>4, <2>5 DEF Kept, Listening, NoQueue
  <2>6. ASSUME Punished(m, s.n, p) PROVE Punished(m, n, p)
    BY <2>4, <2>6 DEF Punished
  <2>7. s.stop \in {"unproved", "invalid", "failed"} => HeadersBan(n, hs, t)
    BY <2>1, <1>3 DEF Scanned, HeadersBan, Unstored, ForkHeight, TipHeight, SameChain
  <2>8. CASE hs = << >>
    <3>1. m = FinishHeaderSync(s.n, p)
      BY <2>8 DEF HeadersAdded
    <3>2. QED
      BY <3>1, <2>4, <2>5, FinishHeaderSyncFacts DEF Listening
  <2>9. CASE hs # << >> /\ s.stop = "no"
    <3>1. m \in GoodHeaders(s.n, p, hs, s.added)
      BY <2>9 DEF HeadersAdded
    <3>2. QED
      BY <3>1, <2>4, <2>5, GoodHeadersFacts
  <2>10. CASE hs # << >> /\ s.stop = "orphan"
    <3>1. m \in OrphanHeader(s.n, p, s.added)
      BY <2>10 DEF HeadersAdded
    <3>2. QED
      BY <3>1, <2>2, <2>4, <2>5, OrphanHeaderFacts
  <2>11. CASE hs # << >> /\ s.stop = "unproved"
    <3>1. m = Ban(s.n, p)
      BY <2>11 DEF HeadersAdded
    <3>2. QED
      BY <3>1, <2>4, <2>6, <2>7, <2>11, BannedListener
  <2>12. CASE hs # << >> /\ s.stop \in {"invalid", "failed"}
    <3>1. m \in BadHeader(s.n, p)
      BY <2>12 DEF HeadersAdded
    <3>2. QED
      BY <3>1, <2>4, <2>6, <2>7, <2>12, BadHeaderFacts DEF Listening
  <2>13. QED
    BY <2>2, <2>8, <2>9, <2>10, <2>11, <2>12 DEF Stops
<1>7. QED
  BY <1>4, <1>6

LEMMA OnHeadersFacts ==
    ASSUME NEW n, NodeInv(n), NEW p \in Peers, n.up[p] # "off",
           NEW t \in Blocks, NEW hs, Consecutive(hs, t)
    PROVE  \A m \in OnHeaders(n, p, hs) :
              NodeInv(m) /\ (Kept(m, n) \/ (Punished(m, n, p) /\ HeadersBan(n, hs, t)))
<1> DEFINE k == IF n.state = "synced" /\ hs # << >> THEN [n EXCEPT !.syncPeerId = p] ELSE n
<1>1. n \in Nodes /\ ChainInv(n) /\ PeersInv(n) /\ Base(n)
  BY DEF NodeInv, Base, Known
<1>2. CASE n.state = "syncingBlocks" /\ hs # << >>
  <2>1. OnHeaders(n, p, hs) = IndexHeaders(n, hs)
    BY <1>2 DEF OnHeaders
  <2>2. QED
    BY <2>1, IndexHeadersFacts DEF Consecutive
<1>3. CASE ~(n.state = "syncingBlocks" /\ hs # << >>)
  <2>1. OnHeaders(n, p, hs) = IF k.state \in {"syncingHeaders", "synced"} /\ k.syncPeerId = p
                              THEN SyncPeerHeaders(k, p, hs) ELSE {k}
    BY <1>3 DEF OnHeaders
  <2>2. k \in Nodes
    BY <1>1 DEF Nodes
  <2>3. /\ SameChain(k, n) /\ k.state = n.state
        /\ k.pendingBlocks = n.pendingBlocks /\ k.blockBuffer = n.blockBuffer
        /\ k.compacted = n.compacted /\ k.up = n.up /\ k.banned = n.banned /\ k.asked = n.asked
        /\ k = n \/ (n.state = "synced" /\ k.syncPeerId = p)
    BY <1>1 DEF Nodes, SameChain
  <2> HIDE DEF k
  <2>4. Base(k)
    BY <1>1, <2>2, <2>3 DEF Base, Known, ChainInv, PeersInv, SameChain, TipHeight
  <2>5. CASE k.state \in {"syncingHeaders", "synced"} /\ k.syncPeerId = p
    <3>1. NoQueue(n) /\ n.state = k.state
      BY <2>3, <2>5 DEF NodeInv, WindowInv, NoQueue
    <3>2. Listening(k, p)
      BY <3>1, <2>3, <2>4, <2>5 DEF Listening, NoQueue
    <3>3. \A m \in SyncPeerHeaders(k, p, hs) :
             NodeInv(m) /\ (Kept(m, k) \/ (Punished(m, k, p) /\ HeadersBan(k, hs, t)))
      BY <3>2, SyncPeerHeadersFacts
    <3>4. HeadersBan(k, hs, t) = HeadersBan(n, hs, t)
      BY <2>3 DEF HeadersBan, Unstored, ForkHeight, TipHeight, SameChain
    <3>5. \A m : Kept(m, k) => Kept(m, n)
      BY <3>1, <2>3, <2>5 DEF Kept
    <3>6. \A m : Punished(m, k, p) => Punished(m, n, p)
      BY <2>3 DEF Punished
    <3>7. QED
      BY <2>1, <2>5, <3>3, <3>4, <3>5, <3>6
  <2>6. CASE ~(k.state \in {"syncingHeaders", "synced"} /\ k.syncPeerId = p)
    <3>1. k = n
      BY <2>3, <2>6
    <3>2. QED
      BY <2>1, <2>6, <3>1 DEF Kept
  <2>7. QED
    BY <2>5, <2>6
<1>4. QED
  BY <1>2, <1>3

-----------------------------------------------------------------------------
(* Lemmas about the blocks that are connected *)

Drains == [n : Nodes, failed : BOOLEAN]

\* What the loops that connect blocks leave alone.
SameDownload(m, n) ==
    /\ m.known = n.known /\ m.tip = n.tip
    /\ m.state = n.state /\ m.syncPeerId = n.syncPeerId
    /\ m.pendingBlocks = n.pendingBlocks /\ m.nextBlockHeight = n.nextBlockHeight
    /\ m.compacted = n.compacted /\ m.up = n.up /\ m.asked = n.asked /\ m.banned = n.banned

Drained(s, n) ==
    s \in Drains /\ Known(s.n) /\ SameDownload(s.n, n) /\ s.n.blockBuffer \subseteq n.blockBuffer

\* The node after one block is connected.
Advanced(n, b) ==
    [Connected(n, b) EXCEPT !.blockBuffer = @ \ Due(n), !.nextConnectHeight = @ + 1]

LEMMA AdvancedTyped ==
    ASSUME NEW n \in Nodes, NEW h \in Nat, NEW buffer \in SUBSET Blocks, NEW next \in Nat
    PROVE  [n EXCEPT !.stored = h, !.blockBuffer = buffer, !.nextConnectHeight = next] \in Nodes
  BY Zenon DEF Nodes

LEMMA AdvancedFacts ==
    ASSUME NEW n, Known(n), NEW b \in Due(n), Connectable(n, b)
    PROVE  LET m == Advanced(n, b) IN
           /\ Known(m) /\ SameDownload(m, n)
           /\ m.blockBuffer = n.blockBuffer \ Due(n)
           /\ m.nextConnectHeight = n.nextConnectHeight + 1
           /\ m.stored = IF n.stored >= Height(b) THEN n.stored ELSE Height(b)
<1> DEFINE h == Max({n.stored, Height(b)})
           buffer == n.blockBuffer \ Due(n)
           next == n.nextConnectHeight + 1
           m == [n EXCEPT !.stored = h, !.blockBuffer = buffer, !.nextConnectHeight = next]
<1>1. /\ n \in Nodes /\ ChainInv(n) /\ n.stored \in Nat /\ n.blockBuffer \in SUBSET Blocks
      /\ n.nextConnectHeight \in Nat /\ TipHeight(n) \in Nat /\ n.stored <= TipHeight(n)
  BY BestChainFacts DEF Known, Nodes
<1>2. Height(b) \in 0..TipHeight(n)
  BY BestChainFacts DEF Connectable
<1>3. h = IF n.stored >= Height(b) THEN n.stored ELSE Height(b)
  BY <1>1, <1>2, MaxOfTwo
<1>4. h \in Nat /\ h <= TipHeight(n) /\ next \in Nat /\ buffer \in SUBSET Blocks
  BY <1>1, <1>2, <1>3
<1>5. Advanced(n, b) = m
  BY <1>1 DEF Advanced, Connected, Nodes
<1> HIDE DEF h, buffer, next
<1>6. m \in Nodes
  BY <1>1, <1>4, AdvancedTyped
<1>7. /\ m.stored = h /\ m.blockBuffer = buffer /\ m.nextConnectHeight = next /\ SameDownload(m, n)
  BY <1>1 DEF Nodes, SameDownload
<1> HIDE DEF m
<1>8. Known(m)
  BY <1>1, <1>4, <1>6, <1>7 DEF Known, ChainInv, SameDownload, TipHeight
<1>9. QED
  BY <1>3, <1>5, <1>7, <1>8 DEF buffer, next

\* What one turn does.
LEMMA ConnectDueCases ==
    ASSUME NEW s \in Drains
    PROVE  LET r == ConnectDue(s) IN
           \/ r = s /\ (s.failed \/ Due(s.n) = {})
           \/ r = [n |-> s.n, failed |-> TRUE] /\ \E b \in Due(s.n) : ~Connectable(s.n, b)
           \/ /\ ~s.failed
              /\ \E b \in Due(s.n) : /\ r = [n |-> Advanced(s.n, b), failed |-> FALSE]
                                     /\ Connectable(s.n, b)
<1> DEFINE r == ConnectDue(s)
<1>1. s = [n |-> s.n, failed |-> s.failed] /\ s.failed \in BOOLEAN
  BY DEF Drains
<1>2. CASE s.failed \/ Due(s.n) = {}
  BY <1>2 DEF ConnectDue
<1>3. CASE ~s.failed /\ \E b \in Due(s.n) : ~Connectable(s.n, b)
  <2>1. r = [s EXCEPT !.failed = TRUE]
    BY <1>3 DEF ConnectDue
  <2>2. r = [n |-> s.n, failed |-> TRUE]
    BY <1>1, <2>1
  <2>3. QED
    BY <2>2, <1>3
<1>4. CASE ~s.failed /\ Due(s.n) # {} /\ \A b \in Due(s.n) : Connectable(s.n, b)
  <2> DEFINE b == CHOOSE c \in Due(s.n) : TRUE
  <2>1. b \in Due(s.n)
    BY <1>4
  <2>2. r = [s EXCEPT !.n = Advanced(s.n, b)]
    <3>1. ~(s.failed \/ Due(s.n) = {}) /\ ~(~s.failed /\ \E c \in Due(s.n) : ~Connectable(s.n, c))
      BY <1>4
    <3>2. r = [s EXCEPT !.n = [Connected(s.n, CHOOSE c \in Due(s.n) : TRUE) EXCEPT
                                  !.blockBuffer = @ \ Due(s.n), !.nextConnectHeight = @ + 1]]
      BY <3>1 DEF ConnectDue
    <3>3. QED
      BY <3>2 DEF Advanced
  <2> HIDE DEF b
  <2>3. r = [n |-> Advanced(s.n, b), failed |-> FALSE]
    BY <1>1, <1>4, <2>2
  <2>4. QED
    BY <2>1, <2>3, <1>4
<1>5. QED
  BY <1>2, <1>3, <1>4

LEMMA ConnectDueFacts ==
    ASSUME NEW n, NEW s, Drained(s, n)
    PROVE  Drained(ConnectDue(s), n)
<1> DEFINE r == ConnectDue(s)
<1>1. /\ s \in Drains /\ Known(s.n) /\ s.n \in Nodes /\ SameDownload(s.n, n)
      /\ s.n.blockBuffer \subseteq n.blockBuffer
  BY DEF Drained, Drains
<1>2. CASE r = s
  BY <1>2
<1>3. CASE r = [n |-> s.n, failed |-> TRUE]
  <2> HIDE DEF r
  <2>1. r \in Drains /\ r.n = s.n
    BY <1>1, <1>3 DEF Drains
  <2>2. QED
    BY <2>1, <1>1 DEF Drained, r
<1>4. ASSUME NEW b \in Due(s.n), r = [n |-> Advanced(s.n, b), failed |-> FALSE], Connectable(s.n, b)
      PROVE  Drained(r, n)
  <2> DEFINE m == Advanced(s.n, b)
  <2>1. Known(m) /\ SameDownload(m, s.n) /\ m.blockBuffer \subseteq s.n.blockBuffer
    BY <1>1, <1>4, AdvancedFacts
  <2> HIDE DEF r, m
  <2>2. r.n = m /\ r \in Drains
    BY <1>4, <2>1 DEF Known, Drains, m
  <2>3. QED
    BY <2>1, <2>2, <1>1 DEF Drained, SameDownload
<1>5. QED
  BY <1>1, <1>2, <1>3, <1>4, ConnectDueCases

\* A download that is in order stays in order; as long as a block is due, one leaves the
\* buffer in every turn; and every block but the first one follows the stored ones.
Ordered(s, n, i) ==
    /\ InOrder(s.n)
    /\ s.n = n \/ s.n.nextConnectHeight = s.n.stored + 1
    /\ s.failed \/ Due(s.n) = {} \/ Cardinality(s.n.blockBuffer) + i = Cardinality(n.blockBuffer)
    /\ s.failed => \E b \in Due(s.n) : ~Connectable(s.n, b)

LEMMA ConnectDueInOrder ==
    ASSUME NEW n, IsFiniteSet(n.blockBuffer), NEW s, Drained(s, n), NEW i \in Nat \ {0},
           Ordered(s, n, i - 1)
    PROVE  Ordered(ConnectDue(s), n, i)
<1> DEFINE r == ConnectDue(s)
<1>1. /\ s \in Drains /\ Known(s.n) /\ s.n \in Nodes /\ SameDownload(s.n, n)
      /\ s.n.blockBuffer \subseteq n.blockBuffer
      /\ s.n.stored \in Nat /\ s.n.nextConnectHeight \in Nat /\ s.n.nextBlockHeight \in Nat
      /\ s.n.blockBuffer \subseteq Blocks /\ s.n.pendingBlocks \subseteq Blocks
  BY DEF Drained, Drains, Nodes
<1>2. /\ s.failed \/ Due(s.n) = {} \/ Cardinality(s.n.blockBuffer) + (i - 1) = Cardinality(n.blockBuffer)
      /\ s.failed => \E b \in Due(s.n) : ~Connectable(s.n, b)
      /\ InOrder(s.n)
  BY DEF Ordered
<1>3. CASE r = s /\ (s.failed \/ Due(s.n) = {})
  BY <1>3 DEF Ordered
<1>4. CASE r = [n |-> s.n, failed |-> TRUE] /\ \E b \in Due(s.n) : ~Connectable(s.n, b)
  <2>1. r.n = s.n /\ r.failed
    BY <1>4
  <2>2. QED
    BY <2>1, <1>4 DEF Ordered
<1>5. ASSUME NEW b \in Due(s.n), r = [n |-> Advanced(s.n, b), failed |-> FALSE],
             Connectable(s.n, b), ~s.failed
      PROVE  Ordered(r, n, i)
  <2> DEFINE k == s.n
             m == Advanced(s.n, b)
  <2>1. /\ Known(m) /\ SameDownload(m, k) /\ m.blockBuffer = k.blockBuffer \ Due(k)
        /\ m.nextConnectHeight = k.nextConnectHeight + 1
        /\ m.stored = IF k.stored >= Height(b) THEN k.stored ELSE Height(b)
    BY <1>1, <1>5, AdvancedFacts
  <2>2. b \in k.blockBuffer /\ Height(b) = k.nextConnectHeight
    BY DEF Due
  <2>3. r.n = m /\ ~r.failed
    BY <1>5
  <2> HIDE DEF r, m
  <2>4. /\ k.pendingBlocks \cap k.blockBuffer = {}
        /\ \A c, d \in Outstanding(k) : Height(c) = Height(d) => c = d
        /\ \A c \in Outstanding(k) : Height(c) \in k.nextConnectHeight..(k.nextBlockHeight - 1)
        /\ \A h \in k.nextConnectHeight..(k.nextBlockHeight - 1) :
              \E c \in Outstanding(k) : Height(c) = h
        /\ k.stored < k.nextConnectHeight /\ k.nextConnectHeight <= k.nextBlockHeight
    BY <1>2 DEF InOrder
  <2>5. Due(k) = {b}
    <3>1. ASSUME NEW c \in Due(k) PROVE c = b
      BY <2>2, <2>4 DEF Due, Outstanding
    <3>2. QED
      BY <3>1
  <2>6. Outstanding(m) = Outstanding(k) \ {b}
    BY <2>1, <2>2, <2>4, <2>5 DEF Outstanding, SameDownload
  <2>7. m.stored = k.nextConnectHeight
    BY <2>1, <2>2, <2>4, <1>1
  <2>8. InOrder(m)
    <3>1. m.pendingBlocks \cap m.blockBuffer = {}
      BY <2>1, <2>4 DEF SameDownload
    <3>2. \A c, d \in Outstanding(m) : Height(c) = Height(d) => c = d
      BY <2>4, <2>6
    <3>3. m.nextBlockHeight = k.nextBlockHeight
      BY <2>1 DEF SameDownload
    <3>4. ASSUME NEW c \in Outstanding(m) PROVE Height(c) \in m.nextConnectHeight..(m.nextBlockHeight - 1)
      <4>1. c \in Outstanding(k) /\ c # b
        BY <2>6
      <4>2. b \in Outstanding(k)
        BY <2>2 DEF Outstanding
      <4>3. Height(c) # Height(b)
        BY <4>1, <4>2, <2>4
      <4>4. Height(c) \in k.nextConnectHeight..(k.nextBlockHeight - 1)
        BY <4>1, <2>4
      <4>5. QED
        BY <4>3, <4>4, <3>3, <2>1, <2>2, <1>1
    <3>5. ASSUME NEW h \in m.nextConnectHeight..(m.nextBlockHeight - 1)
          PROVE  \E c \in Outstanding(m) : Height(c) = h
      <4>1. h \in k.nextConnectHeight..(k.nextBlockHeight - 1) /\ h # Height(b)
        BY <3>3, <2>1, <2>2, <1>1
      <4>2. PICK c \in Outstanding(k) : Height(c) = h
        BY <4>1, <2>4
      <4>3. QED
        BY <4>1, <4>2, <2>6
    <3>6. m.stored < m.nextConnectHeight
      BY <2>7, <2>1, <1>1
    <3>7. m.nextConnectHeight <= m.nextBlockHeight
      <4>1. b \in Outstanding(k)
        BY <2>2 DEF Outstanding
      <4>2. Height(b) \in k.nextConnectHeight..(k.nextBlockHeight - 1)
        BY <4>1, <2>4
      <4>3. QED
        BY <4>2, <3>3, <2>1, <2>2, <1>1
    <3>8. QED
      BY <3>1, <3>2, <3>4, <3>5, <3>6, <3>7 DEF InOrder
  <2>9. m.nextConnectHeight = m.stored + 1
    BY <2>7, <2>1
  <2>10. Cardinality(m.blockBuffer) + i = Cardinality(n.blockBuffer)
    <3>1. Cardinality(k.blockBuffer) + (i - 1) = Cardinality(n.blockBuffer)
      BY <1>2, <1>5
    <3>2. IsFiniteSet(k.blockBuffer)
      BY <1>1, FS_Subset
    <3>3. Cardinality(k.blockBuffer) \in Nat
      BY <3>2, FS_CardinalityType
    <3>4. Cardinality(m.blockBuffer) = Cardinality(k.blockBuffer) - 1
      <4>1. m.blockBuffer = k.blockBuffer \ {b}
        BY <2>1, <2>5
      <4> HIDE DEF k
      <4>2. Cardinality(k.blockBuffer \ {b}) = Cardinality(k.blockBuffer) - 1
        BY <3>2, <2>2, FS_RemoveElement
      <4>3. QED
        BY <4>1, <4>2
    <3>5. QED
      BY <3>1, <3>3, <3>4
  <2>11. QED
    BY <2>3, <2>8, <2>9, <2>10 DEF Ordered
<1>6. QED
  BY <1>1, <1>3, <1>4, <1>5, ConnectDueCases

LEMMA DrainFacts ==
    ASSUME NEW n, Known(n), IsFiniteSet(n.blockBuffer)
    PROVE  \A s \in Drain(n) : Drained(s, n)
<1> DEFINE U == {s \in Drains : Drained(s, n)}
           N == Cardinality(n.blockBuffer)
           V == [i \in 0..N |-> U]
<1>1. N \in Nat
  BY FS_CardinalityType
<1>2. [n |-> n, failed |-> FALSE] \in U
  BY DEF Known, Drains, Drained, SameDownload
<1>3. \A s \in U : ConnectDue(s) \in U
  BY ConnectDueFacts DEF Drained
<1>4. \A s \in U : Drained(s, n)
  OBVIOUS
<1> HIDE DEF U
<1>5. \A i \in 0..N : V[i] = U
  OBVIOUS
<1>6. 0 \in 0..N /\ N \in 0..N /\ \A i \in 1..N : i \in 0..N /\ i - 1 \in 0..N
  BY <1>1
<1> HIDE DEF V
<1>7. Drain(n) \subseteq V[N]
  BY <1>2, <1>3, <1>5, <1>6, DrainStays
<1>8. QED
  BY <1>4, <1>5, <1>6, <1>7

\* When the loops end, nothing that is in the buffer is due.
LEMMA DrainInOrder ==
    ASSUME NEW n, Known(n), IsFiniteSet(n.blockBuffer), InOrder(n)
    PROVE  \A s \in Drain(n) :
              /\ Drained(s, n) /\ InOrder(s.n)
              /\ s.n = n \/ s.n.nextConnectHeight = s.n.stored + 1
              /\ s.failed \/ Due(s.n) = {}
              /\ s.failed => \E b \in Due(s.n) : ~Connectable(s.n, b)
<1> DEFINE N == Cardinality(n.blockBuffer)
           V == [i \in 0..N |-> {s \in Drains : Drained(s, n) /\ Ordered(s, n, i)}]
           base == [n |-> n, failed |-> FALSE]
<1>1. N \in Nat
  BY FS_CardinalityType
<1>2. base \in V[0]
  <2>1. base \in Drains /\ Drained(base, n)
    BY DEF Known, Drains, Drained, SameDownload
  <2>2. base.n = n /\ base.failed = FALSE
    OBVIOUS
  <2> HIDE DEF base
  <2>3. Cardinality(base.n.blockBuffer) + 0 = Cardinality(n.blockBuffer)
    BY <1>1, <2>2
  <2>4. Ordered(base, n, 0)
    BY <2>2, <2>3 DEF Ordered
  <2>5. QED
    BY <1>1, <2>1, <2>4
<1>3. ASSUME NEW i \in 1..N, NEW s \in V[i - 1] PROVE ConnectDue(s) \in V[i]
  <2>1. i - 1 \in 0..N /\ i \in 0..N /\ i \in Nat \ {0}
    BY <1>1
  <2>2. Drained(s, n) /\ Ordered(s, n, i - 1)
    BY <2>1
  <2>3. Drained(ConnectDue(s), n) /\ Ordered(ConnectDue(s), n, i)
    BY <2>1, <2>2, ConnectDueFacts, ConnectDueInOrder
  <2>4. QED
    BY <2>1, <2>3 DEF Drained
<1>4. V[N] = {s \in Drains : Drained(s, n) /\ Ordered(s, n, N)}
  BY <1>1
<1> HIDE DEF V
<1>5. Drain(n) \subseteq V[N]
  BY <1>2, <1>3, DrainStays
<1>6. ASSUME NEW s \in Drain(n)
      PROVE  /\ Drained(s, n) /\ InOrder(s.n)
             /\ s.n = n \/ s.n.nextConnectHeight = s.n.stored + 1
             /\ s.failed \/ Due(s.n) = {}
             /\ s.failed => \E b \in Due(s.n) : ~Connectable(s.n, b)
  <2>1. Drained(s, n) /\ Ordered(s, n, N)
    BY <1>4, <1>5
  <2>2. ASSUME ~s.failed, Due(s.n) # {} PROVE FALSE
    <3>1. Cardinality(s.n.blockBuffer) + N = N
      BY <2>1, <2>2 DEF Ordered
    <3>2. s.n.blockBuffer \subseteq n.blockBuffer
      BY <2>1 DEF Drained
    <3>3. IsFiniteSet(s.n.blockBuffer)
      BY <3>2, FS_Subset
    <3>4. Cardinality(s.n.blockBuffer) = 0
      BY <1>1, <3>1, <3>3, FS_CardinalityType
    <3>5. s.n.blockBuffer = {}
      BY <3>3, <3>4, FS_EmptySet
    <3>6. QED
      BY <3>5, <2>2 DEF Due
  <2>3. QED
    BY <2>1, <2>2 DEF Ordered
<1>7. QED
  BY <1>6

\* The blocks stay what they were, and one of them has come.
Arrived(n, b) == Buffered([n EXCEPT !.pendingBlocks = @ \ {b}], b)

LEMMA ArrivedFacts ==
    ASSUME NEW n, Base(n), Fits(n), InOrder(n), NEW b \in n.pendingBlocks
    PROVE  LET m == Arrived(n, b) IN
           /\ Base(m) /\ Fits(m) /\ InOrder(m) /\ SameChain(m, n)
           /\ m.state = n.state /\ m.syncPeerId = n.syncPeerId /\ m.compacted = n.compacted
           /\ m.up = n.up /\ m.banned = n.banned /\ m.nextConnectHeight = n.nextConnectHeight
           /\ m.blockBuffer = n.blockBuffer \cup {b} /\ m.pendingBlocks = n.pendingBlocks \ {b}
<1> DEFINE pend == n.pendingBlocks \ {b}
           buffer == n.blockBuffer \cup {b}
           m == [n EXCEPT !.pendingBlocks = pend, !.blockBuffer = buffer]
<1>1. /\ n \in Nodes /\ ChainInv(n) /\ PeersInv(n) /\ n.pendingBlocks \in SUBSET Blocks
      /\ n.blockBuffer \in SUBSET Blocks
  BY DEF Base, Known, Nodes
<1>2. {c \in n.blockBuffer : Height(c) # Height(b)} = n.blockBuffer
  <2>1. \A c, d \in Outstanding(n) : Height(c) = Height(d) => c = d
    BY DEF InOrder
  <2>2. n.pendingBlocks \cap n.blockBuffer = {}
    BY DEF InOrder
  <2>3. QED
    BY <2>1, <2>2 DEF Outstanding
<1>3. Arrived(n, b) = m
  <2>1. Arrived(n, b) = [[n EXCEPT !.pendingBlocks = pend] EXCEPT
                            !.blockBuffer = {c \in n.blockBuffer : Height(c) # Height(b)} \cup {b}]
    BY <1>1 DEF Arrived, Buffered, Nodes
  <2>2. Arrived(n, b) = [[n EXCEPT !.pendingBlocks = pend] EXCEPT !.blockBuffer = buffer]
    BY <2>1, <1>2
  <2> HIDE DEF pend, buffer
  <2>3. QED
    BY <2>2, <1>1 DEF Nodes
<1>4. pend \in SUBSET Blocks /\ buffer \in SUBSET Blocks
  BY <1>1
<1> HIDE DEF pend, buffer
<1>5. m \in Nodes
  BY <1>1, <1>4, Zenon DEF Nodes
<1>6. /\ m.pendingBlocks = pend /\ m.blockBuffer = buffer /\ SameChain(m, n) /\ m.asked = n.asked
      /\ m.state = n.state /\ m.syncPeerId = n.syncPeerId /\ m.compacted = n.compacted
      /\ m.up = n.up /\ m.banned = n.banned /\ m.nextConnectHeight = n.nextConnectHeight
      /\ m.nextBlockHeight = n.nextBlockHeight
  BY <1>1 DEF Nodes, SameChain
<1> HIDE DEF m
<1>7. Base(m)
  BY <1>1, <1>5, <1>6 DEF Base, Known, ChainInv, PeersInv, SameChain, TipHeight
<1>8. Outstanding(m) = Outstanding(n) /\ m.pendingBlocks \cap m.blockBuffer = {}
  <2>1. n.pendingBlocks \cap n.blockBuffer = {}
    BY DEF InOrder
  <2>2. QED
    BY <2>1, <1>6 DEF Outstanding, pend, buffer
<1>9. InOrder(m)
  BY <1>6, <1>8 DEF InOrder, SameChain
<1>10. Fits(m)
  <2>1. /\ IsFiniteSet(n.pendingBlocks) /\ IsFiniteSet(n.blockBuffer)
        /\ Cardinality(n.pendingBlocks) + Cardinality(n.blockBuffer) <= Window
    BY DEF Fits
  <2>2. Cardinality(n.pendingBlocks) \in Nat /\ Cardinality(n.blockBuffer) \in Nat
    BY <2>1, FS_CardinalityType
  <2>3. IsFiniteSet(pend) /\ Cardinality(pend) = Cardinality(n.pendingBlocks) - 1
    BY <2>1, FS_RemoveElement DEF pend
  <2>4. b \notin n.blockBuffer
    BY DEF InOrder
  <2>5. IsFiniteSet(buffer) /\ Cardinality(buffer) = Cardinality(n.blockBuffer) + 1
    BY <2>1, <2>4, FS_AddElement DEF buffer
  <2>6. Cardinality(pend) + Cardinality(buffer) <= Window
    BY <2>1, <2>2, <2>3, <2>5, PeersAssumption
  <2>7. QED
    BY <2>3, <2>5, <2>6, <1>6 DEF Fits
<1>11. QED
  BY <1>3, <1>6, <1>7, <1>9, <1>10 DEF pend, buffer

LEMMA CaughtUpFacts ==
    ASSUME NEW n, Base(n)
    PROVE  NodeInv(CaughtUp(n)) /\ Kept(CaughtUp(n), n)
<1> DEFINE k == GiveUp(n, "synced")
           m == CaughtUp(n)
<1>1. Base(k) /\ NoQueue(k) /\ k.state = "synced" /\ k.banned = n.banned
  BY GiveUpFacts
<1>2. m = RequestHeadersFromAllPeers(k)
  BY DEF CaughtUp
<1> HIDE DEF k, m
<1>3. Base(m) /\ NoQueue(m) /\ m.state = "synced" /\ m.banned = n.banned
  BY <1>1, <1>2, RequestFromAllFacts DEF NoQueue
<1>4. QED
  BY <1>3, RestingNode DEF Kept, m

\* A download in order from p.
InDownload(n, p) ==
    /\ Base(n) /\ Fits(n) /\ InOrder(n) /\ n.syncPeerId = p /\ n.up[p] # "off"
    /\ n.state = "syncingBlocks" /\ ~n.compacted

LEMMA InDownloadInv ==
    ASSUME NEW n, NEW p \in Peers, InDownload(n, p), n.pendingBlocks # {}
    PROVE  NodeInv(n)
  BY DEF InDownload, Base, Known, NodeInv, SyncPeerInv, HeaderTimer, WindowInv, QueueInv, Fits

LEMMA BlockRejected ==
    ASSUME NEW n, Base(n), NEW p \in Peers
    PROVE  \A m \in SyncElsewhere(GiveUp(Ban(n, p), "idle"), p) : NodeInv(m) /\ Punished(m, n, p)
<1> DEFINE j == Ban(n, p)
           k == GiveUp(j, "idle")
<1>1. Base(j) /\ j.banned = n.banned \cup {p}
  BY BanFacts
<1> HIDE DEF j
<1>2. Base(k) /\ NoQueue(k) /\ k.state = "idle" /\ k.banned = j.banned
  BY <1>1, GiveUpFacts
<1> HIDE DEF k
<1>3. \A m \in SyncElsewhere(k, p) : NodeInv(m) /\ Kept(m, k)
  BY <1>2, SyncElsewhereFacts
<1>4. \A m : Kept(m, k) => Punished(m, n, p)
  BY <1>1, <1>2 DEF Kept, Punished
<1>5. QED
  BY <1>3, <1>4 DEF j, k

\* When the loops end and the tip is not reached, more blocks are in flight or requested.
LEMMA PendingConnectedFacts ==
    ASSUME NEW n, NEW p \in Peers, InDownload(n, p), n.blockBuffer # {}, NEW s \in Drain(n)
    PROVE  \A m \in PendingConnected(s, p) :
              NodeInv(m) /\ (Kept(m, n) \/ (Punished(m, n, p) /\ s.failed))
<1> DEFINE k == s.n
           outstanding == Cardinality(k.pendingBlocks) + Cardinality(k.blockBuffer)
<1>1. /\ Base(n) /\ Known(n) /\ Fits(n) /\ InOrder(n) /\ n.state = "syncingBlocks" /\ ~n.compacted
      /\ n.syncPeerId = p /\ n.up[p] # "off" /\ IsFiniteSet(n.blockBuffer) /\ PeersInv(n)
  BY DEF InDownload, Fits, Base
<1>2. /\ Drained(s, n) /\ InOrder(k)
      /\ k = n \/ k.nextConnectHeight = k.stored + 1
      /\ s.failed \/ Due(k) = {}
  BY <1>1, DrainInOrder
<1>3. /\ s \in Drains /\ Known(k) /\ SameDownload(k, n) /\ k.blockBuffer \subseteq n.blockBuffer
  BY <1>2 DEF Drained
<1>4. Base(k) /\ k.banned = n.banned
  BY <1>1, <1>3 DEF Base, PeersInv, SameDownload
<1>5. Fits(k)
  <2>1. k.pendingBlocks = n.pendingBlocks
    BY <1>3 DEF SameDownload
  <2>2. IsFiniteSet(k.blockBuffer) /\ Cardinality(k.blockBuffer) <= Cardinality(n.blockBuffer)
    BY <1>1, <1>3, FS_Subset
  <2>3. /\ Cardinality(k.blockBuffer) \in Nat /\ Cardinality(n.blockBuffer) \in Nat
        /\ Cardinality(n.pendingBlocks) \in Nat
    BY <2>2, <1>1, FS_CardinalityType DEF Fits
  <2>4. Cardinality(n.pendingBlocks) + Cardinality(n.blockBuffer) <= Window
    BY <1>1 DEF Fits
  <2>5. Cardinality(k.pendingBlocks) + Cardinality(k.blockBuffer) <= Window
    BY <2>1, <2>2, <2>3, <2>4, PeersAssumption
  <2>6. QED
    BY <2>1, <2>2, <2>5, <1>1 DEF Fits
<1>6. InDownload(k, p)
  BY <1>1, <1>2, <1>3, <1>4, <1>5 DEF InDownload, SameDownload
<1>7. Kept(k, n)
  BY <1>1, <1>3, <1>4 DEF Kept, SameDownload
<1>8. PendingConnected(s, p) =
        CASE s.failed -> SyncElsewhere(GiveUp(Ban(k, p), "idle"), p)
          [] ~s.failed /\ k.stored >= TipHeight(k) -> {CaughtUp(k)}
          [] ~s.failed /\ k.stored < TipHeight(k) /\ outstanding <= Window \div 2 -> {RequestBlocks(k, p)}
          [] OTHER -> {k}
  BY DEF PendingConnected, Then
<1>9. k.stored \in Nat /\ TipHeight(k) \in Nat /\ k.nextConnectHeight \in Nat /\ k.nextBlockHeight \in Nat
  BY <1>3, BestChainFacts DEF Known, Nodes
<1> HIDE DEF k, outstanding
<1>10. CASE s.failed
  <2>1. \A m \in SyncElsewhere(GiveUp(Ban(k, p), "idle"), p) : NodeInv(m) /\ Punished(m, k, p)
    BY <1>4, BlockRejected
  <2>2. \A m : Punished(m, k, p) => Punished(m, n, p)
    BY <1>4 DEF Punished
  <2>3. PendingConnected(s, p) = SyncElsewhere(GiveUp(Ban(k, p), "idle"), p)
    BY <1>8, <1>10
  <2>4. QED
    BY <2>1, <2>2, <2>3, <1>10
<1>11. CASE ~s.failed /\ k.stored >= TipHeight(k)
  <2>1. PendingConnected(s, p) = {CaughtUp(k)}
    <3>1. ~(k.stored < TipHeight(k))
      BY <1>9, <1>11
    <3>2. QED
      BY <3>1, <1>8, <1>11
  <2>2. NodeInv(CaughtUp(k)) /\ Kept(CaughtUp(k), k)
    BY <1>4, CaughtUpFacts
  <2>3. \A m : Kept(m, k) => Kept(m, n)
    BY <1>3, <1>4, <1>7 DEF Kept, SameDownload
  <2>4. QED
    BY <2>1, <2>2, <2>3
<1>12. CASE ~s.failed /\ k.stored < TipHeight(k)
  <2>1. PendingConnected(s, p) = IF outstanding <= Window \div 2 THEN {RequestBlocks(k, p)} ELSE {k}
    <3>1. ~(k.stored >= TipHeight(k))
      BY <1>9, <1>12
    <3>2. QED
      BY <3>1, <1>8, <1>12
  <2>2. ASSUME k.pendingBlocks = {} PROVE k.blockBuffer = {} /\ k.nextBlockHeight <= TipHeight(k)
    <3>1. /\ Outstanding(k) = k.blockBuffer
          /\ \A b \in Outstanding(k) : Height(b) \in k.nextConnectHeight..(k.nextBlockHeight - 1)
          /\ \A h \in k.nextConnectHeight..(k.nextBlockHeight - 1) : \E b \in Outstanding(k) : Height(b) = h
          /\ k.nextConnectHeight <= k.nextBlockHeight
      BY <2>2, <1>2 DEF InOrder, Outstanding, k
    <3>2. Due(k) = {}
      BY <1>2, <1>12 DEF k
    <3>3. ~(k.nextConnectHeight \in k.nextConnectHeight..(k.nextBlockHeight - 1))
      BY <3>1, <3>2 DEF Due
    <3>4. k.nextConnectHeight = k.nextBlockHeight
      BY <3>1, <3>3, <1>9
    <3>5. k.blockBuffer = {}
      BY <3>1, <3>4, <1>9
    <3>6. k.nextConnectHeight = k.stored + 1
      BY <3>5, <1>2 DEF k
    <3>7. QED
      BY <3>4, <3>5, <3>6, <1>9, <1>12
  <2>3. CASE outstanding <= Window \div 2
    <3> DEFINE m == RequestBlocks(k, p)
    <3>1. /\ Base(m) /\ Fits(m) /\ InOrder(m)
          /\ m.state = k.state /\ m.syncPeerId = k.syncPeerId /\ m.compacted = k.compacted
          /\ m.up = k.up /\ m.banned = k.banned
          /\ m.blockBuffer = k.blockBuffer /\ k.pendingBlocks \subseteq m.pendingBlocks
          /\ k.blockBuffer = {} /\ k.pendingBlocks = {} /\ k.nextBlockHeight <= TipHeight(k) =>
                m.pendingBlocks # {}
      BY <1>6, RequestBlocksFacts DEF InDownload
    <3> HIDE DEF m
    <3>2. m.pendingBlocks # {}
      BY <3>1, <2>2
    <3>3. NodeInv(m)
      BY <3>1, <3>2, <1>6, InDownloadInv DEF InDownload
    <3>4. Kept(m, n)
      BY <3>1, <1>7 DEF Kept
    <3>5. QED
      BY <2>1, <2>3, <3>3, <3>4 DEF m
  <2>4. CASE ~(outstanding <= Window \div 2)
    <3>1. k.pendingBlocks # {}
      <4>1. SUFFICES ASSUME k.pendingBlocks = {} PROVE FALSE
        OBVIOUS
      <4>2. outstanding = 0
        BY <4>1, <2>2, FS_EmptySet DEF outstanding
      <4>3. QED
        BY <4>2, <2>4, PeersAssumption
    <3>2. NodeInv(k)
      BY <3>1, <1>6, InDownloadInv
    <3>3. QED
      BY <2>1, <2>4, <3>2, <1>7
  <2>5. QED
    BY <2>3, <2>4
<1>13. QED
  BY <1>9, <1>10, <1>11, <1>12

\* The buffer may have one block more, from the sync peer.
Gained(m, n, p, b) ==
    /\ m.banned = n.banned
    /\ m.state = "syncingBlocks" /\ ~m.compacted /\ m.blockBuffer # {} =>
        /\ n.state = "syncingBlocks" /\ ~n.compacted
        /\ m.syncPeerId = n.syncPeerId
        /\ \/ m.blockBuffer \subseteq n.blockBuffer
           \/ n.syncPeerId = p /\ m.blockBuffer \subseteq n.blockBuffer \cup {b}

\* A block bans the peer when one that was delivered is invalid, or the download is stale.
BlockBan(n, p, b) ==
    /\ n.state = "syncingBlocks" /\ n.syncPeerId = p /\ ~n.compacted
    /\ \/ \E c \in n.blockBuffer \cup {b} : c \in Invalid
       \/ n.nextConnectHeight # n.stored + 1
       \/ \E c \in n.blockBuffer : ~OnBestChain(n, c)

\* The reasons for a failure, traced back to the download before the block came.
LEMMA FailureCause ==
    ASSUME NEW n, NEW p \in Peers, InDownload(n, p), NEW b \in n.pendingBlocks, OnBestChain(n, b),
           NEW s \in Drain(Arrived(n, b)), s.failed
    PROVE  BlockBan(n, p, b)
<1> DEFINE a == Arrived(n, b)
           k == s.n
<1>1. /\ Base(n) /\ Fits(n) /\ InOrder(n) /\ n.state = "syncingBlocks" /\ ~n.compacted
      /\ n.syncPeerId = p /\ n.up[p] # "off"
  BY DEF InDownload
<1>2. /\ Base(a) /\ Fits(a) /\ InOrder(a) /\ SameChain(a, n) /\ a.blockBuffer = n.blockBuffer \cup {b}
      /\ a.nextConnectHeight = n.nextConnectHeight
  BY <1>1, ArrivedFacts
<1> HIDE DEF a
<1>3. /\ Drained(s, a) /\ InOrder(k)
      /\ k = a \/ k.nextConnectHeight = k.stored + 1
      /\ \E c \in Due(k) : ~Connectable(k, c)
  BY <1>2, DrainInOrder DEF Base, Fits, a
<1>4. Known(k) /\ SameDownload(k, a) /\ k.blockBuffer \subseteq a.blockBuffer
  BY <1>3 DEF Drained
<1>5. PICK c \in Due(k) : ~Connectable(k, c)
  BY <1>3
<1>6. c \in n.blockBuffer \cup {b} /\ Height(c) = k.nextConnectHeight
  BY <1>2, <1>4, <1>5 DEF Due
<1>7. ASSUME c \notin Invalid, OnBestChain(n, c) PROVE n.nextConnectHeight # n.stored + 1
  <2>1. OnBestChain(k, c)
    BY <1>2, <1>4, <1>7 DEF OnBestChain, TipHeight, SameChain, SameDownload
  <2>2. Height(c) # k.stored + 1
    BY <2>1, <1>5, <1>7 DEF Connectable
  <2>3. k = a
    BY <2>2, <1>3, <1>6
  <2>4. QED
    BY <2>2, <2>3, <1>2, <1>6 DEF SameChain
<1>8. QED
  BY <1>1, <1>6, <1>7 DEF BlockBan

LEMMA OnBlockFacts ==
    ASSUME NEW n, NodeInv(n), NEW p \in Peers, NEW b \in Blocks
    PROVE  \A m \in OnBlock(n, p, b) :
              NodeInv(m) /\ (Gained(m, n, p, b) \/ (Punished(m, n, p) /\ BlockBan(n, p, b)))
<1>1. CASE ~(/\ n.syncPeerId = p /\ n.state = "syncingBlocks"
             /\ OnBestChain(n, b) /\ b \in n.pendingBlocks)
  BY <1>1 DEF OnBlock, Gained
<1>2. CASE /\ n.syncPeerId = p /\ n.state = "syncingBlocks"
           /\ OnBestChain(n, b) /\ b \in n.pendingBlocks
  <2> DEFINE a == Arrived(n, b)
  <2>1. InDownload(n, p) /\ n.compacted \in BOOLEAN
    BY <1>2 DEF NodeInv, InDownload, Base, Known, Nodes, SyncPeerInv, WindowInv, QueueInv, Fits
  <2>2. OnBlock(n, p, b) = UNION {PendingConnected(s, p) : s \in Drain(a)}
    BY <1>2 DEF OnBlock, ConnectPending, Arrived
  <2>3. /\ Base(a) /\ Fits(a) /\ InOrder(a)
        /\ a.state = n.state /\ a.syncPeerId = n.syncPeerId /\ a.compacted = n.compacted
        /\ a.up = n.up /\ a.banned = n.banned /\ a.blockBuffer = n.blockBuffer \cup {b}
    BY <2>1, <1>2, ArrivedFacts DEF InDownload
  <2>4. \A s \in Drain(a) : s.failed => BlockBan(n, p, b)
    BY <2>1, <1>2, FailureCause
  <2> HIDE DEF a
  <2>5. InDownload(a, p) /\ a.blockBuffer # {}
    BY <2>1, <2>3 DEF InDownload
  <2>6. ASSUME NEW s \in Drain(a), NEW m \in PendingConnected(s, p)
        PROVE  NodeInv(m) /\ (Gained(m, n, p, b) \/ (Punished(m, n, p) /\ BlockBan(n, p, b)))
    <3>1. NodeInv(m) /\ (Kept(m, a) \/ (Punished(m, a, p) /\ s.failed))
      BY <2>5, PendingConnectedFacts
    <3>2. Kept(m, a) => Gained(m, n, p, b)
      BY <1>2, <2>3 DEF Kept, Gained
    <3>3. Punished(m, a, p) => Punished(m, n, p)
      BY <2>3 DEF Punished
    <3>4. QED
      BY <3>1, <3>2, <3>3, <2>4
  <2>7. QED
    BY <2>2, <2>6
<1>3. QED
  BY <1>1, <1>2

-----------------------------------------------------------------------------
(* Lemmas about compact blocks *)

SameRest(m, n) ==
    /\ m.state = n.state /\ m.syncPeerId = n.syncPeerId /\ m.lastHeaderRequest = n.lastHeaderRequest
    /\ m.pendingBlocks = n.pendingBlocks /\ m.blockBuffer = n.blockBuffer
    /\ m.nextConnectHeight = n.nextConnectHeight /\ m.nextBlockHeight = n.nextBlockHeight
    /\ m.compacted = n.compacted /\ m.up = n.up /\ m.banned = n.banned

\* Requests and the pending compact block play no part in the invariant.
LEMMA RequestsMayChange ==
    ASSUME NEW n, NodeInv(n), NEW m, Base(m), SameRest(m, n), SameChain(m, n)
    PROVE  NodeInv(m) /\ Kept(m, n)
<1>1. m \in Nodes /\ ChainInv(m) /\ PeersInv(m)
  BY DEF Base, Known
<1>2. SyncPeerInv(m) /\ HeaderTimer(m) /\ WindowInv(m)
  BY DEF NodeInv, SameRest, SyncPeerInv, HeaderTimer, WindowInv
<1>3. InOrder(n) => InOrder(m)
  BY DEF InOrder, Outstanding, SameRest, SameChain
<1>4. QueueInv(m)
  BY <1>3 DEF NodeInv, QueueInv, SameRest
<1>5. Kept(m, n)
  BY DEF Kept, SameRest
<1>6. QED
  BY <1>1, <1>2, <1>4, <1>5 DEF NodeInv

LEMMA BlockRequestTyped ==
    ASSUME NEW b \in Blocks
    PROVE  BlockRequests({b}) \in SUBSET Requests
  BY DEF BlockRequests, Requests

\* The pending compact block changes, and something is asked for.
LEMMA AskAboutFacts ==
    ASSUME NEW n, NodeInv(n), NEW p \in Peers, NEW c \in Blocks \cup {None}, NEW rs \in SUBSET Requests
    PROVE  LET k == [n EXCEPT !.pendingCompactBlock = c]
               m == Ask(k, p, rs)
           IN  NodeInv(k) /\ Kept(k, n) /\ NodeInv(m) /\ Kept(m, n)
<1> DEFINE k == [n EXCEPT !.pendingCompactBlock = c]
           m == Ask(k, p, rs)
<1>1. n \in Nodes /\ ChainInv(n) /\ PeersInv(n)
  BY DEF NodeInv
<1>2. k \in Nodes
  BY <1>1 DEF Nodes
<1>3. SameRest(k, n) /\ SameChain(k, n) /\ k.asked = n.asked
  BY <1>1 DEF Nodes, SameRest, SameChain
<1> HIDE DEF k
<1>4. Base(k)
  BY <1>1, <1>2, <1>3 DEF Base, Known, ChainInv, PeersInv, SameChain, SameRest, TipHeight
<1>5. Base(m) /\ SameRest(m, k) /\ SameChain(m, k)
  BY <1>4, AskFacts DEF SameRest
<1> HIDE DEF m
<1>6. SameRest(m, n) /\ SameChain(m, n)
  BY <1>3, <1>5 DEF SameRest, SameChain
<1>7. QED
  BY <1>3, <1>4, <1>5, <1>6, RequestsMayChange DEF k, m

\* A download that has one block left, and no request.
LEMMA DrainBlockBufferFacts ==
    ASSUME NEW n, Base(n), n.state = "syncingBlocks", n.compacted = TRUE,
           NEW p \in Peers, n.syncPeerId = p, n.up[p] # "off",
           n.pendingBlocks = {}, NEW b, n.blockBuffer = {b}
    PROVE  \A m \in DrainBlockBuffer(n) : NodeInv(m) /\ Kept(m, n)
<1>1. IsFiniteSet({b}) /\ Cardinality({b}) = 1
  BY FS_Singleton
<1>2. \A s \in Drain(n) : Drained(s, n)
  BY <1>1, DrainFacts DEF Base
<1>3. ASSUME NEW s \in Drain(n),
             NEW m \in CASE s.failed -> RecoverOrphanedHeaders(GiveUp(s.n, "idle"))
                         [] ~s.failed /\ s.n.stored >= TipHeight(s.n) -> {CaughtUp(s.n)}
                         [] OTHER -> {s.n}
      PROVE  NodeInv(m) /\ Kept(m, n)
  <2> DEFINE k == s.n
             idle == GiveUp(k, "idle")
  <2>1. Known(k) /\ SameDownload(k, n) /\ k.blockBuffer \subseteq n.blockBuffer
    BY <1>2 DEF Drained
  <2>2. Base(k) /\ k.banned = n.banned
    BY <2>1 DEF Base, PeersInv, SameDownload
  <2> HIDE DEF k
  <2>3. CASE m \in RecoverOrphanedHeaders(idle)
    <3>1. Base(idle) /\ NoQueue(idle) /\ idle.state = "idle" /\ idle.banned = k.banned
      BY <2>2, GiveUpFacts
    <3> HIDE DEF idle
    <3>2. NodeInv(m) /\ Kept(m, idle)
      BY <2>3, <3>1, RecoverFacts
    <3>3. QED
      BY <3>1, <3>2, <2>2 DEF Kept
  <2>4. CASE m = CaughtUp(k)
    <3>1. NodeInv(m) /\ Kept(m, k)
      BY <2>2, <2>4, CaughtUpFacts
    <3>2. QED
      BY <3>1, <2>1, <2>2 DEF Kept, SameDownload
  <2>5. CASE m = k
    <3>1. /\ k.state = "syncingBlocks" /\ k.compacted = TRUE /\ k.syncPeerId = p /\ k.up[p] # "off"
          /\ k.pendingBlocks = {}
      BY <2>1 DEF SameDownload
    <3>2. IsFiniteSet(k.blockBuffer) /\ Cardinality(k.blockBuffer) <= 1
      BY <2>1, <1>1, FS_Subset
    <3>3. Cardinality({}) + Cardinality(k.blockBuffer) <= Window /\ IsFiniteSet({})
      BY <3>2, FS_EmptySet, FS_CardinalityType, PeersAssumption
    <3>4. WindowInv(k)
      BY <3>1, <3>2, <3>3 DEF WindowInv
    <3>5. NodeInv(k)
      BY <3>1, <3>4, <2>2 DEF NodeInv, Base, Known, SyncPeerInv, HeaderTimer, QueueInv
    <3>6. QED
      BY <3>1, <3>5, <2>2, <2>5 DEF Kept
  <2>6. QED
    BY <2>3, <2>4, <2>5 DEF k
<1>4. QED
  BY <1>3 DEF DrainBlockBuffer

LEMMA ReconstructedTyped ==
    ASSUME NEW n \in Nodes, NEW p \in Peers, NEW h \in Nat, NEW bs \in SUBSET Blocks
    PROVE  [n EXCEPT !.state = "syncingBlocks", !.syncPeerId = p,
                     !.nextBlockHeight = h + 1, !.nextConnectHeight = h,
                     !.pendingBlocks = {}, !.blockBuffer = bs, !.compacted = TRUE] \in Nodes
<1> DEFINE next == h + 1
<1>1. "syncingBlocks" \in States /\ p \in Peers \cup {None} /\ next \in Nat /\ {} \in SUBSET Blocks
  BY DEF States
<1> HIDE DEF next
<1>2. [n EXCEPT !.state = "syncingBlocks", !.syncPeerId = p,
                !.nextBlockHeight = next, !.nextConnectHeight = h,
                !.pendingBlocks = {}, !.blockBuffer = bs, !.compacted = TRUE] \in Nodes
  BY <1>1, Zenon DEF Nodes
<1>3. QED
  BY <1>2 DEF next

LEMMA ReconstructedFacts ==
    ASSUME NEW n, NodeInv(n), NEW p \in Peers, n.up[p] # "off", NEW b \in Blocks
    PROVE  \A m \in Reconstructed(n, p, b) : NodeInv(m) /\ Kept(m, n)
<1> DEFINE h == Height(b)
           bs == {b}
           k == [n EXCEPT !.state = "syncingBlocks", !.syncPeerId = p,
                          !.nextBlockHeight = h + 1, !.nextConnectHeight = h,
                          !.pendingBlocks = {}, !.blockBuffer = bs, !.compacted = TRUE]
<1>1. n \in Nodes /\ ChainInv(n) /\ PeersInv(n) /\ h \in Nat /\ bs \in SUBSET Blocks
  BY PathFacts DEF NodeInv
<1>2. Reconstructed(n, p, b) = DrainBlockBuffer(k)
  BY DEF Reconstructed
<1> HIDE DEF h
<1>3. /\ SameChain(k, n) /\ k.state = "syncingBlocks" /\ k.compacted = TRUE /\ k.syncPeerId = p
      /\ k.pendingBlocks = {} /\ k.blockBuffer = {b} /\ k.up = n.up /\ k.banned = n.banned
      /\ k.asked = n.asked
  BY <1>1 DEF Nodes, SameChain
<1> HIDE DEF bs
<1>4. k \in Nodes
  BY <1>1, ReconstructedTyped
<1> HIDE DEF k
<1>5. Base(k)
  BY <1>1, <1>3, <1>4 DEF Base, Known, ChainInv, PeersInv, SameChain, TipHeight
<1>6. \A m \in DrainBlockBuffer(k) : NodeInv(m) /\ Kept(m, k)
  BY <1>3, <1>5, DrainBlockBufferFacts
<1>7. \A m : Kept(m, k) => Kept(m, n)
  BY <1>3 DEF Kept
<1>8. QED
  BY <1>2, <1>6, <1>7

LEMMA OnBlockTxnFacts ==
    ASSUME NEW n, NodeInv(n), NEW p \in Peers, n.up[p] # "off", NEW b \in Blocks, NEW fits \in BOOLEAN
    PROVE  \A m \in OnBlockTxn(n, p, b, fits) : NodeInv(m) /\ Kept(m, n)
<1> DEFINE k == [n EXCEPT !.pendingCompactBlock = None]
           m == Ask(k, p, BlockRequests({b}))
<1>1. NodeInv(k) /\ Kept(k, n) /\ NodeInv(m) /\ Kept(m, n)
  BY BlockRequestTyped, AskAboutFacts
<1>2. NodeInv(n) /\ Kept(n, n)
  BY DEF Kept
<1>3. k.up = n.up
  BY DEF NodeInv, Nodes
<1>4. OnBlockTxn(n, p, b, fits) =
        CASE n.pendingCompactBlock # b -> {n}
          [] n.pendingCompactBlock = b /\ fits -> Reconstructed(k, p, b)
          [] OTHER -> {m}
  BY DEF OnBlockTxn
<1> HIDE DEF k, m
<1>5. \A j \in Reconstructed(k, p, b) : NodeInv(j) /\ Kept(j, k)
  BY <1>1, <1>3, ReconstructedFacts
<1>6. \A j : Kept(j, k) => Kept(j, n)
  BY <1>1 DEF Kept
<1>7. QED
  BY <1>1, <1>2, <1>4, <1>5, <1>6

LEMMA OnCompactBlockFacts ==
    ASSUME NEW n, NodeInv(n), NEW p \in Peers, n.up[p] # "off", NEW b \in Blocks,
           NEW complete \in BOOLEAN
    PROVE  \A m \in OnCompactBlock(n, p, b, complete) : NodeInv(m) /\ Kept(m, n)
<1> DEFINE a == Add(n, b)
           m == Heard(a, p, b)
           k == [n EXCEPT !.state = "syncingHeaders", !.syncPeerId = p]
           verdict == Verdict(n, b)
<1>1. n \in Nodes /\ ChainInv(n) /\ PeersInv(n) /\ Base(n) /\ Known(n) /\ Kept(n, n) /\ n.stored \in Nat
  BY DEF NodeInv, Base, Known, Kept, Nodes
<1>2. Known(a) /\ SameButChain(a, n) /\ a.stored <= n.stored
  BY <1>1, AddFacts
<1>3. Known(m) /\ SameButChain(m, n) /\ m.stored <= n.stored
  <2>1. Known(m) /\ SameButChain(m, a) /\ SameChain(m, a)
    BY <1>2, HeardFacts
  <2> HIDE DEF m, a
  <2>2. QED
    BY <1>2, <2>1 DEF SameButChain, SameChain
<1>4. NodeInv(a) /\ Kept(a, n)
  BY <1>2, ChainMayChange
<1> HIDE DEF a
<1>5. NodeInv(m) /\ Kept(m, n) /\ m.up = n.up
  BY <1>3, ChainMayChange DEF SameButChain
<1>6. OnCompactBlock(n, p, b, complete) =
        CASE n.state # "synced" -> {n}
          [] n.state = "synced" /\ verdict = "orphan" -> {RequestHeaders(k, p)}
          [] n.state = "synced" /\ verdict \in {"invalid", "failed"} -> {a}
          [] OTHER -> IF OnBestChain(m, b) /\ Height(b) <= m.stored THEN {m}
                      ELSE IF complete THEN Reconstructed(m, p, b)
                      ELSE {RequestMissing(m, p, b)}
  BY DEF OnCompactBlock, a
<1> HIDE DEF m, verdict
<1>7. n.state = "synced" => NodeInv(RequestHeaders(k, p)) /\ Kept(RequestHeaders(k, p), n)
  <2>1. SUFFICES ASSUME n.state = "synced" PROVE NodeInv(RequestHeaders(k, p)) /\ Kept(RequestHeaders(k, p), n)
    OBVIOUS
  <2>2. k \in Nodes
    BY <1>1, Zenon DEF Nodes, States
  <2>3. /\ SameChain(k, n) /\ k.state = "syncingHeaders" /\ k.syncPeerId = p /\ NoQueue(k)
        /\ k.up = n.up /\ k.banned = n.banned /\ k.asked = n.asked
    BY <1>1, <2>1 DEF Nodes, SameChain, NodeInv, WindowInv, NoQueue
  <2> HIDE DEF k
  <2>4. Base(k)
    BY <1>1, <2>2, <2>3 DEF Base, Known, ChainInv, PeersInv, SameChain, TipHeight
  <2>5. NodeInv(RequestHeaders(k, p)) /\ Kept(RequestHeaders(k, p), k)
    BY <2>3, <2>4, AskHeadersFacts
  <2>6. QED
    BY <2>3, <2>5 DEF Kept, NoQueue
<1>8. \A j \in Reconstructed(m, p, b) : NodeInv(j) /\ Kept(j, n)
  <2>1. \A j \in Reconstructed(m, p, b) : NodeInv(j) /\ Kept(j, m)
    BY <1>5, ReconstructedFacts
  <2>2. \A j : Kept(j, m) => Kept(j, n)
    BY <1>3, <1>5 DEF Kept, SameButChain
  <2>3. QED
    BY <2>1, <2>2
<1>9. NodeInv(RequestMissing(m, p, b)) /\ Kept(RequestMissing(m, p, b), n)
  <2> DEFINE rs == {[type |-> "txn", block |-> b]}
             j == RequestMissing(m, p, b)
  <2>1. rs \in SUBSET Requests
    BY DEF Requests
  <2>2. j = Ask([m EXCEPT !.pendingCompactBlock = b], p, rs)
    BY DEF RequestMissing
  <2> HIDE DEF rs, j
  <2>3. NodeInv(j) /\ Kept(j, m)
    BY <2>1, <2>2, <1>5, AskAboutFacts
  <2>4. Kept(j, n)
    BY <2>3, <1>3, <1>5 DEF Kept, SameButChain
  <2>5. QED
    BY <2>3, <2>4 DEF j
<1> HIDE DEF k
<1>10. QED
  BY <1>1, <1>4, <1>5, <1>6, <1>7, <1>8, <1>9

-----------------------------------------------------------------------------
(* Lemmas about connections, announcements and timers *)

LEMMA KeptTransitive ==
    ASSUME NEW m, NEW k, NEW n, Kept(m, k), Kept(k, n)
    PROVE  Kept(m, n)
<1>1. m.banned = n.banned
  BY DEF Kept
<1>2. ASSUME m.state = "syncingBlocks", ~m.compacted, m.blockBuffer # {}
      PROVE  /\ n.state = "syncingBlocks" /\ ~n.compacted
             /\ m.syncPeerId = n.syncPeerId /\ m.blockBuffer \subseteq n.blockBuffer
  <2>1. /\ k.state = "syncingBlocks" /\ ~k.compacted
        /\ m.syncPeerId = k.syncPeerId /\ m.blockBuffer \subseteq k.blockBuffer
    BY <1>2 DEF Kept
  <2>2. k.blockBuffer # {}
    BY <2>1, <1>2
  <2>3. /\ n.state = "syncingBlocks" /\ ~n.compacted
        /\ k.syncPeerId = n.syncPeerId /\ k.blockBuffer \subseteq n.blockBuffer
    BY <2>1, <2>2 DEF Kept
  <2>4. QED
    BY <2>1, <2>3
<1>3. QED
  BY <1>1, <1>2 DEF Kept

\* A download is given up, and another one may begin.
LEMMA GivenUpFacts ==
    ASSUME NEW n, Base(n)
    PROVE  LET k == GiveUp(n, "idle") IN
           \A m \in SyncWith(k, {q \in Handshaked(k) : Ahead(k, q)},
                             SyncedIfIdle(RecoverOrphanedHeaders(k))) :
              NodeInv(m) /\ Kept(m, n)
<1> DEFINE k == GiveUp(n, "idle")
           ps == {q \in Handshaked(k) : Ahead(k, q)}
           rest == SyncedIfIdle(RecoverOrphanedHeaders(k))
<1>1. Base(k) /\ NoQueue(k) /\ k.state = "idle" /\ k.banned = n.banned
  BY GiveUpFacts
<1>2. ps \in SUBSET Handshaked(k)
  OBVIOUS
<1> HIDE DEF k, ps
<1>3. \A m \in RecoverOrphanedHeaders(k) : NodeInv(m) /\ Kept(m, k)
  BY <1>1, RecoverFacts
<1>4. \A m \in rest : NodeInv(m) /\ Kept(m, k)
  BY <1>3, SyncedIfIdleFacts
<1> HIDE DEF rest
<1>5. \A m \in SyncWith(k, ps, rest) : NodeInv(m) /\ Kept(m, k)
  BY <1>1, <1>2, <1>4, SyncWithFacts
<1>6. \A m : Kept(m, k) => Kept(m, n)
  BY <1>1 DEF Kept, NoQueue
<1>7. QED
  BY <1>5, <1>6 DEF rest, ps, k

\* The peer is gone, with its requests.
Without(n, p) == [n EXCEPT !.up[p] = "off", !.asked[p] = {}, !.height[p] = 0]

LEMMA OnPeerDisconnectFacts ==
    ASSUME NEW n, NodeInv(n), NEW p \in Peers
    PROVE  \A m \in OnPeerDisconnect(Without(n, p), p) : NodeInv(m) /\ Kept(m, n)
<1> DEFINE up == [n.up EXCEPT ![p] = "off"]
           asked == [n.asked EXCEPT ![p] = {}]
           height == [n.height EXCEPT ![p] = 0]
           g == Without(n, p)
<1>1. /\ n \in Nodes /\ ChainInv(n) /\ PeersInv(n)
      /\ n.up \in [Peers -> {"off", "up", "closing"}]
      /\ n.asked \in [Peers -> SUBSET Requests] /\ n.height \in [Peers -> Nat]
  BY DEF NodeInv, Nodes
<1>2. g = [n EXCEPT !.up = up, !.asked = asked, !.height = height]
  BY <1>1 DEF Without, Nodes
<1>3. /\ up \in [Peers -> {"off", "up", "closing"}] /\ asked \in [Peers -> SUBSET Requests]
      /\ height \in [Peers -> Nat]
      /\ \A q \in Peers : q # p => up[q] = n.up[q] /\ asked[q] = n.asked[q]
      /\ asked[p] = {}
  BY <1>1
<1> HIDE DEF up, asked, height, g
<1>4. g \in Nodes
  BY <1>1, <1>2, <1>3, Zenon DEF Nodes
<1>5. /\ SameChain(g, n) /\ g.up = up /\ g.asked = asked
      /\ g.state = n.state /\ g.syncPeerId = n.syncPeerId /\ g.lastHeaderRequest = n.lastHeaderRequest
      /\ g.pendingBlocks = n.pendingBlocks /\ g.blockBuffer = n.blockBuffer
      /\ g.nextConnectHeight = n.nextConnectHeight /\ g.nextBlockHeight = n.nextBlockHeight
      /\ g.compacted = n.compacted /\ g.banned = n.banned
  BY <1>1, <1>2 DEF Nodes, SameChain
<1>6. PeersInv(g)
  <2>1. ASSUME NEW q \in Peers, g.asked[q] # {} PROVE g.up[q] # "off"
    BY <2>1, <1>1, <1>3, <1>5 DEF PeersInv
  <2>2. QED
    BY <2>1 DEF PeersInv
<1>7. Base(g)
  BY <1>1, <1>4, <1>5, <1>6 DEF Base, Known, ChainInv, SameChain, TipHeight
<1>8. CASE n.syncPeerId # p
  <2>1. OnPeerDisconnect(g, p) = {g}
    BY <1>5, <1>8 DEF OnPeerDisconnect
  <2>2. SyncPeerInv(g) /\ HeaderTimer(g)
    <3>1. n.syncPeerId \in Peers => g.up[g.syncPeerId] = n.up[n.syncPeerId]
      BY <1>3, <1>5, <1>8
    <3>2. SyncPeerInv(n) /\ HeaderTimer(n)
      BY DEF NodeInv
    <3>3. SyncPeerInv(g)
      BY <1>5, <3>1, <3>2 DEF SyncPeerInv
    <3>4. HeaderTimer(g)
      BY <1>5, <3>1, <3>2 DEF SyncPeerInv, HeaderTimer
    <3>5. QED
      BY <3>3, <3>4
  <2>3. WindowInv(g)
    BY <1>5 DEF NodeInv, WindowInv
  <2>4. InOrder(n) => InOrder(g)
    BY <1>5 DEF InOrder, Outstanding, SameChain
  <2>5. QueueInv(g)
    BY <1>5, <2>4 DEF NodeInv, QueueInv
  <2>6. NodeInv(g) /\ Kept(g, n)
    BY <1>5, <1>7, <2>2, <2>3, <2>5 DEF NodeInv, Base, Known, Kept
  <2>7. QED
    BY <2>1, <2>6 DEF g
<1>9. CASE n.syncPeerId = p
  <2> DEFINE k == GiveUp(g, "idle")
  <2>1. OnPeerDisconnect(g, p) = SyncWith(k, {q \in Handshaked(k) : Ahead(k, q)},
                                          SyncedIfIdle(RecoverOrphanedHeaders(k)))
    BY <1>5, <1>9 DEF OnPeerDisconnect, Then
  <2>2. \A m \in OnPeerDisconnect(g, p) : NodeInv(m) /\ Kept(m, g)
    BY <2>1, <1>7, GivenUpFacts
  <2>3. \A m : Kept(m, g) => Kept(m, n)
    BY <1>5 DEF Kept
  <2>4. QED
    BY <2>2, <2>3 DEF g
<1>10. QED
  BY <1>8, <1>9

LEMMA OnInvFacts ==
    ASSUME NEW n, NodeInv(n), NEW p \in Peers, n.up[p] # "off", NEW b \in Blocks
    PROVE  \A m \in OnInv(n, p, b) : NodeInv(m) /\ Kept(m, n)
<1> DEFINE k == [n EXCEPT !.state = "syncingHeaders", !.syncPeerId = p]
           heard == Heard(n, p, b)
<1>1. n \in Nodes /\ ChainInv(n) /\ PeersInv(n) /\ Base(n) /\ Known(n) /\ Kept(n, n) /\ n.stored \in Nat
  BY DEF NodeInv, Base, Known, Kept, Nodes
<1>2. NodeInv(heard) /\ Kept(heard, n)
  <2>1. Known(heard) /\ SameButChain(heard, n) /\ SameChain(heard, n)
    BY <1>1, HeardFacts
  <2> HIDE DEF heard
  <2>2. heard.stored <= n.stored
    BY <2>1, <1>1 DEF SameChain
  <2>3. QED
    BY <2>1, <2>2, ChainMayChange
<1>3. n.state = "synced" => NodeInv(RequestHeaders(k, p)) /\ Kept(RequestHeaders(k, p), n)
  <2>1. SUFFICES ASSUME n.state = "synced" PROVE NodeInv(RequestHeaders(k, p)) /\ Kept(RequestHeaders(k, p), n)
    OBVIOUS
  <2>2. k \in Nodes
    BY <1>1, Zenon DEF Nodes, States
  <2>3. /\ SameChain(k, n) /\ k.state = "syncingHeaders" /\ k.syncPeerId = p /\ NoQueue(k)
        /\ k.up = n.up /\ k.banned = n.banned /\ k.asked = n.asked
    BY <1>1, <2>1 DEF Nodes, SameChain, NodeInv, WindowInv, NoQueue
  <2> HIDE DEF k
  <2>4. Base(k)
    BY <1>1, <2>2, <2>3 DEF Base, Known, ChainInv, PeersInv, SameChain, TipHeight
  <2>5. NodeInv(RequestHeaders(k, p)) /\ Kept(RequestHeaders(k, p), k)
    BY <2>3, <2>4, AskHeadersFacts
  <2>6. QED
    BY <2>3, <2>5 DEF Kept, NoQueue
<1>4. n.state = "idle" => NodeInv(StartSync(n, p)) /\ Kept(StartSync(n, p), n)
  BY <1>1, StartSyncFacts DEF NodeInv, WindowInv, NoQueue
<1> HIDE DEF k, heard
<1>5. OnInv(n, p, b) =
        CASE b \in n.known -> {heard}
          [] b \notin n.known /\ n.state = "synced" -> {RequestHeaders(k, p)}
          [] b \notin n.known /\ n.state = "idle" /\ Ahead(n, p) -> {StartSync(n, p)}
          [] OTHER -> {n}
  BY DEF OnInv, k, heard
<1>6. QED
  BY <1>1, <1>2, <1>3, <1>4, <1>5

LEMMA OnBlockTimeoutFacts ==
    ASSUME NEW n, NodeInv(n)
    PROVE  \A m \in OnBlockTimeout(n) : NodeInv(m) /\ Kept(m, n)
<1> DEFINE c == IF n.syncPeerId = None THEN n ELSE Close(n, n.syncPeerId)
           k == GiveUp(c, "idle")
<1>1. Base(n) /\ n.syncPeerId \in Peers \cup {None}
  BY DEF NodeInv, Base, Known, Nodes
<1>2. Base(c) /\ c.banned = n.banned /\ c.blockBuffer = n.blockBuffer /\ c.state = n.state
      /\ c.compacted = n.compacted /\ c.syncPeerId = n.syncPeerId
  BY <1>1, CloseFacts
<1>3. OnBlockTimeout(n) = SyncWith(k, {q \in Handshaked(k) : Ahead(k, q)},
                                   SyncedIfIdle(RecoverOrphanedHeaders(k)))
  BY DEF OnBlockTimeout, Then
<1> HIDE DEF c
<1>4. \A m \in OnBlockTimeout(n) : NodeInv(m) /\ Kept(m, c)
  BY <1>2, <1>3, GivenUpFacts
<1>5. \A m : Kept(m, c) => Kept(m, n)
  BY <1>2 DEF Kept
<1>6. QED
  BY <1>4, <1>5

LEMMA OnHeaderTimeoutFacts ==
    ASSUME NEW n, NodeInv(n), n.state = "syncingHeaders"
    PROVE  \A m \in OnHeaderTimeout(n) : NodeInv(m) /\ Kept(m, n)
<1> DEFINE k == [n EXCEPT !.syncPeerId = None, !.lastHeaderRequest = FALSE, !.state = "idle"]
<1>1. n \in Nodes /\ ChainInv(n) /\ PeersInv(n) /\ NoQueue(n)
  BY DEF NodeInv, WindowInv, NoQueue
<1>2. k \in Nodes
  BY <1>1, Zenon DEF Nodes, States
<1>3. /\ SameChain(k, n) /\ k.state = "idle" /\ NoQueue(k)
      /\ k.up = n.up /\ k.banned = n.banned /\ k.asked = n.asked
  BY <1>1 DEF Nodes, SameChain, NoQueue
<1>4. OnHeaderTimeout(n) = SyncedIfIdle(SyncElsewhere(k, n.syncPeerId))
  BY DEF OnHeaderTimeout, Then
<1> HIDE DEF k
<1>5. Base(k)
  BY <1>1, <1>2, <1>3 DEF Base, Known, ChainInv, PeersInv, SameChain, TipHeight
<1>6. \A m \in SyncElsewhere(k, n.syncPeerId) : NodeInv(m) /\ Kept(m, k)
  BY <1>3, <1>5, SyncElsewhereFacts
<1>7. \A m \in OnHeaderTimeout(n) : NodeInv(m) /\ Kept(m, k)
  BY <1>4, <1>6, SyncedIfIdleFacts
<1>8. \A m : Kept(m, k) => Kept(m, n)
  BY <1>3 DEF Kept
<1>9. QED
  BY <1>7, <1>8

LEMMA OnCompactBlockTimeoutFacts ==
    ASSUME NEW n, NodeInv(n), n.pendingCompactBlock # None
    PROVE  NodeInv(OnCompactBlockTimeout(n)) /\ Kept(OnCompactBlockTimeout(n), n)
<1> DEFINE k == [n EXCEPT !.pendingCompactBlock = None]
           rs == BlockRequests({n.pendingCompactBlock})
<1>1. n.pendingCompactBlock \in Blocks /\ n.syncPeerId \in Peers \cup {None}
  BY DEF NodeInv, Nodes
<1>2. rs \in SUBSET Requests
  BY <1>1, BlockRequestTyped
<1>3. OnCompactBlockTimeout(n) = IF n.syncPeerId = None THEN k ELSE Ask(k, n.syncPeerId, rs)
  BY DEF OnCompactBlockTimeout
<1> HIDE DEF rs
<1>4. CASE n.syncPeerId = None
  <2>1. SameRest(k, n) /\ SameChain(k, n) /\ k.asked = n.asked /\ k \in Nodes
    BY DEF NodeInv, Nodes, SameRest, SameChain
  <2> HIDE DEF k
  <2>2. Base(k)
    BY <2>1 DEF NodeInv, Base, Known, ChainInv, PeersInv, SameChain, SameRest, TipHeight
  <2>3. QED
    BY <2>1, <2>2, <1>3, <1>4, RequestsMayChange
<1>5. CASE n.syncPeerId \in Peers
  <2>1. NodeInv(Ask(k, n.syncPeerId, rs)) /\ Kept(Ask(k, n.syncPeerId, rs), n)
    BY <1>2, <1>5, AskAboutFacts
  <2>2. n.syncPeerId # None
    BY <1>5, PeersAssumption
  <2>3. QED
    BY <2>1, <2>2, <1>3
<1>6. QED
  BY <1>1, <1>4, <1>5

-----------------------------------------------------------------------------
(* Steps *)

BanCause(p) == HasBad(p) \/ NeedsUnstored(p) \/ StaleDownload(p)

StepOK == IInv' /\ \A p \in node'.banned \ node.banned : BanCause(p)

\* What a peer has shown it has shown for ever.
LEMMA ShownStays ==
    ASSUME NEW p \in Peers, NEW b, NEW s \in Blocks, NEW t \in Blocks, Work[s] <= Work[t],
           HasShown(p, s, b)
    PROVE  HasShown(p, t, b)
<1>1. PICK c \in Tips[p] : Work[c] <= Work[s] /\ b \in ToSet(Path[c])
  BY DEF HasShown
<1>2. c \in Blocks
  BY PeersAssumption
<1>3. Work[c] \in Nat /\ Work[s] \in Nat /\ Work[t] \in Nat
  BY <1>2, PathFacts
<1>4. Work[c] <= Work[t]
  BY <1>1, <1>3
<1>5. QED
  BY <1>1, <1>4 DEF HasShown

LEMMA TipTyped ==
    ASSUME IInv, NEW p \in Peers
    PROVE  peerTip[p] \in Tips[p] /\ peerTip[p] \in Blocks
  BY PeersAssumption DEF IInv

\* A step in which nobody is banned and the buffer does not grow.
LEMMA QuietStep ==
    ASSUME IInv, NodeInv(node'), Kept(node', node), peerTip' = peerTip,
           told' \subseteq Peers, faults' \in 0..MaxFaults
    PROVE  StepOK
<1>1. BufferShown'
  <2>1. SUFFICES ASSUME node'.state = "syncingBlocks", ~node'.compacted, NEW b \in node'.blockBuffer
                 PROVE  HasShown(node'.syncPeerId, peerTip'[node'.syncPeerId], b)
    BY DEF BufferShown
  <2>2. /\ node.state = "syncingBlocks" /\ ~node.compacted
        /\ node'.syncPeerId = node.syncPeerId /\ b \in node.blockBuffer
    BY <2>1 DEF Kept
  <2>3. HasShown(node.syncPeerId, peerTip[node.syncPeerId], b)
    BY <2>2 DEF IInv, BufferShown
  <2>4. QED
    BY <2>2, <2>3
<1>2. IInv'
  BY <1>1 DEF IInv
<1>3. node'.banned \ node.banned = {}
  BY DEF Kept
<1>4. QED
  BY <1>2, <1>3 DEF StepOK

\* A step in which a peer is banned.
LEMMA BanStep ==
    ASSUME IInv, NodeInv(node'), NEW p \in Peers, Punished(node', node, p), BanCause(p),
           peerTip' = peerTip, told' \subseteq Peers, faults' \in 0..MaxFaults
    PROVE  StepOK
<1>1. BufferShown'
  BY DEF Punished, BufferShown
<1>2. IInv'
  BY <1>1 DEF IInv
<1>3. \A q \in node'.banned \ node.banned : q = p
  BY DEF Punished
<1>4. QED
  BY <1>2, <1>3 DEF StepOK

LEMMA FaultTyped ==
    ASSUME IInv, Fault \/ faults' = faults
    PROVE  faults' \in 0..MaxFaults
  BY PeersAssumption DEF IInv, Fault

LEMMA AnsweredFacts ==
    ASSUME IInv, NEW p \in Peers, NEW type, NEW a \in Answered(p, type)
    PROVE  /\ NodeInv(a.n) /\ Kept(a.n, node) /\ SameRest(a.n, node) /\ SameChain(a.n, node)
           /\ a.block \in Blocks /\ a.n.up[p] # "off"
<1>1. PICK r \in node.asked[p] : a = [block |-> r.block, n |-> [node EXCEPT !.asked[p] = @ \ {r}]]
  BY DEF Answered
<1>2. /\ NodeInv(node) /\ node \in Nodes /\ ChainInv(node) /\ PeersInv(node)
      /\ node.asked \in [Peers -> SUBSET Requests]
  BY DEF IInv, NodeInv, Nodes
<1> DEFINE m == [node EXCEPT !.asked[p] = @ \ {r}]
<1>3. a.n = m /\ a.block = r.block
  BY <1>1
<1>4. r.block \in Blocks /\ node.up[p] # "off"
  <2>1. r \in Requests /\ node.asked[p] # {}
    BY <1>2
  <2>2. QED
    BY <2>1, <1>2 DEF Requests, PeersInv
<1>5. m \in Nodes /\ m.asked = [node.asked EXCEPT ![p] = @ \ {r}]
  BY <1>2 DEF Nodes
<1>6. SameRest(m, node) /\ SameChain(m, node)
  BY <1>2 DEF Nodes, SameRest, SameChain
<1> HIDE DEF m
<1>7. PeersInv(m)
  BY <1>2, <1>5, <1>6 DEF PeersInv, SameRest
<1>8. Base(m)
  BY <1>2, <1>5, <1>6, <1>7 DEF Base, Known, ChainInv, SameChain, TipHeight
<1>9. NodeInv(m) /\ Kept(m, node)
  BY <1>2, <1>6, <1>8, RequestsMayChange
<1>10. QED
  BY <1>3, <1>4, <1>6, <1>9 DEF SameRest

LEMMA HeadersFromFacts ==
    ASSUME IInv, NEW p \in Peers, NEW b \in Blocks
    PROVE  Consecutive(HeadersFrom(p, b), peerTip[p])
<1> DEFINE chain == Path[peerTip[p]]
           first == Common(chain, Path[b]) + 1
           last == Min({Len(chain), first + MaxHeaders - 1})
           hs == SubSeq(chain, first, last)
<1>1. peerTip[p] \in Blocks
  BY TipTyped
<1>2. chain \in Seq(Blocks) /\ Len(chain) \in Nat
  BY <1>1, PathFacts
<1>3. first \in 2..(Len(chain) + 1)
  <2>1. Common(chain, Path[b]) \in 1..Len(chain)
    BY <1>1, CommonFacts
  <2>2. QED
    BY <2>1, <1>2
<1>4. last \in Nat /\ last <= Len(chain)
  <2>1. first + MaxHeaders - 1 \in Int /\ first + MaxHeaders - 1 >= 0
    BY <1>3, PeersAssumption
  <2> HIDE DEF chain, first
  <2>2. QED
    BY <1>2, <2>1, MinOfTwo
<1>5. HeadersFrom(p, b) = hs
  BY DEF HeadersFrom
<1> HIDE DEF chain, first, last
<1>6. /\ hs \in Seq(Blocks) /\ Len(hs) = (IF first <= last THEN last - first + 1 ELSE 0)
      /\ \A i \in 1..Len(hs) : hs[i] = chain[first + i - 1]
  BY <1>2, <1>3, <1>4
<1>7. first - 1 \in Nat
  BY <1>3
<1>8. ASSUME NEW i \in 1..Len(hs)
      PROVE  (first - 1) + i \in 1..Len(chain) /\ hs[i] = chain[(first - 1) + i]
  <2>1. i \in Int /\ 1 <= i /\ i <= last - first + 1
    BY <1>3, <1>4, <1>6
  <2>2. (first - 1) + i = first + i - 1
    BY <2>1, <1>3
  <2>3. QED
    BY <2>1, <2>2, <1>2, <1>3, <1>4, <1>6
<1> HIDE DEF hs
<1>9. Consecutive(hs, peerTip[p])
  BY <1>6, <1>7, <1>8 DEF Consecutive, chain
<1>10. QED
  BY <1>5, <1>9

LEMMA AnnouncedFacts ==
    ASSUME IInv, NEW p \in Peers
    PROVE  Consecutive(<<peerTip[p]>>, peerTip[p])
<1> DEFINE t == peerTip[p]
           k == Len(Path[t]) - 1
<1>1. t \in Blocks
  BY TipTyped
<1> HIDE DEF t
<1>2. Len(Path[t]) \in Nat /\ Len(Path[t]) >= 1 /\ Path[t][Len(Path[t])] = t
  BY <1>1, PathFacts
<1>3. k \in Nat /\ k + 1 = Len(Path[t])
  BY <1>2
<1>4. <<t>> \in Seq(Blocks) /\ Len(<<t>>) = 1 /\ <<t>>[1] = t
  BY <1>1
<1> HIDE DEF k
<1>5. \A i \in 1..Len(<<t>>) : i = 1
  BY <1>4
<1>6. \A i \in 1..Len(<<t>>) : k + i \in 1..Len(Path[t]) /\ <<t>>[i] = Path[t][k + i]
  BY <1>2, <1>3, <1>4, <1>5
<1>7. QED
  BY <1>3, <1>4, <1>6 DEF Consecutive, t

\* A header or a block of the chain of the peer that is bad is a cause.
LEMMA OwnBad ==
    ASSUME IInv, NEW p \in Peers, NEW b \in Bad, HasShown(p, peerTip[p], b)
    PROVE  HasBad(p)
  BY DEF HasShown, HasBad

LEMMA OnItsChain ==
    ASSUME IInv, NEW p \in Peers, NEW b \in ToSet(Path[peerTip[p]])
    PROVE  HasShown(p, peerTip[p], b)
<1>1. peerTip[p] \in Tips[p] /\ peerTip[p] \in Blocks
  BY TipTyped
<1>2. Work[peerTip[p]] <= Work[peerTip[p]]
  BY <1>1, PathFacts
<1>3. QED
  BY <1>1, <1>2 DEF HasShown

LEMMA HeadersCause ==
    ASSUME IInv, NEW p \in Peers, NEW n, SameChain(n, node),
           NEW hs, Consecutive(hs, peerTip[p]), HeadersBan(n, hs, peerTip[p])
    PROVE  BanCause(p)
<1>1. CASE Unstored(n, peerTip[p])
  BY <1>1 DEF BanCause, NeedsUnstored, Unstored, ForkHeight, TipHeight, SameChain
<1>2. ASSUME NEW j \in 1..Len(hs), hs[j] \in BadHeaders \cup Unproved PROVE BanCause(p)
  <2>1. PICK k \in Nat : k + j \in 1..Len(Path[peerTip[p]]) /\ hs[j] = Path[peerTip[p]][k + j]
    BY DEF Consecutive
  <2>2. Path[peerTip[p]] \in Seq(Blocks)
    BY TipTyped, PathFacts
  <2>3. hs[j] \in ToSet(Path[peerTip[p]])
    BY <2>1, <2>2 DEF ToSet
  <2>4. HasShown(p, peerTip[p], hs[j])
    BY <2>3, OnItsChain
  <2>5. QED
    BY <2>4, <1>2, OwnBad DEF Bad, BanCause
<1>3. QED
  BY <1>1, <1>2 DEF HeadersBan

LEMMA BlockCause ==
    ASSUME IInv, NEW p \in Peers, NEW n, SameChain(n, node), SameRest(n, node),
           NEW b \in ToSet(Path[peerTip[p]]), BlockBan(n, p, b)
    PROVE  BanCause(p)
<1>1. /\ node.state = "syncingBlocks" /\ node.syncPeerId = p /\ ~node.compacted
      /\ n.blockBuffer = node.blockBuffer /\ n.nextConnectHeight = node.nextConnectHeight
      /\ n.stored = node.stored /\ \A c : OnBestChain(n, c) = OnBestChain(node, c)
  BY DEF BlockBan, SameRest, SameChain, OnBestChain, TipHeight
<1>2. CASE \E c \in n.blockBuffer \cup {b} : c \in Invalid
  <2>1. PICK c \in node.blockBuffer \cup {b} : c \in Invalid
    BY <1>1, <1>2
  <2>2. HasShown(p, peerTip[p], c)
    BY <1>1, OnItsChain DEF IInv, BufferShown
  <2>3. QED
    BY <2>1, <2>2, OwnBad DEF Bad, BanCause
<1>3. CASE \/ n.nextConnectHeight # n.stored + 1
           \/ \E c \in n.blockBuffer : ~OnBestChain(n, c)
  BY <1>1, <1>3 DEF BanCause, StaleDownload
<1>4. QED
  BY <1>2, <1>3 DEF BlockBan

\* A step that is what onHeaders does.
LEMMA HeadersStep ==
    ASSUME IInv, NEW p \in Peers, NEW n, NodeInv(n), Kept(n, node), SameChain(n, node), n.up[p] # "off",
           NEW hs, Consecutive(hs, peerTip[p]), node' \in OnHeaders(n, p, hs),
           peerTip' = peerTip, told' \subseteq Peers, faults' \in 0..MaxFaults
    PROVE  StepOK
<1>1. peerTip[p] \in Blocks
  BY TipTyped
<1>2. NodeInv(node') /\ (Kept(node', n) \/ (Punished(node', n, p) /\ HeadersBan(n, hs, peerTip[p])))
  BY <1>1, OnHeadersFacts
<1>3. CASE Kept(node', n)
  BY <1>2, <1>3, KeptTransitive, QuietStep
<1>4. CASE Punished(node', n, p) /\ HeadersBan(n, hs, peerTip[p])
  <2>1. Punished(node', node, p)
    BY <1>4 DEF Punished, Kept
  <2>2. BanCause(p)
    BY <1>4, HeadersCause
  <2>3. QED
    BY <1>2, <2>1, <2>2, BanStep
<1>5. QED
  BY <1>2, <1>3, <1>4

LEMMA NodeFacts ==
    ASSUME IInv
    PROVE  /\ NodeInv(node) /\ Kept(node, node) /\ node \in Nodes /\ PeersInv(node)
           /\ told \subseteq Peers /\ faults \in 0..MaxFaults
  BY DEF IInv, NodeInv, Kept

LEMMA PeerAdvanceStep ==
    ASSUME IInv, NEW p \in Peers, PeerAdvance(p)
    PROVE  StepOK
<1>1. PICK b \in Tips[p] : Work[b] > Work[peerTip[p]] /\ peerTip' = [peerTip EXCEPT ![p] = b]
  BY DEF PeerAdvance
<1>2. node' = node /\ faults' = faults /\ told' \subseteq Peers
  BY NodeFacts DEF PeerAdvance
<1>3. ASSUME NEW q \in Peers
      PROVE  /\ peerTip'[q] \in Tips[q] /\ peerTip[q] \in Blocks /\ peerTip'[q] \in Blocks
             /\ Work[peerTip[q]] <= Work[peerTip'[q]]
  <2>1. peerTip[q] \in Tips[q] /\ peerTip[q] \in Blocks /\ Tips[q] \subseteq Blocks
    BY TipTyped, PeersAssumption
  <2>2. CASE q # p
    <3>1. peerTip'[q] = peerTip[q]
      BY <1>1, <2>2
    <3>2. QED
      BY <2>1, <3>1, PathFacts
  <2>3. CASE q = p
    <3>1. peerTip'[q] = peerTip[q] \/ peerTip'[q] = b
      BY <1>1
    <3>2. Work[b] \in Nat /\ Work[peerTip[q]] \in Nat
      BY <1>1, <2>1, <2>3, PathFacts
    <3>3. QED
      BY <1>1, <2>1, <2>3, <3>1, <3>2
  <2>4. QED
    BY <2>2, <2>3
<1>4. BufferShown'
  <2>1. SUFFICES ASSUME node.state = "syncingBlocks", ~node.compacted, NEW b2 \in node.blockBuffer
                 PROVE  HasShown(node.syncPeerId, peerTip'[node.syncPeerId], b2)
    BY <1>2 DEF BufferShown
  <2>2. HasShown(node.syncPeerId, peerTip[node.syncPeerId], b2) /\ node.syncPeerId \in Peers
    BY <2>1 DEF IInv, BufferShown, NodeInv, SyncPeerInv
  <2>3. QED
    BY <2>2, <1>3, ShownStays
<1>5. peerTip' \in [Peers -> Blocks]
  BY <1>1, PeersAssumption DEF IInv
<1>6. IInv'
  BY <1>2, <1>3, <1>4, <1>5 DEF IInv
<1>7. QED
  BY <1>2, <1>6 DEF StepOK

LEMMA PeerHandshakeStep ==
    ASSUME IInv, NEW p \in Peers, PeerHandshake(p)
    PROVE  StepOK
<1> DEFINE up == [node.up EXCEPT ![p] = "up"]
           height == [node.height EXCEPT ![p] = Height(peerTip[p])]
           k == [node EXCEPT !.up = up, !.height = height]
<1>1. /\ node \in Nodes /\ NodeInv(node) /\ ChainInv(node) /\ PeersInv(node) /\ node.up[p] = "off"
      /\ node.up \in [Peers -> {"off", "up", "closing"}] /\ node.height \in [Peers -> Nat]
      /\ Height(peerTip[p]) \in Nat
  BY NodeFacts, TipTyped, PathFacts DEF NodeInv, Nodes, PeerHandshake
<1>2. node' \in OnPeerHandshake(k, p) /\ peerTip' = peerTip /\ told' = told /\ faults' = faults
  BY <1>1 DEF PeerHandshake, Nodes
<1>3. /\ up \in [Peers -> {"off", "up", "closing"}] /\ height \in [Peers -> Nat] /\ up[p] = "up"
      /\ \A q \in Peers : node.up[q] # "off" => up[q] = node.up[q]
  BY <1>1
<1> HIDE DEF up, height
<1>4. k \in Nodes
  BY <1>1, <1>3 DEF Nodes
<1>5. /\ SameChain(k, node) /\ k.up = up /\ k.asked = node.asked
      /\ k.state = node.state /\ k.syncPeerId = node.syncPeerId
      /\ k.lastHeaderRequest = node.lastHeaderRequest
      /\ k.pendingBlocks = node.pendingBlocks /\ k.blockBuffer = node.blockBuffer
      /\ k.nextConnectHeight = node.nextConnectHeight /\ k.nextBlockHeight = node.nextBlockHeight
      /\ k.compacted = node.compacted /\ k.banned = node.banned
  BY <1>1 DEF Nodes, SameChain
<1> HIDE DEF k
<1>6. PeersInv(k)
  BY <1>1, <1>3, <1>5 DEF PeersInv
<1>7. ChainInv(k)
  BY <1>1, <1>5 DEF ChainInv, SameChain, TipHeight
<1>8. SyncPeerInv(k) /\ HeaderTimer(k)
  BY <1>1, <1>3, <1>5 DEF NodeInv, SyncPeerInv, HeaderTimer
<1>9. WindowInv(k)
  BY <1>1, <1>5 DEF NodeInv, WindowInv
<1>10. QueueInv(k)
  <2>1. InOrder(node) => InOrder(k)
    BY <1>5 DEF InOrder, Outstanding, SameChain
  <2>2. QED
    BY <2>1, <1>1, <1>5 DEF NodeInv, QueueInv
<1>11. NodeInv(k) /\ Kept(k, node)
  BY <1>4, <1>5, <1>6, <1>7, <1>8, <1>9, <1>10 DEF NodeInv, Kept
<1>12. NodeInv(node') /\ Kept(node', k)
  BY <1>2, <1>3, <1>5, <1>11, OnPeerHandshakeFacts
<1>13. QED
  BY <1>2, <1>11, <1>12, KeptTransitive, QuietStep, NodeFacts

LEMMA GoneStep ==
    ASSUME IInv, NEW p \in Peers, PeerDisconnect(p) \/ LinkLost(p)
    PROVE  StepOK
<1>1. /\ node' \in OnPeerDisconnect(Without(node, p), p) /\ peerTip' = peerTip /\ told' = told
      /\ Fault \/ faults' = faults
  BY DEF PeerDisconnect, LinkLost, Gone, Without
<1>2. NodeInv(node') /\ Kept(node', node)
  BY <1>1, NodeFacts, OnPeerDisconnectFacts
<1>3. QED
  BY <1>1, <1>2, NodeFacts, FaultTyped, QuietStep

LEMMA AnswerHeadersStep ==
    ASSUME IInv, NEW p \in Peers, AnswerHeaders(p)
    PROVE  StepOK
<1>1. PICK a \in Answered(p, "headers") : node' \in OnHeaders(a.n, p, HeadersFrom(p, a.block))
  BY DEF AnswerHeaders
<1>2. peerTip' = peerTip /\ told' \subseteq Peers /\ faults' \in 0..MaxFaults
  BY NodeFacts DEF AnswerHeaders
<1>3. /\ NodeInv(a.n) /\ Kept(a.n, node) /\ SameChain(a.n, node)
      /\ a.block \in Blocks /\ a.n.up[p] # "off"
  BY AnsweredFacts
<1>4. Consecutive(HeadersFrom(p, a.block), peerTip[p])
  BY <1>3, HeadersFromFacts
<1>5. QED
  BY <1>1, <1>2, <1>3, <1>4, HeadersStep

LEMMA AnswerBlockStep ==
    ASSUME IInv, NEW p \in Peers, AnswerBlock(p)
    PROVE  StepOK
<1>1. PICK a \in Answered(p, "block") :
         node' \in IF a.block \in ToSet(Path[peerTip[p]]) THEN OnBlock(a.n, p, a.block) ELSE {a.n}
  BY DEF AnswerBlock
<1>2. peerTip' = peerTip /\ told' \subseteq Peers /\ faults' \in 0..MaxFaults
  BY NodeFacts DEF AnswerBlock
<1> DEFINE n == a.n
           b == a.block
<1>3. /\ NodeInv(n) /\ Kept(n, node) /\ SameChain(n, node) /\ SameRest(n, node)
      /\ b \in Blocks /\ n.up[p] # "off"
  BY AnsweredFacts
<1>4. CASE b \notin ToSet(Path[peerTip[p]])
  BY <1>1, <1>2, <1>3, <1>4, QuietStep
<1>5. CASE b \in ToSet(Path[peerTip[p]])
  <2>1. node' \in OnBlock(n, p, b)
    BY <1>1, <1>5
  <2> HIDE DEF n, b
  <2>2. NodeInv(node') /\ (Gained(node', n, p, b) \/ (Punished(node', n, p) /\ BlockBan(n, p, b)))
    BY <1>3, <2>1, OnBlockFacts
  <2>3. CASE Punished(node', n, p) /\ BlockBan(n, p, b)
    <3>1. Punished(node', node, p)
      BY <1>3, <2>3 DEF Punished, Kept
    <3>2. BanCause(p)
      BY <1>3, <1>5, <2>3, BlockCause
    <3>3. QED
      BY <1>2, <2>2, <3>1, <3>2, BanStep
  <2>4. CASE Gained(node', n, p, b)
    <3>1. node'.banned = node.banned
      BY <1>3, <2>4 DEF Gained, Kept
    <3>2. BufferShown'
      <4>1. SUFFICES ASSUME node'.state = "syncingBlocks", ~node'.compacted, NEW c \in node'.blockBuffer
                     PROVE  HasShown(node'.syncPeerId, peerTip[node'.syncPeerId], c)
        BY <1>2 DEF BufferShown
      <4>2. /\ n.state = "syncingBlocks" /\ ~n.compacted
            /\ node'.syncPeerId = n.syncPeerId
            /\ c \in n.blockBuffer \/ (n.syncPeerId = p /\ c \in n.blockBuffer \cup {b})
        BY <4>1, <2>4 DEF Gained
      <4>3. /\ n.state = node.state /\ n.compacted = node.compacted
            /\ n.syncPeerId = node.syncPeerId /\ n.blockBuffer = node.blockBuffer
        BY <1>3 DEF SameRest
      <4>4. CASE c \in n.blockBuffer
        BY <4>2, <4>3, <4>4 DEF IInv, BufferShown
      <4>5. CASE c = b /\ n.syncPeerId = p
        BY <4>2, <4>5, <1>5, OnItsChain DEF b
      <4>6. QED
        BY <4>2, <4>4, <4>5
    <3>3. QED
      BY <1>2, <2>2, <3>1, <3>2 DEF IInv, StepOK
  <2>5. QED
    BY <2>2, <2>3, <2>4
<1>6. QED
  BY <1>4, <1>5

LEMMA AnswerTxnStep ==
    ASSUME IInv, NEW p \in Peers, AnswerTxn(p)
    PROVE  StepOK
<1>1. PICK a \in Answered(p, "txn"), fits \in BOOLEAN : node' \in OnBlockTxn(a.n, p, a.block, fits)
  BY DEF AnswerTxn
<1>2. peerTip' = peerTip /\ told' \subseteq Peers /\ faults' \in 0..MaxFaults
  BY NodeFacts DEF AnswerTxn
<1>3. NodeInv(a.n) /\ Kept(a.n, node) /\ a.block \in Blocks /\ a.n.up[p] # "off"
  BY AnsweredFacts
<1>4. NodeInv(node') /\ Kept(node', a.n)
  BY <1>1, <1>3, OnBlockTxnFacts
<1>5. QED
  BY <1>2, <1>3, <1>4, KeptTransitive, QuietStep

LEMMA AnnounceStep ==
    ASSUME IInv, NEW p \in Peers, Announce(p)
    PROVE  StepOK
<1>1. /\ node' \in OnHeaders(node, p, <<peerTip[p]>>) \cup OnInv(node, p, peerTip[p])
      /\ node.up[p] # "off" /\ peerTip' = peerTip /\ told' \subseteq Peers /\ faults' \in 0..MaxFaults
  BY NodeFacts DEF Announce
<1>2. CASE node' \in OnHeaders(node, p, <<peerTip[p]>>)
  BY <1>1, <1>2, NodeFacts, AnnouncedFacts, HeadersStep DEF SameChain
<1>3. CASE node' \in OnInv(node, p, peerTip[p])
  <2>1. NodeInv(node') /\ Kept(node', node)
    BY <1>1, <1>3, NodeFacts, TipTyped, OnInvFacts
  <2>2. QED
    BY <1>1, <2>1, QuietStep
<1>4. QED
  BY <1>1, <1>2, <1>3

LEMMA GossipTipStep ==
    ASSUME IInv, NEW p \in Peers, GossipTip(p)
    PROVE  StepOK
<1>1. /\ node' \in OnHeaders(node, p, <<peerTip[p]>>)
      /\ node.up[p] # "off" /\ peerTip' = peerTip /\ told' \subseteq Peers /\ faults' \in 0..MaxFaults
  BY NodeFacts DEF GossipTip
<1>2. QED
  BY <1>1, NodeFacts, AnnouncedFacts, HeadersStep DEF SameChain

LEMMA PushCompactBlockStep ==
    ASSUME IInv, NEW p \in Peers, PushCompactBlock(p)
    PROVE  StepOK
<1>1. PICK complete \in BOOLEAN : node' \in OnCompactBlock(node, p, peerTip[p], complete)
  BY DEF PushCompactBlock
<1>2. node.up[p] # "off" /\ peerTip' = peerTip /\ told' \subseteq Peers /\ Fault
  BY NodeFacts DEF PushCompactBlock
<1>3. NodeInv(node') /\ Kept(node', node)
  BY <1>1, <1>2, NodeFacts, TipTyped, OnCompactBlockFacts
<1>4. QED
  BY <1>2, <1>3, FaultTyped, QuietStep

LEMMA TimeoutStep ==
    ASSUME IInv, CheckBlockTimeout \/ CheckHeaderTimeout, Fault \/ faults' = faults
    PROVE  StepOK
<1>1. peerTip' = peerTip /\ told' \subseteq Peers
  BY NodeFacts DEF CheckBlockTimeout, CheckHeaderTimeout
<1>2. NodeInv(node') /\ Kept(node', node)
  BY NodeFacts, OnBlockTimeoutFacts, OnHeaderTimeoutFacts DEF CheckBlockTimeout, CheckHeaderTimeout
<1>3. QED
  BY <1>1, <1>2, FaultTyped, QuietStep

LEMMA CompactBlockTimeoutStep ==
    ASSUME IInv, CheckCompactBlockTimeout
    PROVE  StepOK
<1>1. /\ node' = OnCompactBlockTimeout(node) /\ node.pendingCompactBlock # None
      /\ peerTip' = peerTip /\ told' \subseteq Peers /\ faults' \in 0..MaxFaults
  BY NodeFacts DEF CheckCompactBlockTimeout
<1>2. NodeInv(node') /\ Kept(node', node)
  BY <1>1, NodeFacts, OnCompactBlockTimeoutFacts
<1>3. QED
  BY <1>1, <1>2, QuietStep

\* Every step keeps the invariant, and bans nobody without a cause.
LEMMA Steps ==
    ASSUME IInv, [Next]_vars
    PROVE  StepOK
<1>1. ASSUME NEW p \in Peers,
             \/ PeerAdvance(p) \/ PeerHandshake(p) \/ PeerDisconnect(p) \/ LinkLost(p)
             \/ Answer(p) \/ Announce(p) \/ GossipTip(p) \/ PushCompactBlock(p)
      PROVE  StepOK
  <2>1. CASE PeerAdvance(p)
    BY <2>1, PeerAdvanceStep
  <2>2. CASE PeerHandshake(p)
    BY <2>2, PeerHandshakeStep
  <2>3. CASE PeerDisconnect(p) \/ LinkLost(p)
    BY <2>3, GoneStep
  <2>4. CASE Answer(p)
    BY <2>4, AnswerHeadersStep, AnswerBlockStep, AnswerTxnStep DEF Answer
  <2>5. CASE Announce(p) \/ GossipTip(p)
    BY <2>5, AnnounceStep, GossipTipStep
  <2>6. CASE PushCompactBlock(p)
    BY <2>6, PushCompactBlockStep
  <2>7. QED
    BY <1>1, <2>1, <2>2, <2>3, <2>4, <2>5, <2>6
<1>2. CASE BlocksOverdue \/ BlocksLate \/ HeadersOverdue \/ HeadersLate
  <2>1. (CheckBlockTimeout \/ CheckHeaderTimeout) /\ (Fault \/ faults' = faults)
    BY <1>2 DEF BlocksOverdue, BlocksLate, HeadersOverdue, HeadersLate
  <2>2. QED
    BY <2>1, TimeoutStep
<1>3. CASE CheckCompactBlockTimeout
  BY <1>3, CompactBlockTimeoutStep
<1>4. CASE UNCHANGED vars
  <2>1. node' = node /\ peerTip' = peerTip /\ told' = told /\ faults' = faults
    BY <1>4 DEF vars
  <2>2. QED
    BY <2>1, NodeFacts, QuietStep
<1>5. QED
  BY <1>1, <1>2, <1>3, <1>4 DEF Next

LEMMA InitIInv ==
    ASSUME Init
    PROVE  IInv
<1>1. Genesis \in Blocks /\ Path[Genesis] = <<Genesis>> /\ Height(Genesis) = 0
  BY TreeAssumption DEF Height
<1>2. node \in Nodes
  BY <1>1 DEF Init, Nodes, States
<1>3. /\ node.known = {Genesis} /\ node.tip = Genesis /\ node.stored = 0 /\ node.state = "idle"
      /\ NoQueue(node) /\ node.asked = [p \in Peers |-> {}]
  BY DEF Init, NoQueue
<1>4. ChainInv(node)
  <2>1. Len(Path[Genesis]) = 1 /\ Path[Genesis][1] = Genesis
    BY <1>1
  <2>2. QED
    BY <1>1, <1>3, <2>1 DEF ChainInv, TipHeight
<1>5. PeersInv(node)
  BY <1>3 DEF PeersInv
<1>6. NodeInv(node)
  BY <1>2, <1>3, <1>4, <1>5, RestingNode DEF Base, Known
<1>7. BufferShown
  BY <1>3 DEF BufferShown
<1>8. /\ peerTip \in [Peers -> Blocks] /\ \A p \in Peers : peerTip[p] \in Tips[p]
      /\ told \subseteq Peers /\ faults \in 0..MaxFaults
  BY PeersAssumption DEF Init
<1>9. QED
  BY <1>6, <1>7, <1>8 DEF IInv

-----------------------------------------------------------------------------
(* Theorems *)

\* What the handlers of ChainSync keep among them: the headers are a tree whose tip is a
\* leaf, a download has a peer and something to wait for, and requested and buffered blocks
\* are, without a gap and without a height twice, the next ones within the window.
THEOREM Invariance == Spec => []IInv
<1>1. Init => IInv
  BY InitIInv
<1>2. IInv /\ [Next]_vars => IInv'
  BY Steps DEF StepOK
<1>3. QED
  BY <1>1, <1>2, PTL DEF Spec

\* The node is well-formed, in particular its stored height is not above its tip.
THEOREM TypeCorrect == Spec => []TypeOK
<1>1. IInv => TypeOK
  <2>1. SUFFICES ASSUME IInv PROVE TypeOK
    OBVIOUS
  <2>2. node \in Nodes /\ Known(node)
    BY <2>1 DEF IInv, NodeInv, Known
  <2>3. node.stored \in 0..TipHeight(node) /\ node.tip \in node.known
    BY <2>2, BestChainFacts DEF Known, ChainInv
  <2>4. peerTip \in [Peers -> Blocks] /\ told \subseteq Peers /\ faults \in 0..MaxFaults
    BY <2>1 DEF IInv
  <2>5. \A p \in Peers : node.asked[p] \subseteq Requests
    BY <2>2 DEF Nodes
  <2>6. QED
    BY <2>2, <2>3, <2>4, <2>5 DEF Nodes, States, TypeOK
<1>2. QED
  BY <1>1, Invariance, PTL

\* A download has a sync peer whose connection has not ended, whatever timers fire, links
\* are lost and peers are banned (onPeerDisconnect wakes the node when it ends).
THEOREM DownloadsHaveAPeer == Spec => []DownloadHasPeer
<1>1. IInv => DownloadHasPeer
  BY PeersAssumption DEF IInv, NodeInv, SyncPeerInv, DownloadHasPeer, Downloading
<1>2. QED
  BY <1>1, Invariance, PTL

\* A download whose peer stays has a timer that ends it: a request for headers or at least
\* one requested block (checkHeaderTimeout, checkBlockTimeout), however the answers come.
THEOREM NoSilentStall == Spec => []StallsAreNoticed
<1>1. IInv => StallsAreNoticed
  BY DEF IInv, NodeInv, HeaderTimer, QueueInv, StallsAreNoticed, Downloading
<1>2. QED
  BY <1>1, Invariance, PTL

\* Requested and buffered blocks stay within blockWindowSize, whichever blocks come in
\* which order (requestBlocks).
THEOREM WindowIsBounded == Spec => []WindowBounded
<1>1. IInv => WindowBounded
  BY DEF IInv, NodeInv, WindowInv, WindowBounded
<1>2. QED
  BY <1>1, Invariance, PTL

\* Nobody is banned (syncBanPeer) but for a bad block of his own, for a branch that
\* Chain.add throws for, or in a download that a reorganisation has made stale.
THEOREM BansHaveACause == Spec => BannedForCause
<1> DEFINE Caused == \A p \in node'.banned \ node.banned : HasBad(p) \/ NeedsUnstored(p) \/ StaleDownload(p)
<1>1. IInv /\ [Next]_vars => [Caused]_vars
  BY Steps DEF StepOK, BanCause
<1>2. QED
  BY <1>1, Invariance, PTL DEF Spec, BannedForCause
=============================================================================
