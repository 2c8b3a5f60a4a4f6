-------------------------- MODULE ChainStoresProofs --------------------------
(***************************************************************************)
(* The coin database and the name state of module Chain, for every block   *)
(* tree, every commit interval and any number of crashes.                  *)
(*                                                                         *)
(* At rest the coin database is that of the stored blocks.  The theorem    *)
(* excludes the two ways in which the code loses it: a coin database that  *)
(* is missing below 100 stored blocks and is not reindexed, and            *)
(* submitblock while blocks are missing below the tip.                     *)
(*                                                                         *)
(* The tree, the pending map and the snapshots of every commit boundary    *)
(* are those of the stored blocks, but for the trees that the root check   *)
(* of the next block rejects.                                              *)
(***************************************************************************)
EXTENDS ChainProofs

-----------------------------------------------------------------------------
(* The coin database: the inductive invariant *)

\* Positions where the coins reach the last stored block, and positions where
\* block is the one that is being connected or reorganised to.
Settled == {"idle", "mark", "store", "wipeNames", "repair", "rebuild"}
Busy == {"mark", "store", "save", "commitGenesis", "disconnect", "rebuildCoins", "truncateBlocks"}

\* In every state, also between two durable writes and on the disk of a dead
\* process, the coins are those of a lower part of the stored blocks.
CoinsOfStored ==
    /\ coinDB.height \in -1..StoredHeight
    /\ coinDB.applied = {stored[i] : i \in 1..(coinDB.height + 1)}
    /\ coinDB.undo = 0..coinDB.height

\* How far the coins reach while an operation is in progress.
CoinsInOperation ==
    /\ pc \in Settled \/ (pc = "resetNames" /\ ret = "idle") => coinDB.height = StoredHeight
    /\ pc = "disconnect" =>
        coinDB.height = at /\ (at >= ForkHeight(block) \/ at = StoredHeight)
    /\ pc = "truncateBlocks" => coinDB.height = Min({ForkHeight(block), StoredHeight})
    /\ pc # "rebuildCoins"
    /\ pc \in {"mark", "store"} => Height(block) = Len(stored)
    /\ pc = "save" =>
        /\ Height(block) = coinDB.height + 1 /\ Height(block) <= StoredHeight
        /\ stored[Height(block) + 1] = block
        /\ ret = "idle" => Height(block) = StoredHeight
    /\ pc = "commitGenesis" /\ ret = "idle" => coinDB.height = StoredHeight
    /\ pc \notin Busy => block = Genesis

\* A sentinel that a crash has left is gone before a block is connected.
SentinelClear ==
    pc \notin {"down", "failed", "mark", "store", "save"} /\ ~(pc = "load" /\ stored = << >>)
        => coinDB.pending = -1

CoinsInv == CoinsOfStored /\ CoinsInOperation /\ SentinelClear

-----------------------------------------------------------------------------
(* Lemmas *)

\* The coin database as the invariants describe it.
LEMMA CoinsRange ==
    ASSUME IInv, CoinsOfStored
    PROVE  /\ stored \in Seq(Blocks) /\ Len(stored) \in Nat /\ StoredHeight = Len(stored) - 1
           /\ StoredHeight \in Int /\ coinDB.height \in Int
           /\ coinDB.height >= -1 /\ coinDB.height <= StoredHeight
           /\ coinDB = [applied |-> coinDB.applied, height |-> coinDB.height,
                        undo |-> coinDB.undo, pending |-> coinDB.pending]
           /\ block \in Blocks /\ Height(block) \in Nat /\ at \in Nat
<1>1. /\ stored \in Seq(Blocks) /\ Len(stored) \in Nat /\ block \in Blocks /\ at \in Nat
      /\ coinDB \in [applied : SUBSET Blocks, height : Nat \cup {-1}, undo : SUBSET Nat,
                     pending : Nat \cup {-1}]
  BY DEF IInv, TypeOK
<1>2. StoredHeight = Len(stored) - 1 /\ StoredHeight \in Int
  BY <1>1 DEF StoredHeight
<1> QED
  BY <1>1, <1>2, PathFacts DEF CoinsOfStored

\* Nothing that the coins are compared with changes.
LEMMA CoinsKept ==
    ASSUME CoinsOfStored, UNCHANGED <<coinDB, stored>>
    PROVE  CoinsOfStored' /\ StoredHeight' = StoredHeight
  BY DEF CoinsOfStored, StoredHeight

\* The stored blocks are pairwise different, each at its own height.
LEMMA StoredDistinct ==
    ASSUME IInv, stored # << >>
    PROVE  /\ stored[1] = Genesis
           /\ \A i \in 1..Len(stored) : stored[i] \in Blocks /\ Height(stored[i]) = i - 1
<1>1. stored \in Seq(Blocks) /\ Last(stored) \in Blocks /\ stored = Path[Last(stored)]
  BY EmptySeq, ElementOfSeq DEF IInv, TypeOK, StoredIsPath, Last
<1> QED
  BY <1>1, PathFacts

\* A step to a position where nothing is said about how far the coins reach,
\* or where they reach as far as before.
LEMMA GoOn ==
    ASSUME IInv, CoinsInv, UNCHANGED <<coinDB, stored>>,
           pc' \notin Busy, block' = Genesis,
           pc' \in Settled \/ (pc' = "resetNames" /\ ret' = "idle") =>
               coinDB.height = StoredHeight,
           pc' \in {"down", "failed"} \/ coinDB.pending = -1
               \/ (pc' = "load" /\ stored = << >>)
    PROVE  CoinsInv'
<1>1. CoinsOfStored' /\ StoredHeight' = StoredHeight
  BY CoinsKept DEF CoinsInv
<1>2. CoinsInOperation'
  BY <1>1 DEF CoinsInOperation, Busy
<1>3. SentinelClear'
  BY DEF SentinelClear
<1> QED
  BY <1>1, <1>2, <1>3 DEF CoinsInv

-----------------------------------------------------------------------------
(* The steps *)

\* A new node has the coins of genesis alone, with undo data.
LEMMA InitCoins == Init => CoinsInv
<1> SUFFICES ASSUME Init PROVE CoinsInv
  OBVIOUS
<1>1. CoinsOfStored /\ coinDB.pending = -1
  <2>1. CASE FreshStart
    <3>1. stored = << >> /\ Len(stored) = 0 /\ coinDB = EmptyCoins
      BY <2>1 DEF Init
    <3>2. coinDB.height = -1 /\ coinDB.applied = {} /\ coinDB.undo = {} /\ coinDB.pending = -1
      BY <3>1 DEF EmptyCoins
    <3> QED
      BY <3>1, <3>2 DEF CoinsOfStored, StoredHeight
  <2>2. CASE ~FreshStart
    <3>1. /\ stored = <<Genesis>> /\ Len(stored) = 1 /\ stored[1] = Genesis
          /\ coinDB = [applied |-> {Genesis}, height |-> 0, undo |-> {0}, pending |-> -1]
      BY <2>2 DEF Init
    <3>2. /\ coinDB.height = 0 /\ coinDB.applied = {Genesis} /\ coinDB.undo = {0}
          /\ coinDB.pending = -1
      BY <3>1
    <3>3. {stored[i] : i \in 1..(0 + 1)} = {Genesis} /\ 0..0 = {0}
      BY <3>1
    <3> QED
      BY <3>1, <3>2, <3>3 DEF CoinsOfStored, StoredHeight
  <2> QED
    BY <2>1, <2>2
<1>2. CoinsInOperation
  BY DEF Init, CoinsInOperation, Settled, Busy
<1>3. SentinelClear
  BY <1>1 DEF SentinelClear
<1> QED
  BY <1>1, <1>2, <1>3 DEF CoinsInv

\* Headers, a new tip and a submitted block leave the coins alone.
LEMMA HeadersCoins ==
    ASSUME IInv, CoinsInv, ~SubmitUnsynced, Headers
    PROVE  CoinsInv'
<1>1. PICK b \in Blocks \ {Genesis} :
         AddSideHeader(b) \/ AddTipHeader(b) \/ BeginReorg(b) \/ FailReorg(b) \/ SubmitBlock(b)
  BY DEF Headers
<1>2. pc = "idle" /\ block = Genesis /\ coinDB.height = StoredHeight /\ coinDB.pending = -1
  <2>1. pc = "idle"
    BY <1>1 DEF AddSideHeader, AddTipHeader, BeginReorg, FailReorg, SubmitBlock, NewHeader, ForkHeader
  <2> QED
    BY <2>1 DEF CoinsInv, CoinsInOperation, SentinelClear, Settled, Busy
<1>3. CASE AddSideHeader(b) \/ AddTipHeader(b) \/ FailReorg(b)
  <2>1. UNCHANGED <<coinDB, stored>> /\ UNCHANGED <<pc, ret, block>>
    BY <1>3 DEF AddSideHeader, AddTipHeader, FailReorg, disk, control
  <2> QED
    BY <1>2, <2>1, GoOn DEF Busy
<1>4. CASE BeginReorg(b)
  <2>1. /\ UNCHANGED <<coinDB, stored, byHeight>> /\ pc' = "disconnect" /\ block' = b
        /\ at' = Min({TipHeight, StoredHeight})
    BY <1>4 DEF BeginReorg
  <2>2. StoredHeight \in Int /\ TipHeight \in Int /\ StoredHeight <= TipHeight
    BY <1>2 DEF IInv, TypeOK, InOperation, Unloaded, StoredHeight, TipHeight
  <2>3. at' = StoredHeight
    BY <2>1, <2>2, MinOfTwo
  <2>4. CoinsOfStored' /\ StoredHeight' = StoredHeight
    BY <2>1, CoinsKept DEF CoinsInv
  <2>5. CoinsInOperation'
    BY <1>2, <2>1, <2>3, <2>4 DEF CoinsInOperation, Settled, Busy
  <2>6. SentinelClear'
    BY <1>2, <2>1 DEF SentinelClear
  <2> QED
    BY <2>4, <2>5, <2>6 DEF CoinsInv
<1> QED
  BY <1>1, <1>3, <1>4 DEF SubmitBlock

\* A disconnect takes the coins of one block back with its undo data.
LEMMA DisconnectCoins ==
    ASSUME IInv, CoinsInv, DisconnectBlock
    PROVE  CoinsInv'
<1> DEFINE H == coinDB.height
<1>1. /\ pc = "disconnect" /\ at > ForkHeight(block) /\ at \in coinDB.undo
      /\ coinDB' = [coinDB EXCEPT !.applied = @ \ {stored[at + 1]},
                                  !.height = Max({0, at - 1}),
                                  !.undo = @ \ {at}]
      /\ at' = at - 1
      /\ UNCHANGED <<byHeight, stored, pc, ret, block>>
  BY DEF DisconnectBlock, memory
<1>2. /\ CoinsOfStored /\ at = H /\ coinDB.pending = -1
  BY <1>1 DEF CoinsInv, CoinsInOperation, SentinelClear
<1>3. /\ stored \in Seq(Blocks) /\ Len(stored) \in Nat /\ StoredHeight = Len(stored) - 1
      /\ H \in Int /\ at \in Nat /\ H <= StoredHeight /\ StoredHeight \in Int
      /\ coinDB = [applied |-> coinDB.applied, height |-> H,
                   undo |-> coinDB.undo, pending |-> coinDB.pending]
  BY <1>2, CoinsRange
<1>4. ForkHeight(block) \in Nat /\ ForkHeight(block)' = ForkHeight(block)
  <2>1. /\ byHeight \in Seq(Blocks) /\ byHeight # << >> /\ BestIsPath /\ block \in Blocks
    BY <1>1 DEF IInv, TypeOK, InOperation, Unloaded
  <2> QED
    BY <2>1, <1>1, ForkFacts DEF ForkHeight
<1>5. H >= 1 /\ Max({0, at - 1}) = H - 1
  <2>1. at \in Int /\ at >= 1 /\ at = H
    BY <1>1, <1>2, <1>3, <1>4
  <2>2. Max({0, at - 1}) = IF 0 >= at - 1 THEN 0 ELSE at - 1
    BY <2>1, MaxOfTwo
  <2> QED
    BY <2>1, <2>2
<1>6. /\ coinDB'.applied = coinDB.applied \ {stored[H + 1]} /\ coinDB'.height = H - 1
      /\ coinDB'.undo = coinDB.undo \ {H} /\ coinDB'.pending = -1
  BY <1>1, <1>2, <1>3, <1>5
<1>7. stored # << >> /\ StoredHeight' = StoredHeight
  BY <1>1, <1>3, <1>5 DEF StoredHeight
<1>8. {stored[i] : i \in 1..(H + 1)} \ {stored[H + 1]} = {stored[i] : i \in 1..H}
  <2>1. \A i \in 1..(H + 1) : Height(stored[i]) = i - 1
    <3>1. \A i \in 1..Len(stored) : Height(stored[i]) = i - 1
      BY <1>7, StoredDistinct
    <3>2. 1..(H + 1) \subseteq 1..Len(stored)
      BY <1>3
    <3> HIDE DEF H
    <3> QED
      BY <3>1, <3>2
  <2>2. \A i \in 1..H : stored[i] # stored[H + 1]
    <3> SUFFICES ASSUME NEW i \in 1..H, stored[i] = stored[H + 1] PROVE FALSE
      OBVIOUS
    <3>1. i \in 1..(H + 1) /\ H + 1 \in 1..(H + 1) /\ (H + 1) - 1 = H
      BY <1>3, <1>5
    <3> HIDE DEF H
    <3>2. Height(stored[i]) = i - 1 /\ Height(stored[H + 1]) = H
      BY <2>1, <3>1
    <3> QED
      BY <3>2, <1>3
  <2>3. 1..(H + 1) = (1..H) \cup {H + 1}
    BY <1>3, <1>5
  <2> HIDE DEF H
  <2> QED
    BY <2>2, <2>3
<1>9. CoinsOfStored'
  <2>1. coinDB'.height \in -1..StoredHeight'
    BY <1>3, <1>5, <1>6, <1>7
  <2>2. coinDB'.height + 1 = H
    BY <1>3, <1>6
  <2>3. coinDB'.applied = {stored'[i] : i \in 1..(coinDB'.height + 1)}
    BY <1>1, <1>2, <1>6, <1>8, <2>2 DEF CoinsOfStored
  <2>4. coinDB'.undo = 0..coinDB'.height
    <3>1. (0..H) \ {H} = 0..(H - 1)
      BY <1>3, <1>5
    <3> QED
      BY <3>1, <1>2, <1>6 DEF CoinsOfStored
  <2> QED
    BY <2>1, <2>3, <2>4 DEF CoinsOfStored
<1>10. CoinsInOperation'
  <2>1. at' = H - 1 /\ at' >= ForkHeight(block)
    BY <1>1, <1>2, <1>3, <1>4
  <2> QED
    BY <2>1, <1>1, <1>4, <1>6 DEF CoinsInOperation, Settled, Busy
<1> QED
  BY <1>6, <1>9, <1>10 DEF CoinsInv, SentinelClear

\* A reorganisation step keeps the coins at a stored block.
LEMMA ReorganizeCoins ==
    ASSUME IInv, CoinsInv, Reorganize
    PROVE  CoinsInv'
<1>0. /\ byHeight \in Seq(Blocks) /\ byHeight # << >> /\ BestIsPath /\ block \in Blocks
      /\ pc \in Reorganizing
  <2>1. pc \in Reorganizing
    BY DEF Reorganize, DisconnectBlock, MissingUndo, RebuildCoins, TruncateEntries, TruncateBlocks,
           Reorganizing
  <2> QED
    BY <2>1 DEF IInv, TypeOK, InOperation, Unloaded, Reorganizing
<1>1. /\ ForkHeight(block) \in Nat /\ CoinsOfStored /\ pc # "rebuildCoins" /\ coinDB.pending = -1
      /\ stored \in Seq(Blocks) /\ Len(stored) \in Nat /\ StoredHeight = Len(stored) - 1
      /\ coinDB.height \in Int /\ coinDB.height <= StoredHeight /\ at \in Nat
      /\ stored # << >>
  BY <1>0, ForkFacts, CoinsRange DEF CoinsInv, CoinsInOperation, SentinelClear, Reorganizing,
                                     IInv, InOperation, Unloaded
<1>2. CASE DisconnectBlock
  BY <1>2, DisconnectCoins
<1>3. CASE MissingUndo
  <2>1. at > ForkHeight(block) /\ at \notin coinDB.undo /\ coinDB.height = at
    BY <1>3 DEF MissingUndo, CoinsInv, CoinsInOperation
  <2>2. coinDB.undo = 0..at
    BY <1>1, <2>1 DEF CoinsOfStored
  <2> QED
    BY <1>1, <2>1, <2>2
<1>4. CASE RebuildCoins
  BY <1>1, <1>4 DEF RebuildCoins
<1>5. CASE TruncateEntries
  <2>1. /\ pc = "disconnect" /\ at <= ForkHeight(block) /\ pc' = "truncateBlocks"
        /\ UNCHANGED <<byHeight, stored, coinDB, ret, block>>
    BY <1>1, <1>5 DEF TruncateEntries, memory
  <2>2. coinDB.height = at /\ (at >= ForkHeight(block) \/ at = StoredHeight)
    BY <2>1 DEF CoinsInv, CoinsInOperation
  <2>3. coinDB.height = Min({ForkHeight(block), StoredHeight})
    BY <1>1, <2>1, <2>2, MinOfTwo
  <2>4. CoinsOfStored' /\ StoredHeight' = StoredHeight /\ ForkHeight(block)' = ForkHeight(block)
    BY <1>1, <2>1, CoinsKept DEF ForkHeight
  <2>5. CoinsInOperation'
    BY <2>1, <2>3, <2>4 DEF CoinsInOperation, Settled, Busy
  <2> QED
    BY <1>1, <2>1, <2>4, <2>5 DEF CoinsInv, SentinelClear
<1>6. CASE TruncateBlocks
  <2> DEFINE n == Min({ForkHeight(block) + 1, Len(stored)})
  <2>1. /\ pc = "truncateBlocks" /\ stored' = SubSeq(stored, 1, n)
        /\ pc' = "idle" /\ ret' = "idle" /\ block' = Genesis /\ coinDB' = coinDB
    BY <1>6 DEF TruncateBlocks, Return
  <2>2. coinDB.height = Min({ForkHeight(block), StoredHeight})
    BY <2>1 DEF CoinsInv, CoinsInOperation
  <2>3. n \in 1..Len(stored) /\ coinDB.height + 1 = n
    <3>1. Len(stored) >= 1
      BY <1>1, EmptySeq
    <3> QED
      BY <1>1, <2>2, <3>1, MinOfTwo
  <2> HIDE DEF n
  <2>4. /\ Len(stored') = n /\ \A i \in 1..n : stored'[i] = stored[i]
    <3>1. \A i \in 1..n : stored[i] \in Blocks
      BY <1>1, <2>3, ElementOfSeq
    <3> QED
      BY <1>1, <2>1, <2>3, <3>1, SubSeqProperties
  <2>5. StoredHeight' = coinDB.height
    BY <2>3, <2>4, <1>1 DEF StoredHeight
  <2>6. CoinsOfStored'
    <3>1. {stored'[i] : i \in 1..n} = {stored[i] : i \in 1..n}
      BY <2>4
    <3> QED
      BY <1>1, <2>1, <2>3, <2>5, <3>1 DEF CoinsOfStored
  <2>7. CoinsInOperation'
    BY <2>1, <2>5 DEF CoinsInOperation, Busy
  <2> QED
    BY <1>1, <2>1, <2>6, <2>7 DEF CoinsInv, SentinelClear
<1> QED
  BY <1>2, <1>3, <1>4, <1>5, <1>6 DEF Reorganize

\* Storing a block brings the stored blocks up to the coins saved before.
LEMMA StoreCoins ==
    ASSUME IInv, IInv', CoinsInv, StoreBlock
    PROVE  CoinsInv'
<1>1. /\ pc = "store" /\ Height(block) = Len(stored) /\ stored' = Append(stored, block)
      /\ pc' = "save" /\ UNCHANGED <<coinDB, ret, block>>
  BY DEF StoreBlock, Goto
<1>2. /\ CoinsOfStored /\ coinDB.height = StoredHeight
  BY <1>1 DEF CoinsInv, CoinsInOperation, Settled
<1>3. /\ stored \in Seq(Blocks) /\ Len(stored) \in Nat /\ StoredHeight = Len(stored) - 1
      /\ block \in Blocks /\ coinDB.height >= -1 /\ coinDB.height \in Int
  BY <1>2, CoinsRange
<1>4. /\ Len(stored') = Len(stored) + 1 /\ stored'[Len(stored) + 1] = block
      /\ \A i \in 1..Len(stored) : stored'[i] = stored[i]
  BY <1>1, <1>3, AppendProperties
<1>5. StoredHeight' = coinDB.height + 1
  BY <1>2, <1>3, <1>4 DEF StoredHeight
<1>6. CoinsOfStored'
  <2>1. {stored'[i] : i \in 1..(coinDB.height + 1)} = {stored[i] : i \in 1..(coinDB.height + 1)}
    BY <1>2, <1>3, <1>4
  <2>2. coinDB.height \in -1..StoredHeight'
    BY <1>3, <1>5
  <2> QED
    BY <1>1, <1>2, <2>1, <2>2 DEF CoinsOfStored
<1>7. CoinsInOperation'
  <2>1. Height(block) = StoredHeight' /\ stored'[Height(block) + 1] = block
    BY <1>1, <1>2, <1>3, <1>4, <1>5
  <2>2. /\ Height(block) = coinDB.height + 1 /\ Height(block) <= StoredHeight'
        /\ Height(block)' = Height(block)
    <3>1. StoredHeight' \in Int
      BY <1>3, <1>5
    <3> QED
      BY <1>1, <1>5, <2>1, <3>1
  <2>3. /\ Height(block)' = coinDB'.height + 1 /\ Height(block)' <= StoredHeight'
        /\ stored'[Height(block)' + 1] = block' /\ Height(block)' = StoredHeight'
    BY <1>1, <2>1, <2>2
  <2> QED
    BY <1>1, <2>3 DEF CoinsInOperation, Settled, Busy
<1> QED
  BY <1>1, <1>6, <1>7 DEF CoinsInv, SentinelClear

\* Saving the coins of a block puts them one block ahead of the stored ones.
LEMMA SaveCoins ==
    ASSUME IInv, CoinsInv, SaveView
    PROVE  CoinsInv'
<1> DEFINE H == coinDB.height + 1
<1>1. /\ pc = "save" /\ coinDB' = Saved(block, Height(block)) /\ stored' = stored
      /\ \/ pc' = "commitGenesis" /\ UNCHANGED <<ret, block>>
         \/ pc' = ret /\ ret' = "idle" /\ block' = Genesis
  BY DEF SaveView, Goto, Return
<1>2. /\ CoinsOfStored /\ Height(block) = H /\ H <= StoredHeight /\ stored[H + 1] = block
      /\ ret = "idle" => H = StoredHeight
  BY <1>1 DEF CoinsInv, CoinsInOperation
<1>3. /\ stored \in Seq(Blocks) /\ Len(stored) \in Nat /\ StoredHeight = Len(stored) - 1
      /\ H \in Nat /\ coinDB.height \in Int /\ coinDB.height >= -1
      /\ ret \in {"idle", "align", "check", "reindex"}
  BY <1>2, CoinsRange DEF IInv, TypeOK
<1>4. /\ coinDB'.applied = coinDB.applied \cup {block} /\ coinDB'.height = H
      /\ coinDB'.undo = coinDB.undo \cup {H} /\ coinDB'.pending = -1
  BY <1>1, <1>2 DEF Saved
<1>5. StoredHeight' = StoredHeight
  BY <1>1 DEF StoredHeight
<1>6. CoinsOfStored'
  <2>1. 1..(H + 1) = (1..H) \cup {H + 1} /\ 0..H = (0..coinDB.height) \cup {H}
    BY <1>3
  <2> HIDE DEF H
  <2>2. {stored[i] : i \in 1..(H + 1)} = {stored[i] : i \in 1..H} \cup {stored[H + 1]}
    BY <2>1
  <2>3. coinDB.applied = {stored[i] : i \in 1..H}
    BY <1>2 DEF CoinsOfStored, H
  <2>4. coinDB'.applied = {stored'[i] : i \in 1..(coinDB'.height + 1)}
    BY <1>1, <1>2, <1>4, <2>2, <2>3
  <2>5. coinDB'.undo = 0..coinDB'.height
    BY <1>2, <1>4, <2>1 DEF CoinsOfStored
  <2>6. coinDB'.height \in -1..StoredHeight'
    BY <1>2, <1>3, <1>4, <1>5
  <2> QED
    BY <2>4, <2>5, <2>6 DEF CoinsOfStored
<1> HIDE DEF H
<1>7. CoinsInOperation'
  <2>1. CASE pc' = "commitGenesis" /\ UNCHANGED <<ret, block>>
    BY <2>1, <1>2, <1>4, <1>5 DEF CoinsInOperation, Settled, Busy
  <2>2. CASE pc' = ret /\ ret' = "idle" /\ block' = Genesis
    BY <2>2, <1>2, <1>3, <1>4, <1>5 DEF CoinsInOperation, Settled, Busy
  <2> QED
    BY <1>1, <2>1, <2>2
<1> QED
  BY <1>4, <1>6, <1>7 DEF CoinsInv, SentinelClear

\* The coins are those of the chain below the block that is being connected.
LEMMA ConnectCoins ==
    ASSUME IInv, IInv', CoinsInv, ConnectNext \/ Connect
    PROVE  CoinsInv'
<1>1. CASE ConnectNext
  <2>1. /\ pc = "idle" /\ Len(stored) < Len(byHeight) /\ ConnectBlock(byHeight, Len(stored), "idle")
    BY <1>1 DEF ConnectNext
  <2>2. /\ byHeight # << >> /\ byHeight \in Seq(Blocks) /\ Len(byHeight) \in Nat
        /\ byHeight = Path[Last(byHeight)]
        /\ Len(stored) \in 1..(Len(byHeight) - 1)
    <3>1. stored # << >> /\ stored \in Seq(Blocks) /\ byHeight # << >> /\ byHeight \in Seq(Blocks)
      BY <2>1 DEF IInv, TypeOK, InOperation, Unloaded
    <3>2. Len(stored) \in Nat /\ Len(stored) >= 1 /\ Len(byHeight) \in Nat
      BY <3>1, EmptySeq
    <3> QED
      BY <2>1, <3>1, <3>2 DEF IInv, BestIsPath, Tip
  <2>3. /\ pc' \in {"save", "mark"} /\ Height(block') = Len(stored) /\ UNCHANGED <<stored, coinDB>>
    BY <2>1, <2>2, ConnectBlockStep DEF IInv
  <2>4. pc' = "mark"
    BY <2>1, <2>2 DEF ConnectBlock
  <2>5. coinDB.height = StoredHeight
    BY <2>1 DEF CoinsInv, CoinsInOperation, Settled
  <2>6. CoinsOfStored' /\ StoredHeight' = StoredHeight
    BY <2>3, CoinsKept DEF CoinsInv
  <2>7. CoinsInOperation'
    BY <2>3, <2>4, <2>5, <2>6 DEF CoinsInOperation, Settled, Busy
  <2> QED
    BY <2>4, <2>6, <2>7 DEF CoinsInv, SentinelClear
<1>2. CASE MarkPending
  <2>1. /\ pc = "mark" /\ coinDB' = [coinDB EXCEPT !.pending = Height(block)]
        /\ pc' = "store" /\ UNCHANGED <<stored, ret, block>>
    BY <1>2 DEF MarkPending, Goto
  <2>2. /\ CoinsOfStored /\ coinDB.height = StoredHeight /\ Height(block) = Len(stored)
    BY <2>1 DEF CoinsInv, CoinsInOperation, Settled
  <2>3. /\ coinDB'.applied = coinDB.applied /\ coinDB'.height = coinDB.height
        /\ coinDB'.undo = coinDB.undo
    BY <2>1, <2>2, CoinsRange
  <2>4. CoinsOfStored' /\ StoredHeight' = StoredHeight
    BY <2>1, <2>2, <2>3 DEF CoinsOfStored, StoredHeight
  <2>5. CoinsInOperation'
    BY <2>1, <2>2, <2>3, <2>4 DEF CoinsInOperation, Settled, Busy
  <2> QED
    BY <2>1, <2>4, <2>5 DEF CoinsInv, SentinelClear
<1>3. CASE StoreBlock
  BY <1>3, StoreCoins
<1>4. CASE StoreMismatch
  BY <1>4 DEF StoreMismatch, CoinsInv, CoinsInOperation
<1>5. CASE SaveView
  BY <1>5, SaveCoins
<1>6. CASE CommitGenesis
  <2>1. /\ pc = "commitGenesis" /\ pc' = ret /\ ret' = "idle" /\ block' = Genesis
        /\ UNCHANGED <<stored, coinDB>> /\ ret \in {"idle", "align", "check", "reindex"}
    BY <1>6 DEF CommitGenesis, Return, IInv, TypeOK
  <2>2. coinDB.pending = -1 /\ (ret = "idle" => coinDB.height = StoredHeight)
    BY <2>1 DEF CoinsInv, CoinsInOperation, SentinelClear
  <2> QED
    BY <2>1, <2>2, GoOn DEF Settled, Busy
<1> QED
  BY <1>1, <1>2, <1>3, <1>4, <1>5, <1>6 DEF Connect

\* Loading and replaying leave the coins where the start put them.
LEMMA RecoverCoins ==
    ASSUME IInv, CoinsInv, ResetToStoredHeight \/ RepairTree \/ Recover
    PROVE  CoinsInv'
<1> USE DEF Settled, Busy
<1>1. UNCHANGED <<coinDB, stored>>
  BY DEF ResetToStoredHeight, ResetEntries, RepairTree, Recover, ResetNames, ResetFails, Dies, disk,
         RepairGenesis, RepairBlock, RepairDone
<1>2. pc \notin Unloaded \cup Busy /\ block = Genesis /\ coinDB.pending = -1
  <2>1. pc \in {"idle", "wipeNames", "resetNames", "repair"}
    BY DEF ResetToStoredHeight, RepairTree, Recover, ResetNames, ResetFails,
           RepairGenesis, RepairBlock, RepairDone
  <2> QED
    BY <2>1 DEF CoinsInv, CoinsInOperation, SentinelClear, Unloaded
<1>3. CASE ResetToStoredHeight
  <2>1. /\ pc = "idle" /\ pc' = "resetNames" /\ block' = block
    BY <1>3 DEF ResetToStoredHeight, ResetEntries
  <2>2. coinDB.height = StoredHeight
    BY <2>1 DEF CoinsInv, CoinsInOperation
  <2> QED
    BY <1>1, <1>2, <2>1, <2>2, GoOn
<1>4. CASE RepairTree
  <2>1. pc \in {"idle", "wipeNames"} /\ pc' = "repair" /\ block' = block
    BY <1>4 DEF RepairTree, Goto
  <2>2. coinDB.height = StoredHeight
    BY <2>1 DEF CoinsInv, CoinsInOperation
  <2> QED
    BY <1>1, <1>2, <2>1, <2>2, GoOn
<1>5. CASE ResetNames
  <2>1. /\ pc = "resetNames" /\ pc' = ret /\ ret' = "idle" /\ block' = Genesis
        /\ ret \in {"idle", "align", "check", "reindex"}
    BY <1>5 DEF ResetNames, Return, IInv, TypeOK
  <2>2. ret = "idle" => coinDB.height = StoredHeight
    BY <2>1 DEF CoinsInv, CoinsInOperation
  <2> QED
    BY <1>1, <1>2, <2>1, <2>2, GoOn
<1>6. CASE ResetFails
  <2>1. pc' = "failed" /\ block' = Genesis
    BY <1>6 DEF ResetFails, Return
  <2> QED
    BY <1>1, <2>1, GoOn
<1>7. CASE RepairGenesis \/ RepairBlock \/ RepairDone
  <2>1. pc = "repair" /\ pc' \in {"repair", "idle"} /\ block' \in {block, Genesis}
    BY <1>7 DEF RepairGenesis, RepairBlock, RepairDone, Return, control
  <2>2. coinDB.height = StoredHeight
    BY <2>1 DEF CoinsInv, CoinsInOperation
  <2> QED
    BY <1>1, <1>2, <2>1, <2>2, GoOn
<1> QED
  BY <1>3, <1>4, <1>5, <1>6, <1>7 DEF Recover

\* The start wipes or reindexes the coins whenever they do not reach the last
\* stored block.
LEMMA StartCoins ==
    ASSUME IInv, CoinsInv, LegacyBlocks = 0, Start
    PROVE  CoinsInv'
<1> USE DEF Settled, Busy
<1>0. /\ CoinsOfStored /\ stored \in Seq(Blocks) /\ Len(stored) \in Nat
      /\ StoredHeight = Len(stored) - 1 /\ coinDB.height \in Int
      /\ coinDB.height >= -1 /\ coinDB.height <= StoredHeight
  BY CoinsRange DEF CoinsInv
<1>1. pc \notin Busy /\ block = Genesis
  <2>1. pc \in {"down", "failed", "wipeTree", "load", "align", "check", "reindex", "rebuild"}
    BY DEF Start, OpenStores, WipeCoins, WipeTree, LoadChain, AlignReset, AlignReplay, AlignDone,
           StartReindex, ReindexGenesis, ReindexBlock, ReindexDone, StartRebuild, RebuildNames,
           RebuildDone
  <2> QED
    BY <2>1 DEF CoinsInv, CoinsInOperation
<1>2. CASE OpenStores
  <2>1. ~CoinsBehind /\ pc' = "load" /\ block' = block /\ UNCHANGED <<coinDB, stored>>
    BY <1>2 DEF OpenStores, Goto, disk
  <2>2. coinDB.pending = -1 \/ stored = << >>
    <3>1. CASE coinDB.height >= 0
      BY <2>1, <3>1 DEF CoinsBehind
    <3>2. CASE ~(coinDB.height >= 0)
      BY <1>0, <2>1, <3>2, EmptySeq DEF CoinsBehind
    <3> QED
      BY <3>1, <3>2
  <2> QED
    BY <1>1, <2>1, <2>2, GoOn
<1>3. CASE WipeCoins
  <2>1. coinDB' = EmptyCoins /\ pc' = "wipeTree" /\ UNCHANGED <<stored, block>>
    BY <1>3 DEF WipeCoins, Goto
  <2>2. /\ coinDB'.applied = {} /\ coinDB'.height = -1 /\ coinDB'.undo = {}
        /\ coinDB'.pending = -1 /\ StoredHeight' = StoredHeight
    BY <2>1 DEF EmptyCoins, StoredHeight
  <2>3. CoinsOfStored'
    BY <1>0, <2>2 DEF CoinsOfStored
  <2>4. CoinsInOperation'
    BY <1>1, <2>1 DEF CoinsInOperation
  <2> QED
    BY <2>2, <2>3, <2>4 DEF CoinsInv, SentinelClear
<1>4. CASE WipeTree
  <2>1. pc = "wipeTree" /\ pc' = "load" /\ block' = block /\ UNCHANGED <<coinDB, stored>>
    BY <1>4 DEF WipeTree, Goto
  <2>2. coinDB.pending = -1
    BY <2>1 DEF CoinsInv, SentinelClear
  <2> QED
    BY <1>1, <2>1, <2>2, GoOn
<1>5. CASE LoadChain
  <2>1. pc = "load" /\ block' = block /\ UNCHANGED <<coinDB, stored>>
        /\ pc' = IF stored = << >> THEN "mark" ELSE "align"
    BY <1>5 DEF LoadChain, Goto
  <2>2. CASE stored = << >>
    <3>1. coinDB.height = StoredHeight /\ Height(block) = Len(stored) /\ pc' = "mark"
      <4>1. Height(Genesis) = 0 /\ Len(stored) = 0
        BY <2>2, <1>0, BlocksAssumption DEF Height
      <4> QED
        BY <4>1, <2>1, <2>2, <1>0, <1>1
    <3>2. CoinsOfStored' /\ StoredHeight' = StoredHeight /\ Height(block)' = Height(block)
      BY <1>0, <2>1, CoinsKept
    <3>3. CoinsInOperation'
      BY <2>1, <3>1, <3>2 DEF CoinsInOperation
    <3> QED
      BY <3>1, <3>2, <3>3 DEF CoinsInv, SentinelClear
  <2>3. CASE stored # << >>
    <3>1. coinDB.pending = -1 /\ pc' = "align"
      BY <2>1, <2>3 DEF CoinsInv, SentinelClear
    <3> QED
      BY <1>1, <2>1, <3>1, GoOn
  <2> QED
    BY <2>2, <2>3
<1>6. CASE AlignReset \/ AlignReplay \/ AlignDone \/ StartReindex
  <2>1. /\ pc \in {"align", "check"} /\ block' = block /\ UNCHANGED <<coinDB, stored>>
        /\ pc' \in {"check", "reindex"} \/ (pc' = "resetNames" /\ ret' = "check")
    BY <1>6 DEF AlignReset, ResetEntries, AlignReplay, AlignDone, StartReindex, Goto, disk
  <2>2. coinDB.pending = -1
    BY <2>1 DEF CoinsInv, SentinelClear
  <2> QED
    BY <1>1, <2>1, <2>2, GoOn
<1>7. CASE ReindexGenesis
  <2>1. /\ pc = "reindex" /\ coinDB.height = -1 /\ pc' = "save" /\ ret' = "reindex"
        /\ UNCHANGED <<coinDB, stored, block>>
    BY <1>7 DEF ReindexGenesis, disk
  <2>2. stored # << >> /\ stored[1] = Genesis /\ Len(stored) >= 1
    BY <1>0, <2>1, StoredDistinct, EmptySeq DEF IInv, InOperation, Unloaded
  <2>3. Height(block') = 0 /\ stored'[1] = block' /\ 0 <= StoredHeight
    BY <1>0, <1>1, <2>1, <2>2, BlocksAssumption DEF Height
  <2>4. CoinsOfStored' /\ StoredHeight' = StoredHeight
    BY <1>0, <2>1, CoinsKept
  <2>5. CoinsInOperation'
    BY <2>1, <2>3, <2>4 DEF CoinsInOperation
  <2> QED
    BY <2>1, <2>4, <2>5 DEF CoinsInv, SentinelClear
<1>8. CASE ReindexBlock
  <2> DEFINE h == coinDB.height + 1
  <2>1. /\ pc = "reindex" /\ coinDB.height >= 0 /\ coinDB.height < StoredHeight
        /\ ConnectBlock(byHeight, h, "reindex")
    BY <1>8 DEF ReindexBlock
  <2>2. /\ byHeight # << >> /\ byHeight \in Seq(Blocks) /\ Len(byHeight) \in Nat
        /\ byHeight = Path[Last(byHeight)] /\ Len(stored) <= Len(byHeight)
        /\ Compatible(stored, byHeight)
    BY <2>1 DEF IInv, InOperation, InMemory, Unloaded, TypeOK, BestIsPath, Tip
  <2>3. /\ h \in 1..(Len(byHeight) - 1) /\ h < Len(stored) /\ h + 1 \in 1..Len(stored)
        /\ h <= StoredHeight
    BY <1>0, <2>1, <2>2
  <2> HIDE DEF h
  <2>4. /\ ret' = "reindex" /\ Height(block') = h /\ byHeight[h + 1] = block'
        /\ UNCHANGED <<stored, coinDB>>
    BY <2>1, <2>2, <2>3, ConnectBlockStep DEF IInv
  <2>5. pc' = "save"
    BY <2>1, <2>3 DEF ConnectBlock
  <2>6. stored'[h + 1] = block'
    BY <1>0, <2>2, <2>3, <2>4 DEF Compatible
  <2>7. CoinsOfStored' /\ StoredHeight' = StoredHeight
    BY <1>0, <2>4, CoinsKept
  <2>8. CoinsInOperation'
    BY <2>3, <2>4, <2>5, <2>6, <2>7 DEF CoinsInOperation, h
  <2> QED
    BY <2>5, <2>7, <2>8 DEF CoinsInv, SentinelClear
<1>9. CASE ReindexDone
  <2>1. /\ pc = "reindex" /\ coinDB.height >= StoredHeight /\ pc' = "idle" /\ block' = Genesis
        /\ UNCHANGED <<coinDB, stored>>
    BY <1>9 DEF ReindexDone, Return, disk
  <2>2. coinDB.pending = -1 /\ coinDB.height = StoredHeight
    BY <1>0, <2>1 DEF CoinsInv, SentinelClear
  <2> QED
    BY <2>1, <2>2, GoOn
<1>10. CASE StartRebuild
  <2>1. /\ pc = "check" /\ ~NeedsReindex /\ pc' = "rebuild" /\ block' = block
        /\ UNCHANGED <<coinDB, stored>>
    BY <1>10 DEF StartRebuild, Goto, disk
  <2>2. coinDB.pending = -1 /\ Len(stored) >= 1
    BY <1>0, <2>1, EmptySeq DEF CoinsInv, SentinelClear, IInv, InOperation, Unloaded
  <2>3. coinDB.height = StoredHeight
    BY <1>0, <2>1, <2>2 DEF NeedsReindex
  <2> QED
    BY <1>1, <2>1, <2>2, <2>3, GoOn
<1>11. CASE RebuildNames \/ RebuildDone
  <2>1. /\ pc = "rebuild" /\ pc' \in {"wipeNames", "rebuild", "idle"} /\ block' \in {block, Genesis}
        /\ UNCHANGED <<coinDB, stored>>
    BY <1>11 DEF RebuildNames, RebuildDone, Goto, Return, disk
  <2>2. coinDB.pending = -1 /\ coinDB.height = StoredHeight
    BY <2>1 DEF CoinsInv, CoinsInOperation, SentinelClear
  <2> QED
    BY <1>1, <2>1, <2>2, GoOn
<1> QED
  BY <1>2, <1>3, <1>4, <1>5, <1>6, <1>7, <1>8, <1>9, <1>10, <1>11 DEF Start

\* Every step keeps the invariant of the coins.
LEMMA NextCoins ==
    ASSUME IInv, IInv', CoinsInv, LegacyBlocks = 0, ~SubmitUnsynced, [Next]_vars
    PROVE  CoinsInv'
<1>1. CASE Headers
  BY <1>1, HeadersCoins
<1>2. CASE ConnectNext \/ Connect
  BY <1>2, ConnectCoins
<1>3. CASE ResetToStoredHeight \/ RepairTree \/ Recover
  BY <1>3, RecoverCoins
<1>4. CASE Reorganize
  BY <1>4, ReorganizeCoins
<1>5. CASE Start
  BY <1>5, StartCoins
<1>6. CASE Crash
  <2>1. pc' = "down" /\ block' = Genesis /\ UNCHANGED <<coinDB, stored>>
    BY <1>6 DEF Crash, Dies, disk
  <2> QED
    BY <2>1, GoOn DEF Settled, Busy
<1>7. CASE Flush
  <2>1. pc = "idle" /\ UNCHANGED <<pc, ret, block, coinDB, stored>>
    BY <1>7 DEF Flush, control
  <2>2. coinDB.pending = -1 /\ coinDB.height = StoredHeight /\ block = Genesis
    BY <2>1 DEF CoinsInv, CoinsInOperation, SentinelClear, Settled, Busy
  <2> QED
    BY <2>1, <2>2, GoOn DEF Busy
<1>8. CASE UNCHANGED vars
  <2>1. UNCHANGED <<byHeight, coinDB, stored, pc, ret, block, at>>
    BY <1>8 DEF vars, memory, disk, control
  <2>2. CoinsOfStored' /\ StoredHeight' = StoredHeight /\ ForkHeight(block)' = ForkHeight(block)
        /\ Height(block)' = Height(block)
    BY <2>1, CoinsKept DEF CoinsInv, ForkHeight
  <2>3. CoinsInOperation'
    BY <2>1, <2>2 DEF CoinsInv, CoinsInOperation
  <2> QED
    BY <2>1, <2>2, <2>3 DEF CoinsInv, SentinelClear
<1> QED
  BY <1>1, <1>2, <1>3, <1>4, <1>5, <1>6, <1>7, <1>8 DEF Next, Progress, Wait

-----------------------------------------------------------------------------
(* The theorems *)

\* The coins on disk are those of a lower part of the stored blocks in every
\* state, and no reorganisation finds undo data missing.
THEOREM CoinsInvariance ==
    ASSUME LegacyBlocks = 0, ~SubmitUnsynced
    PROVE  Spec => []CoinsInv
<1>1. Init => CoinsInv
  BY InitCoins
<1>2. IInv /\ IInv' /\ CoinsInv /\ [Next]_vars => CoinsInv'
  BY NextCoins
<1> QED
  BY <1>1, <1>2, Invariance, PTL DEF Spec

\* At rest the UTXO set, its undo data and its sentinel are those of the stored
\* blocks, whatever was reorganised, reset, killed and started before.
THEOREM CoinsRecovered ==
    ASSUME LegacyBlocks = 0, ~SubmitUnsynced
    PROVE  Spec => []CoinsMatchBlocks
<1>1. IInv /\ CoinsInv => CoinsMatchBlocks
  <2> SUFFICES ASSUME IInv, CoinsInv, pc = "idle"
               PROVE  /\ coinDB.applied = ToSet(stored)
                      /\ coinDB.height = StoredHeight
                      /\ coinDB.undo = 0..StoredHeight
                      /\ coinDB.pending = -1
    BY DEF CoinsMatchBlocks
  <2>1. /\ coinDB.height = StoredHeight /\ coinDB.pending = -1 /\ CoinsOfStored
    BY DEF CoinsInv, CoinsInOperation, SentinelClear, Settled
  <2>2. coinDB.height + 1 = Len(stored)
    BY <2>1, CoinsRange
  <2> QED
    BY <2>1, <2>2 DEF CoinsOfStored, ToSet
<1> QED
  BY <1>1, Invariance, CoinsInvariance, PTL

-----------------------------------------------------------------------------
(* The name state: the inductive invariant *)

\* Number of blocks whose names the tree and the pending map hold together.
Extent == nameDB.height + 1 + Len(pending)

\* The name block x is block b, or b replayed twice.
NamedAs(x, b) == x = b \/ x = Twice[b]

\* The snapshots of db are those of the commit boundaries up to its height,
\* without a gap, and each is the part of the tree up to its height.  The tree holds the
\* names of the blocks s: the last one may be of a block that was lost before it was
\* stored, any may have been replayed twice, and all of them may have been replayed from
\* the genesis names.
SnapshotsOf(db, s) ==
    /\ DOMAIN db.snapshots = {k \in 0..db.height : k % TreeInterval = 0}
    /\ db.height = -1 => db.tree = << >>
    /\ db.height # -1 =>
        /\ db.height % TreeInterval = 0 /\ db.height <= Len(s) /\ s # << >>
        /\ db.tree = db.snapshots[db.height]
        /\ db.tree[1] \in {Genesis, GenesisReplayed}
    /\ \A i \in 2..(db.height + 1) : i <= Len(s) => NamedAs(db.tree[i], s[i])
    /\ \A k \in DOMAIN db.snapshots :
        /\ Len(db.snapshots[k]) = k + 1
        /\ \A i \in 1..(k + 1) : db.snapshots[k][i] = db.tree[i]

\* The pending map holds blocks of s right above the tree, and no boundary.
PendingOf(db, pend, s) ==
    \A i \in 1..Len(pend) :
        /\ db.height + i < Len(s) /\ NamedAs(pend[i], s[db.height + 1 + i])
        /\ (db.height + i) % TreeInterval # 0

NamesOf(db, pend, s) == SnapshotsOf(db, s) /\ PendingOf(db, pend, s)

\* The stored blocks and the one whose covenants were applied before it is stored.
NamedBlocks == IF pc \in {"mark", "store"} THEN Append(stored, block) ELSE stored

\* How far the names reach while an operation is in progress.  The rebuild of a start is
\* at the next block, or below it when the reset before it has replayed them all.
NamesInOperation ==
    /\ pc \in Unloaded \cup {"align"} \/ (pc = "resetNames" /\ ret # "idle") => pending = << >>
    /\ pc = "check" => pending = << >> \/ Extent = Len(stored)
    /\ pc = "idle" /\ nameDB.height < Len(stored) => Extent = Len(stored)
    /\ pc \in Reorganizing =>
        /\ nameDB.height <= ForkHeight(block)
        /\ nameDB.height < Len(stored) => Extent = Min({ForkHeight(block), StoredHeight}) + 1
    /\ pc = "reindex" => Extent = coinDB.height + 1
    /\ pc = "repair" => at = Extent
    /\ pc = "rebuild" => at > nameDB.height /\ at <= Extent /\ (at = Extent \/ Extent = Len(stored))

\* The block that is being connected and its names.  Up to the boundary below it the tree is
\* the one its header commits to.
NamesOfBlock ==
    /\ pc \in {"mark", "store", "save", "commitGenesis"} /\ block = Genesis =>
        nameDB.height = -1 /\ ret \in {"align", "reindex"}
    /\ pc \in {"mark", "store", "save"} /\ block # Genesis =>
        /\ Extent = Height(block) + 1
        /\ Boundary(Height(block) - 1) <= nameDB.height
        /\ \A i \in 1..(Boundary(Height(block) - 1) + 1) : nameDB.tree[i] = Path[block][i]
        /\ ret \in {"idle", "reindex"}
    /\ pc = "commitGenesis" => block = Genesis

\* What the start relies on before it decides between replay and reindex.
CoinsAtStart ==
    /\ pc \in {"wipeTree", "load", "align", "check"} \/ (pc = "resetNames" /\ ret # "idle") =>
        coinDB.height \in {-1, StoredHeight}
    /\ pc = "resetNames" => ret \in {"idle", "check"}
    /\ pc = "save" /\ ret # "reindex" => Height(block) = StoredHeight
    /\ pc = "commitGenesis" => coinDB.height = 0 /\ (ret # "reindex" => StoredHeight = 0)

NamesInv ==
    NamesOf(nameDB, pending, NamedBlocks) /\ NamesInOperation /\ NamesOfBlock /\ CoinsAtStart

-----------------------------------------------------------------------------
(* Lemmas about commit boundaries *)

\* Multiples of different numbers are at least one interval apart.
LEMMA TimesMonotone ==
    ASSUME NEW p \in Nat, NEW q \in Nat, NEW t \in Nat, p >= q + 1
    PROVE  p * t >= q * t + t
<1>1. PICK d \in Nat : p = q + 1 + d
  <2>1. p - q - 1 \in Nat /\ p = q + 1 + (p - q - 1)
    OBVIOUS
  <2> QED
    BY <2>1
<1>2. (q + 1 + d) * t = q * t + t + d * t
  OBVIOUS
<1>3. d * t \in Nat /\ q * t \in Nat
  OBVIOUS
<1> QED
  BY <1>1, <1>2, <1>3

\* Boundary(h) is a multiple of the interval, and no height above it and up to
\* h is one.
LEMMA BoundaryFacts ==
    ASSUME NEW h \in Nat
    PROVE  /\ Boundary(h) \in Nat /\ Boundary(h) <= h /\ Boundary(h) % TreeInterval = 0
           /\ \A j \in (Boundary(h) + 1)..h : j % TreeInterval # 0
<1> DEFINE t == TreeInterval
           q == h \div t
<1>1. t \in Nat /\ t > 0
  BY ParamsAssumption
<1> HIDE DEF t
<1>2. q \in Nat /\ h = q * t + (h % t) /\ h % t \in 0..(t - 1)
  BY <1>1
<1> HIDE DEF q
<1>3. q * t \in Nat /\ q * t <= h /\ h < q * t + t
  BY <1>1, <1>2
<1>4. (q * t) % t = 0
  BY <1>1, <1>2
<1>5. ASSUME NEW j \in (q * t + 1)..h, j % t = 0 PROVE FALSE
  <2> DEFINE p == j \div t
  <2>1. j \in Nat /\ j > q * t
    BY <1>3
  <2>2. p \in Nat /\ j = p * t
    BY <2>1, <1>1, <1>5
  <2> HIDE DEF p
  <2>3. p >= q + 1
    <3> SUFFICES ASSUME q >= p PROVE FALSE
      BY <1>2, <2>2
    <3>1. CASE q = p
      BY <3>1, <2>1, <2>2
    <3>2. CASE q >= p + 1
      <4>1. q * t >= p * t + t
        BY <3>2, <1>1, <1>2, <2>2, TimesMonotone
      <4> QED
        BY <4>1, <1>1, <1>3, <2>1, <2>2
    <3> QED
      BY <3>1, <3>2, <1>2, <2>2
  <2>4. p * t >= q * t + t
    BY <2>3, <1>1, <1>2, <2>2, TimesMonotone
  <2> QED
    BY <2>2, <2>4, <1>1, <1>3
<1>6. Boundary(h) = q * t
  BY DEF Boundary, q, t
<1> QED
  BY <1>3, <1>4, <1>5, <1>6 DEF t

\* The commit boundary below a block that is not genesis.
LEMMA BoundaryBelow ==
    ASSUME IInv, block # Genesis
    PROVE  /\ Boundary(Height(block) - 1) \in Nat
           /\ Boundary(Height(block) - 1) <= Height(block) - 1
<1>1. /\ Path[block][1] = Genesis /\ Path[block][Len(Path[block])] = block
      /\ Len(Path[block]) \in Nat /\ Len(Path[block]) >= 1
  BY PathFacts DEF IInv, TypeOK
<1>2. Height(block) - 1 \in Nat
  BY <1>1 DEF Height
<1> QED
  BY <1>2, BoundaryFacts

\* Genesis is at a commit boundary.
LEMMA ZeroIsBoundary == 0 % TreeInterval = 0
  BY ParamsAssumption

-----------------------------------------------------------------------------
(* Lemmas about the name state *)

\* What SnapshotsOf and PendingOf say of numbers and lengths.
LEMMA NamesRange ==
    ASSUME IInv, NEW s \in Seq(Blocks), NamesOf(nameDB, pending, s)
    PROVE  /\ nameDB.height \in Int /\ nameDB.height >= -1
           /\ Len(pending) \in Nat /\ Extent \in Nat
           /\ pending \in Seq(NameBlocks) /\ nameDB.tree \in Seq(NameBlocks)
           /\ Len(nameDB.tree) = nameDB.height + 1
           /\ nameDB.height = -1 => pending = << >>
           /\ nameDB.height # -1 => nameDB.height \in DOMAIN nameDB.snapshots
           /\ nameDB.height < Len(s) => Extent <= Len(s)
           /\ nameDB.height >= Len(s) => pending = << >>
<1>1. /\ nameDB.height \in Nat \cup {-1} /\ pending \in Seq(NameBlocks) /\ Len(pending) \in Nat
      /\ nameDB.tree \in Seq(NameBlocks) /\ Len(s) \in Nat
  BY DEF IInv, TypeOK
<1>2. Len(nameDB.tree) = nameDB.height + 1
  <2>1. CASE nameDB.height = -1
    BY <2>1 DEF NamesOf, SnapshotsOf
  <2>2. CASE nameDB.height # -1
    <3>1. nameDB.height \in {k \in 0..nameDB.height : k % TreeInterval = 0}
      BY <1>1, <2>2 DEF NamesOf, SnapshotsOf
    <3> QED
      BY <2>2, <3>1 DEF NamesOf, SnapshotsOf
  <2> QED
    BY <2>1, <2>2
<1>3. nameDB.height # -1 => nameDB.height \in DOMAIN nameDB.snapshots
  BY <1>1 DEF NamesOf, SnapshotsOf
<1>4. \A i \in 1..Len(pending) :
         nameDB.height + i < Len(s) /\ (nameDB.height + i) % TreeInterval # 0
  BY DEF NamesOf, PendingOf
<1>5. pending # << >> => 1 \in 1..Len(pending) /\ Len(pending) \in 1..Len(pending)
  BY <1>1, EmptySeq
<1>6. nameDB.height = -1 => pending = << >>
  <2> SUFFICES ASSUME nameDB.height = -1, pending # << >> PROVE FALSE
    OBVIOUS
  <2>1. (-1 + 1) % TreeInterval # 0
    BY <1>4, <1>5
  <2> QED
    BY <2>1, ZeroIsBoundary
<1>7. nameDB.height < Len(s) => Extent <= Len(s)
  <2>1. CASE pending = << >>
    BY <1>1, <2>1 DEF Extent
  <2>2. CASE pending # << >>
    <3>1. nameDB.height + Len(pending) < Len(s)
      BY <1>4, <1>5, <2>2
    <3> QED
      BY <1>1, <3>1 DEF Extent
  <2> QED
    BY <2>1, <2>2
<1>8. nameDB.height >= Len(s) => pending = << >>
  <2> SUFFICES ASSUME nameDB.height >= Len(s), pending # << >> PROVE FALSE
    OBVIOUS
  <2>1. nameDB.height + 1 < Len(s)
    BY <1>4, <1>5
  <2> QED
    BY <1>1, <2>1
<1>9. nameDB.height \in Int /\ nameDB.height >= -1 /\ Extent \in Nat
  BY <1>1 DEF Extent
<1> QED
  BY <1>1, <1>2, <1>3, <1>6, <1>7, <1>8, <1>9

\* The snapshots are also those of a chain t that agrees with s as far as they go.
LEMMA SnapshotsCarry ==
    ASSUME NEW db, db.height \in Nat \cup {-1},
           NEW s \in Seq(Blocks), NEW t \in Seq(Blocks), SnapshotsOf(db, s),
           db.height # -1 => db.height <= Len(t) /\ t # << >>,
           \A i \in 1..(db.height + 1) : i <= Len(t) => i <= Len(s) /\ t[i] = s[i]
    PROVE  SnapshotsOf(db, t)
<1>1. ASSUME NEW i \in 2..(db.height + 1), i <= Len(t)
      PROVE  NamedAs(db.tree[i], t[i])
  <2>1. i \in 1..(db.height + 1)
    OBVIOUS
  <2>2. i <= Len(s) /\ t[i] = s[i]
    BY <1>1, <2>1
  <2> QED
    BY <2>2 DEF SnapshotsOf
<1> QED
  BY <1>1 DEF SnapshotsOf

\* The elements of two sequences put together.
LEMMA ConcatFacts ==
    ASSUME NEW S, NEW u \in Seq(S), NEW v \in Seq(S), NEW e, e = u \o v
    PROVE  /\ Len(e) = Len(u) + Len(v)
           /\ \A i \in 1..(Len(u) + Len(v)) :
                 e[i] = IF i <= Len(u) THEN u[i] ELSE v[i - Len(u)]
  BY ConcatProperties

\* The next block of s goes into the pending map or, at a boundary, with it
\* into the tree.
LEMMA CommitCarries ==
    ASSUME IInv, NEW s \in Seq(Blocks), NamesOf(nameDB, pending, s),
           Extent < Len(s), Extent % TreeInterval = 0, NEW b \in NameBlocks,
           IF Extent = 0 THEN b \in {Genesis, GenesisReplayed} ELSE b = s[Extent + 1],
           nameDB' = Committed(Extent, Append(pending, b)), pending' = << >>
    PROVE  /\ NamesOf(nameDB', pending', s) /\ nameDB'.height = Extent
           /\ \A i \in 1..(nameDB.height + 1) : nameDB'.tree[i] = nameDB.tree[i]
<1> DEFINE n == Extent
           h == nameDB.height
           new == Append(pending, b)
           tree == nameDB.tree \o new
           dom == DOMAIN nameDB.snapshots \cup {n}
           snap == [k \in dom |-> IF k = n THEN tree ELSE nameDB.snapshots[k]]
<1>1. /\ h \in Int /\ h >= -1 /\ Len(pending) \in Nat /\ n \in Nat /\ n = h + 1 + Len(pending)
      /\ pending \in Seq(NameBlocks) /\ nameDB.tree \in Seq(NameBlocks)
      /\ Len(nameDB.tree) = h + 1 /\ (h = -1 => pending = << >>)
      /\ h # -1 => h \in DOMAIN nameDB.snapshots
      /\ n < Len(s) /\ n % TreeInterval = 0 /\ Len(s) \in Nat
      /\ IF n = 0 THEN b \in {Genesis, GenesisReplayed} ELSE b = s[n + 1]
  BY NamesRange DEF Extent
<1>2. nameDB' = [height |-> n, tree |-> tree, snapshots |-> snap]
  BY DEF Committed
<1> HIDE DEF n, h, new, tree, dom, snap
<1>3. nameDB'.height = n /\ nameDB'.tree = tree /\ nameDB'.snapshots = snap
  BY <1>2
<1>4. /\ new \in Seq(NameBlocks) /\ Len(new) = Len(pending) + 1
      /\ \A i \in 1..Len(pending) : new[i] = pending[i]
      /\ new[Len(pending) + 1] = b
  BY <1>1, AppendProperties DEF new
<1>5. /\ Len(tree) = n + 1
      /\ \A i \in 1..(n + 1) : tree[i] = IF i <= h + 1 THEN nameDB.tree[i]
                                         ELSE new[i - (h + 1)]
  <2>1. /\ Len(tree) = Len(nameDB.tree) + Len(new)
        /\ \A i \in 1..(Len(nameDB.tree) + Len(new)) :
              tree[i] = IF i <= Len(nameDB.tree) THEN nameDB.tree[i]
                        ELSE new[i - Len(nameDB.tree)]
    <3>1. tree = nameDB.tree \o new
      BY DEF tree
    <3>2. nameDB.tree \in Seq(NameBlocks) /\ new \in Seq(NameBlocks)
      BY <1>1, <1>4
    <3> QED
      BY <3>1, <3>2, ConcatFacts
  <2>2. Len(nameDB.tree) + Len(new) = n + 1
    BY <1>1, <1>4
  <2> QED
    BY <1>1, <2>1, <2>2
<1>6. tree[1] = IF h = -1 THEN b ELSE nameDB.tree[1]
  <2>1. CASE h = -1
    <3>1. pending = << >> /\ n = 0 /\ Len(pending) = 0
      BY <1>1, <2>1
    <3> QED
      BY <1>1, <1>4, <1>5, <2>1, <3>1
  <2>2. CASE h # -1
    <3>1. 1 \in 1..(n + 1) /\ 1 <= h + 1
      BY <1>1, <2>2
    <3> QED
      BY <1>5, <2>2, <3>1
  <2> QED
    BY <2>1, <2>2
<1>7. tree[1] \in {Genesis, GenesisReplayed}
  <2>1. CASE h = -1
    <3>1. n = 0
      BY <1>1, <2>1
    <3> QED
      BY <1>1, <1>6, <2>1, <3>1
  <2>2. CASE h # -1
    BY <1>6, <2>2 DEF NamesOf, SnapshotsOf, h
  <2> QED
    BY <2>1, <2>2
<1>8. ASSUME NEW i \in 2..(n + 1) PROVE NamedAs(tree[i], s[i])
  <2>1. CASE i <= h + 1
    <3>1. h # -1 /\ i \in 2..(h + 1) /\ i <= Len(s) /\ i \in 1..(n + 1)
      BY <1>1, <2>1
    <3>2. NamedAs(nameDB.tree[i], s[i])
      BY <1>1, <3>1 DEF NamesOf, SnapshotsOf, h
    <3> QED
      BY <1>5, <2>1, <3>1, <3>2
  <2>2. CASE i > h + 1 /\ i <= n
    <3>1. /\ i - (h + 1) \in 1..Len(pending) /\ i \in 1..(n + 1) /\ ~(i <= h + 1)
          /\ h + 1 + (i - (h + 1)) = i
      BY <1>1, <2>2
    <3>2. NamedAs(pending[i - (h + 1)], s[h + 1 + (i - (h + 1))])
      BY <3>1 DEF NamesOf, PendingOf, h
    <3> QED
      BY <1>4, <1>5, <3>1, <3>2
  <2>3. CASE i = n + 1
    <3>1. n # 0 /\ i \in 1..(n + 1) /\ ~(i <= h + 1) /\ i - (h + 1) = Len(pending) + 1
      BY <1>1, <2>3
    <3> QED
      BY <1>1, <1>4, <1>5, <2>3, <3>1 DEF NamedAs
  <2> QED
    BY <1>1, <2>1, <2>2, <2>3
<1>9. dom = {k \in 0..n : k % TreeInterval = 0} /\ n \notin DOMAIN nameDB.snapshots
  <2>1. DOMAIN nameDB.snapshots = {k \in 0..h : k % TreeInterval = 0}
    BY DEF NamesOf, SnapshotsOf, h
  <2>2. ASSUME NEW k \in 0..n, k % TreeInterval = 0, k > h PROVE k = n
    <3> SUFFICES ASSUME k # n PROVE FALSE
      OBVIOUS
    <3>1. k - h \in 1..Len(pending) /\ h + (k - h) = k
      BY <1>1, <2>2
    <3>2. (h + (k - h)) % TreeInterval # 0
      BY <3>1 DEF NamesOf, PendingOf, h
    <3> QED
      BY <2>2, <3>1, <3>2
  <2>3. n % TreeInterval = 0 /\ n > h
    BY <1>1
  <2> QED
    BY <1>1, <2>1, <2>2, <2>3 DEF dom
<1>10. SnapshotsOf(nameDB', s)
  <2>1. DOMAIN snap = dom /\ snap[n] = tree /\ n \in dom
    BY <1>1, <1>9 DEF snap
  <2>2. ASSUME NEW k \in dom
        PROVE  /\ Len(snap[k]) = k + 1
               /\ \A i \in 1..(k + 1) : snap[k][i] = tree[i]
    <3>1. CASE k = n
      BY <2>1, <3>1, <1>5
    <3>2. CASE k # n
      <4>1. k \in DOMAIN nameDB.snapshots /\ snap[k] = nameDB.snapshots[k]
        BY <2>2, <3>2 DEF dom, snap
      <4>2. k \in 0..h
        BY <4>1 DEF NamesOf, SnapshotsOf, h
      <4>3. \A i \in 1..(k + 1) : i \in 1..(n + 1) /\ i <= h + 1
        BY <4>2, <1>1
      <4> QED
        BY <4>1, <4>3, <1>5 DEF NamesOf, SnapshotsOf
    <3> QED
      BY <3>1, <3>2
  <2>3. n # -1 /\ n <= Len(s) /\ s # << >> /\ n % TreeInterval = 0
    BY <1>1, EmptySeq
  <2> QED
    BY <1>3, <1>7, <1>8, <1>9, <2>1, <2>2, <2>3 DEF SnapshotsOf
<1>11. PendingOf(nameDB', pending', s)
  <2>1. Len(pending') = 0
    OBVIOUS
  <2> QED
    BY <2>1 DEF PendingOf
<1>12. \A i \in 1..(h + 1) : tree[i] = nameDB.tree[i]
  BY <1>1, <1>5
<1> QED
  BY <1>3, <1>10, <1>11, <1>12 DEF NamesOf, n, h

\* Applying the next block of s keeps the names those of s, and replay goes on above it.
LEMMA ApplyCarries ==
    ASSUME IInv, NEW s \in Seq(Blocks), NamesOf(nameDB, pending, s),
           Extent < Len(s), NEW b \in NameBlocks,
           IF Extent = 0 THEN b \in {Genesis, GenesisReplayed} ELSE b = s[Extent + 1],
           NamesUpTo(Extent, Append(pending, b))
    PROVE  /\ NamesOf(nameDB', pending', s) /\ Extent' = Extent + 1
           /\ nameDB.height <= nameDB'.height
           /\ \A i \in 1..(nameDB.height + 1) : nameDB'.tree[i] = nameDB.tree[i]
<1>1. /\ nameDB.height \in Int /\ Len(pending) \in Nat /\ Extent \in Nat
      /\ Extent = nameDB.height + 1 + Len(pending)
      /\ pending \in Seq(NameBlocks) /\ (nameDB.height = -1 => pending = << >>)
  BY NamesRange DEF Extent
<1>2. CASE Extent % TreeInterval = 0
  <2>1. nameDB' = Committed(Extent, Append(pending, b)) /\ pending' = << >>
    BY <1>2 DEF NamesUpTo
  <2>2. /\ NamesOf(nameDB', pending', s) /\ nameDB'.height = Extent
        /\ \A i \in 1..(nameDB.height + 1) : nameDB'.tree[i] = nameDB.tree[i]
    BY <1>2, <2>1, CommitCarries
  <2>3. Extent' = Extent + 1
    <3>1. Extent' = nameDB'.height + 1 + Len(pending') /\ Len(pending') = 0
      BY <2>1 DEF Extent
    <3> QED
      BY <1>1, <2>2, <3>1
  <2> QED
    BY <1>1, <2>2, <2>3
<1>3. CASE Extent % TreeInterval # 0
  <2> DEFINE n == Extent
             h == nameDB.height
  <2>1. pending' = Append(pending, b) /\ nameDB' = nameDB
    BY <1>3 DEF NamesUpTo
  <2>2. /\ Len(pending') = Len(pending) + 1 /\ pending'[Len(pending) + 1] = b
        /\ \A i \in 1..Len(pending) : pending'[i] = pending[i]
    BY <1>1, <2>1, AppendProperties
  <2>3. n # 0 /\ b = s[n + 1] /\ n < Len(s) /\ n % TreeInterval # 0 /\ n = h + 1 + Len(pending)
    BY <1>1, <1>3, ZeroIsBoundary
  <2> HIDE DEF n, h
  <2>4. Extent' = n + 1
    <3>1. Extent' = nameDB'.height + 1 + Len(pending')
      BY DEF Extent
    <3> QED
      BY <1>1, <2>1, <2>2, <2>3, <3>1 DEF h
  <2>5. PendingOf(nameDB', pending', s)
    <3> SUFFICES ASSUME NEW i \in 1..(Len(pending) + 1)
                 PROVE  /\ h + i < Len(s) /\ NamedAs(pending'[i], s[h + 1 + i])
                        /\ (h + i) % TreeInterval # 0
      BY <2>1, <2>2 DEF PendingOf, h
    <3>1. CASE i \in 1..Len(pending)
      BY <2>2, <3>1 DEF NamesOf, PendingOf, h
    <3>2. CASE i = Len(pending) + 1
      <4>1. h + i = n /\ h + 1 + i = n + 1
        <5>1. h \in Int
          BY <1>1 DEF h
        <5> QED
          BY <1>1, <2>3, <3>2, <5>1
      <4> QED
        BY <2>2, <2>3, <3>2, <4>1 DEF NamedAs
    <3> QED
      BY <1>1, <3>1, <3>2
  <2> QED
    BY <1>1, <2>1, <2>4, <2>5 DEF NamesOf, n
<1> QED
  BY <1>2, <1>3

\* Replaying the block right above the names adds it to them.
LEMMA ReplayedNext ==
    ASSUME IInv, NEW s \in Seq(Blocks), NamesOf(nameDB, pending, s), at = Extent,
           NamesUpTo(at, Replayed(at, s[at + 1]))
    PROVE  NamesUpTo(at, Append(pending, s[at + 1]))
<1>1. /\ nameDB.height \in Int /\ Len(pending) \in Nat /\ at = nameDB.height + 1 + Len(pending)
  BY NamesRange DEF Extent
<1>2. ~(at <= nameDB.height + Len(pending))
  BY <1>1
<1> QED
  BY <1>2 DEF Replayed

\* A block that is pending already takes its own place, and goes no further.
LEMMA ReplayTwiceCarries ==
    ASSUME IInv, NEW s \in Seq(Blocks), NamesOf(nameDB, pending, s),
           at > nameDB.height, at < Extent, at < Len(s),
           NamesUpTo(at, Replayed(at, s[at + 1]))
    PROVE  NamesOf(nameDB', pending', s) /\ nameDB' = nameDB /\ Extent' = Extent
<1> DEFINE h == nameDB.height
           n == at - h
           b == s[at + 1]
<1>1. /\ h \in Int /\ Len(pending) \in Nat /\ at \in Nat /\ Extent = h + 1 + Len(pending)
      /\ pending \in Seq(NameBlocks) /\ Len(s) \in Nat
  BY NamesRange DEF Extent, IInv, TypeOK
<1>2. n \in 1..Len(pending) /\ at <= h + Len(pending) /\ h + n = at /\ h + 1 + n = at + 1
  BY <1>1
<1>3. b \in Blocks
  <2>1. at + 1 \in 1..Len(s)
    BY <1>1
  <2> QED
    BY <2>1, ElementOfSeq
<1>4. at % TreeInterval # 0
  <2> HIDE DEF n
  <2>1. (h + n) % TreeInterval # 0
    BY <1>2 DEF NamesOf, PendingOf
  <2> QED
    BY <1>2, <2>1
<1>5. nameDB' = nameDB /\ pending' = [pending EXCEPT ![n] = Twice[b]]
  BY <1>2, <1>4 DEF NamesUpTo, Replayed
<1> HIDE DEF n, b
<1>6. /\ Len(pending') = Len(pending)
      /\ \A i \in 1..Len(pending) : pending'[i] = IF i = n THEN Twice[b] ELSE pending[i]
  <2>1. Twice[b] \in NameBlocks
    BY <1>3 DEF NameBlocks
  <2> QED
    BY <1>1, <1>2, <1>5, <2>1, ExceptSeq
<1>7. Extent' = Extent
  BY <1>5, <1>6 DEF Extent
<1>8. PendingOf(nameDB', pending', s)
  <2> SUFFICES ASSUME NEW i \in 1..Len(pending)
               PROVE  /\ h + i < Len(s) /\ NamedAs(pending'[i], s[h + 1 + i])
                      /\ (h + i) % TreeInterval # 0
    BY <1>5, <1>6 DEF PendingOf
  <2>1. /\ h + i < Len(s) /\ NamedAs(pending[i], s[h + 1 + i]) /\ (h + i) % TreeInterval # 0
    BY DEF NamesOf, PendingOf
  <2>2. CASE i = n
    <3>1. s[h + 1 + i] = b
      BY <1>2, <2>2 DEF b
    <3> QED
      BY <1>6, <2>1, <2>2, <3>1 DEF NamedAs
  <2>3. CASE i # n
    BY <1>6, <2>1, <2>3
  <2> QED
    BY <2>2, <2>3
<1> QED
  BY <1>5, <1>7, <1>8 DEF NamesOf

\* An emptied name state is that of no block.
LEMMA EmptyCarries ==
    ASSUME NEW s \in Seq(Blocks), nameDB' = EmptyNames, pending' = << >>
    PROVE  NamesOf(nameDB', pending', s) /\ nameDB'.height = -1 /\ Extent' = 0
<1>1. /\ nameDB'.height = -1 /\ nameDB'.tree = << >> /\ nameDB'.snapshots = << >>
      /\ DOMAIN << >> = {} /\ Len(pending') = 0
  BY DEF EmptyNames
<1>2. {k \in 0..(-1) : k % TreeInterval = 0} = {}
  OBVIOUS
<1>3. Extent' = nameDB'.height + 1 + Len(pending')
  BY DEF Extent
<1> QED
  BY <1>1, <1>2, <1>3 DEF NamesOf, SnapshotsOf, PendingOf

\* A rollback to h leaves the names of the stored blocks up to h.
LEMMA RollBackCarries ==
    ASSUME IInv, NamesOf(nameDB, pending, stored), NEW h \in Nat, CanRollBack(h), RollBackNames(h)
    PROVE  /\ NamesOf(nameDB', pending', stored)
           /\ nameDB'.height = Boundary(h) /\ nameDB'.height <= h
           /\ nameDB'.height \in Nat /\ nameDB'.height <= Len(stored)
           /\ nameDB'.height < Len(stored) => Extent' = Min({h, StoredHeight}) + 1
           /\ nameDB'.height >= Len(stored) => pending' = << >>
<1> DEFINE c == Boundary(h)
           m == Min({h + 1, Len(stored)})
           kept == DOMAIN nameDB.snapshots \ StaleSnapshots(c)
           top == nameDB.height
<1>1. /\ c \in Nat /\ c <= h /\ c % TreeInterval = 0
      /\ \A j \in (c + 1)..h : j % TreeInterval # 0
  BY BoundaryFacts
<1>2. /\ stored \in Seq(Blocks) /\ Len(stored) \in Nat /\ StoredHeight = Len(stored) - 1
  BY DEF IInv, TypeOK, StoredHeight
<1>3. /\ m = IF h + 1 <= Len(stored) THEN h + 1 ELSE Len(stored)
      /\ m = Min({h, StoredHeight}) + 1
  <2>1. m = IF h + 1 <= Len(stored) THEN h + 1 ELSE Len(stored)
    BY <1>2, MinOfTwo
  <2>2. Min({h, StoredHeight}) = IF h <= StoredHeight THEN h ELSE StoredHeight
    BY <1>2, MinOfTwo
  <2> HIDE DEF m
  <2> QED
    BY <1>2, <2>1, <2>2
<1>4. nameDB' = [height |-> c, tree |-> nameDB.snapshots[c],
                 snapshots |-> [k \in kept |-> nameDB.snapshots[k]]]
      /\ pending' = SubSeq(stored, c + 2, m)
  BY DEF RollBackNames
<1>5. /\ DOMAIN nameDB.snapshots = {k \in 0..top : k % TreeInterval = 0}
      /\ c \in DOMAIN nameDB.snapshots
  BY DEF CanRollBack, NamesOf, SnapshotsOf
<1>6. top \in Nat /\ c <= top /\ top <= Len(stored) /\ stored # << >>
  <2>1. top \in Nat \cup {-1}
    BY DEF IInv, TypeOK
  <2>2. c \in 0..top
    BY <1>5
  <2> QED
    BY <1>1, <2>1, <2>2 DEF NamesOf, SnapshotsOf
<1>7. kept = {k \in 0..c : k % TreeInterval = 0}
  <2>1. StaleSnapshots(c) = {k \in DOMAIN nameDB.snapshots : k > c}
    <3>1. ASSUME NEW k \in DOMAIN nameDB.snapshots, NEW j \in (c + 1)..k, j % TreeInterval = 0
          PROVE  j \in DOMAIN nameDB.snapshots
      BY <1>1, <1>5, <1>6, <3>1
    <3> QED
      BY <3>1 DEF StaleSnapshots
  <2> QED
    BY <1>1, <1>5, <1>6, <2>1
<1> HIDE DEF c, m, kept, top
<1>8. /\ nameDB'.height = c /\ nameDB'.tree = nameDB.snapshots[c]
      /\ nameDB'.snapshots = [k \in kept |-> nameDB.snapshots[k]]
  BY <1>4
<1>9. /\ kept \subseteq DOMAIN nameDB.snapshots /\ c \in kept
      /\ \A i \in 1..(c + 1) : nameDB.snapshots[c][i] = nameDB.tree[i]
      /\ nameDB.tree[1] \in {Genesis, GenesisReplayed}
  <2>1. kept \subseteq DOMAIN nameDB.snapshots /\ c \in kept
    BY <1>1, <1>5, <1>6, <1>7
  <2>2. nameDB.height # -1
    BY <1>6 DEF top
  <2> QED
    BY <1>5, <2>1, <2>2 DEF NamesOf, SnapshotsOf
<1>10. SnapshotsOf(nameDB', stored)
  <2>1. /\ DOMAIN nameDB'.snapshots = kept
        /\ \A k \in kept : nameDB'.snapshots[k] = nameDB.snapshots[k]
    BY <1>8
  <2>2. ASSUME NEW k \in kept
        PROVE  /\ Len(nameDB.snapshots[k]) = k + 1
               /\ \A i \in 1..(k + 1) : nameDB.snapshots[k][i] = nameDB.snapshots[c][i]
    <3>1. k \in 0..c
      BY <1>7
    <3>2. \A i \in 1..(k + 1) : i \in 1..(c + 1)
      BY <1>1, <3>1
    <3> QED
      BY <1>9, <3>2 DEF NamesOf, SnapshotsOf
  <2>3. c # -1 /\ c <= Len(stored)
    BY <1>1, <1>2, <1>6
  <2>4. nameDB.snapshots[c][1] \in {Genesis, GenesisReplayed}
    <3>1. 1 \in 1..(c + 1)
      BY <1>1
    <3> QED
      BY <1>9, <3>1
  <2>5. ASSUME NEW i \in 2..(c + 1), i <= Len(stored)
        PROVE  NamedAs(nameDB.snapshots[c][i], stored[i])
    <3>1. i \in 1..(c + 1) /\ i \in 2..(nameDB.height + 1)
      BY <1>1, <1>6 DEF top
    <3> QED
      BY <1>9, <2>5, <3>1 DEF NamesOf, SnapshotsOf
  <2> QED
    BY <1>1, <1>6, <1>7, <1>8, <1>9, <2>1, <2>2, <2>3, <2>4, <2>5 DEF SnapshotsOf
<1>11. /\ Len(pending') = IF c < Len(stored) THEN m - (c + 1) ELSE 0
       /\ \A i \in 1..Len(pending') : pending'[i] = stored[c + 1 + i]
  <2>1. m \in Int /\ m <= Len(stored) /\ c + 2 \in Int /\ m <= h + 1
        /\ (c < Len(stored) => c + 1 <= m) /\ (c >= Len(stored) => c + 2 > m)
    BY <1>1, <1>2, <1>3
  <2>2. \A i \in (c + 2)..m : stored[i] \in Blocks
    BY <1>1, <1>2, <2>1, ElementOfSeq
  <2>3. /\ Len(SubSeq(stored, c + 2, m)) = IF c + 2 <= m THEN m - (c + 2) + 1 ELSE 0
        /\ \A i \in 1..(m - (c + 2) + 1) : SubSeq(stored, c + 2, m)[i] = stored[(c + 2) + i - 1]
    BY <2>1, <2>2, SubSeqProperties
  <2>4. Len(pending') = IF c < Len(stored) THEN m - (c + 1) ELSE 0
    BY <1>1, <1>2, <1>4, <2>1, <2>3
  <2>5. ASSUME NEW i \in 1..Len(pending') PROVE pending'[i] = stored[c + 1 + i]
    <3>1. i \in 1..(m - (c + 2) + 1) /\ (c + 2) + i - 1 = c + 1 + i
      BY <1>1, <1>2, <2>1, <2>4
    <3> QED
      BY <1>4, <2>3, <3>1
  <2> QED
    BY <2>4, <2>5
<1>12. PendingOf(nameDB', pending', stored)
  <2> SUFFICES ASSUME NEW i \in 1..Len(pending')
               PROVE  c + i < Len(stored) /\ (c + i) % TreeInterval # 0
    BY <1>8, <1>11 DEF PendingOf, NamedAs
  <2>1. c + i \in (c + 1)..h /\ c + i < Len(stored)
    BY <1>1, <1>2, <1>3, <1>11
  <2> QED
    BY <1>1, <2>1
<1>13. c < Len(stored) => Extent' = Min({h, StoredHeight}) + 1
  <2> SUFFICES ASSUME c < Len(stored) PROVE Extent' = Min({h, StoredHeight}) + 1
    OBVIOUS
  <2>1. Extent' = nameDB'.height + 1 + Len(pending')
    BY DEF Extent
  <2>2. Extent' = c + 1 + (m - (c + 1))
    BY <1>8, <1>11, <2>1
  <2>3. m \in Int
    BY <1>2, <1>3
  <2>4. c + 1 + (m - (c + 1)) = m
    BY <1>1, <2>3
  <2> QED
    BY <1>3, <2>2, <2>4
<1>14. c >= Len(stored) => pending' = << >>
  <2>1. c >= Len(stored) => c + 2 > m
    BY <1>1, <1>2, <1>3
  <2>2. c >= Len(stored) => SubSeq(stored, c + 2, m) = << >>
    BY <2>1, <1>1, <1>2, <1>3, SubSeqEmpty
  <2> QED
    BY <1>4, <2>2
<1> QED
  BY <1>1, <1>6, <1>8, <1>10, <1>12, <1>13, <1>14 DEF NamesOf, c

-----------------------------------------------------------------------------
(* Lemmas about the parts of a step *)

Connecting == {"mark", "store", "save", "commitGenesis"}

\* The names are those of the stored blocks unless a block waits to be stored.
LEMMA NamesOfStored ==
    ASSUME IInv, NamesInv, pc \notin {"mark", "store"}
    PROVE  /\ NamesOf(nameDB, pending, stored) /\ stored \in Seq(Blocks) /\ Len(stored) \in Nat
           /\ StoredHeight = Len(stored) - 1
  BY DEF NamesInv, NamedBlocks, IInv, TypeOK, StoredHeight

\* A step to a position where no block is being connected or reorganised to.
LEMMA ArriveAt ==
    ASSUME NamesOf(nameDB', pending', stored'),
           pc' \notin Connecting \cup Reorganizing,
           pc' \in Unloaded \cup {"align"} \/ (pc' = "resetNames" /\ ret' # "idle") =>
               pending' = << >>,
           pc' = "check" => pending' = << >> \/ Extent' = Len(stored'),
           pc' = "idle" /\ nameDB'.height < Len(stored') => Extent' = Len(stored'),
           pc' = "reindex" => Extent' = coinDB'.height + 1,
           pc' = "repair" => at' = Extent',
           pc' = "rebuild" => /\ at' > nameDB'.height /\ at' <= Extent'
                              /\ at' = Extent' \/ Extent' = Len(stored'),
           pc' \in {"wipeTree", "load", "align", "check"} \/ (pc' = "resetNames" /\ ret' # "idle")
               => coinDB'.height \in {-1, StoredHeight'},
           pc' = "resetNames" => ret' \in {"idle", "check"}
    PROVE  NamesInv'
<1>1. NamesOf(nameDB, pending, NamedBlocks)'
  BY DEF NamedBlocks, Connecting
<1>2. NamesInOperation'
  BY DEF NamesInOperation, Connecting
<1>3. NamesOfBlock'
  BY DEF NamesOfBlock, Connecting
<1>4. CoinsAtStart'
  BY DEF CoinsAtStart, Connecting
<1> QED
  BY <1>1, <1>2, <1>3, <1>4 DEF NamesInv

\* What a dead process leaves on disk is right also when it was about to store
\* a block whose names are already committed.
LEMMA DiesNames ==
    ASSUME IInv, CoinsInv, NamesInv, UNCHANGED <<nameDB, stored>>, pending' = << >>,
           pc' \in {"down", "failed"}
    PROVE  NamesInv'
<1>1. stored \in Seq(Blocks) /\ Len(stored) \in Nat /\ block \in Blocks
      /\ nameDB.height \in Nat \cup {-1}
  BY DEF IInv, TypeOK
<1>2. SnapshotsOf(nameDB, stored)
  <2>1. CASE pc \notin {"mark", "store"}
    BY <2>1, NamesOfStored DEF NamesOf
  <2>2. CASE pc \in {"mark", "store"}
    <3> DEFINE s == Append(stored, block)
    <3>1. /\ s \in Seq(Blocks) /\ Len(s) = Len(stored) + 1
          /\ \A i \in 1..Len(stored) : s[i] = stored[i]
      BY <1>1, AppendProperties
    <3>2. NamesOf(nameDB, pending, s)
      BY <2>2 DEF NamesInv, NamedBlocks
    <3> HIDE DEF s
    <3>3. nameDB.height # -1 => nameDB.height <= Len(stored) /\ stored # << >>
      <4>1. CASE block = Genesis
        BY <2>2, <4>1 DEF NamesInv, NamesOfBlock
      <4>2. CASE block # Genesis
        <5>1. Extent = Len(stored) + 1 /\ stored # << >>
          BY <2>2, <4>2 DEF NamesInv, NamesOfBlock, CoinsInv, CoinsInOperation, IInv, InOperation
        <5>2. Len(pending) \in Nat /\ Extent = nameDB.height + 1 + Len(pending)
          BY DEF IInv, TypeOK, Extent
        <5> QED
          BY <1>1, <5>1, <5>2
      <4> QED
        BY <4>1, <4>2
    <3>4. \A i \in 1..(nameDB.height + 1) : i <= Len(stored) => i <= Len(s) /\ stored[i] = s[i]
      BY <1>1, <3>1
    <3>5. SnapshotsOf(nameDB, s)
      BY <3>2 DEF NamesOf
    <3> QED
      BY <1>1, <3>1, <3>3, <3>4, <3>5, SnapshotsCarry
  <2> QED
    BY <2>1, <2>2
<1>3. PendingOf(nameDB, << >>, stored)
  BY DEF PendingOf
<1> QED
  BY <1>2, <1>3, ArriveAt DEF NamesOf, Connecting, Reorganizing

-----------------------------------------------------------------------------
(* The steps *)

\* A new node, empty or with genesis, satisfies the invariant.
LEMMA InitNames == Init => NamesInv
<1> SUFFICES ASSUME Init PROVE NamesInv
  OBVIOUS
<1>1. /\ pc = "down" /\ pending = << >> /\ Len(pending) = 0 /\ Genesis \in Blocks
  BY BlocksAssumption DEF Init
<1>2. SnapshotsOf(nameDB, stored)
  <2>1. CASE FreshStart
    <3>1. /\ nameDB.height = -1 /\ nameDB.tree = << >> /\ nameDB.snapshots = << >>
          /\ DOMAIN << >> = {}
      BY <2>1 DEF Init, EmptyNames
    <3>2. {k \in 0..(-1) : k % TreeInterval = 0} = {}
      OBVIOUS
    <3> QED
      BY <3>1, <3>2 DEF SnapshotsOf
  <2>2. CASE ~FreshStart
    <3>1. /\ nameDB.height = 0 /\ nameDB.tree = <<Genesis>>
          /\ nameDB.snapshots = [k \in {0} |-> <<Genesis>>]
          /\ stored = <<Genesis>> /\ Len(stored) = 1 /\ Len(<<Genesis>>) = 1
          /\ <<Genesis>>[1] = Genesis
      BY <2>2 DEF Init
    <3>2. {k \in 0..0 : k % TreeInterval = 0} = {0}
      BY ZeroIsBoundary
    <3>3. DOMAIN nameDB.snapshots = {0} /\ nameDB.snapshots[0] = <<Genesis>>
      BY <3>1
    <3> QED
      BY <3>1, <3>2, <3>3, ZeroIsBoundary DEF SnapshotsOf
  <2> QED
    BY <2>1, <2>2
<1>3. PendingOf(nameDB, pending, stored)
  BY <1>1 DEF PendingOf
<1>4. NamesInOperation /\ NamesOfBlock /\ CoinsAtStart
  BY <1>1 DEF NamesInOperation, NamesOfBlock, CoinsAtStart, Unloaded, Reorganizing
<1> QED
  BY <1>1, <1>2, <1>3, <1>4 DEF NamesInv, NamesOf, NamedBlocks

\* A header leaves the names alone; a reorganisation begins with them rolled back below the fork.
LEMMA HeadersNames ==
    ASSUME IInv, CoinsInv, NamesInv, ~SubmitUnsynced, Headers
    PROVE  NamesInv'
<1>1. PICK b \in Blocks \ {Genesis} :
         AddSideHeader(b) \/ AddTipHeader(b) \/ BeginReorg(b) \/ FailReorg(b) \/ SubmitBlock(b)
  BY DEF Headers
<1>2. pc = "idle" /\ UNCHANGED stored
  BY <1>1 DEF AddSideHeader, AddTipHeader, BeginReorg, FailReorg, SubmitBlock, NewHeader,
              ForkHeader, ConnectBlock, disk
<1>3. /\ NamesOf(nameDB, pending, stored) /\ stored \in Seq(Blocks) /\ Len(stored) \in Nat
      /\ StoredHeight = Len(stored) - 1
  BY <1>2, NamesOfStored
<1>4. nameDB.height < Len(stored) => Extent = Len(stored)
  BY <1>2 DEF NamesInv, NamesInOperation
<1>5. CASE UNCHANGED <<nameDB, pending, control>>
  <2>1. pc' = "idle" /\ Extent' = Extent
    BY <1>2, <1>5 DEF control, Extent
  <2> QED
    BY <1>2, <1>3, <1>4, <1>5, <2>1, ArriveAt DEF Connecting, Reorganizing, Unloaded
<1>6. ForkHeight(b) \in Nat
  BY <1>2, ForkFacts DEF IInv, TypeOK, InOperation, Unloaded
<1>7. CASE BeginReorg(b)
  <2>1. /\ CanRollBack(ForkHeight(b)) /\ RollBackNames(ForkHeight(b))
        /\ pc' = "disconnect" /\ block' = b /\ UNCHANGED <<byHeight, stored>>
    BY <1>7 DEF BeginReorg
  <2>2. /\ NamesOf(nameDB', pending', stored) /\ nameDB'.height <= ForkHeight(b)
        /\ nameDB'.height < Len(stored) => Extent' = Min({ForkHeight(b), StoredHeight}) + 1
    BY <1>3, <1>6, <2>1, RollBackCarries
  <2>3. ForkHeight(block)' = ForkHeight(b) /\ StoredHeight' = StoredHeight
    BY <2>1 DEF ForkHeight, StoredHeight
  <2>4. NamesInOperation'
    BY <2>1, <2>2, <2>3 DEF NamesInOperation, Unloaded
  <2>5. NamesOfBlock' /\ CoinsAtStart'
    BY <2>1 DEF NamesOfBlock, CoinsAtStart
  <2>6. NamesOf(nameDB, pending, NamedBlocks)'
    BY <2>1, <2>2 DEF NamedBlocks
  <2> QED
    BY <2>4, <2>5, <2>6 DEF NamesInv
<1>8. CASE FailReorg(b) /\ RollBackNames(ForkHeight(b))
  <2>1. CASE CanRollBack(ForkHeight(b)) /\ ~CanReplay(ForkHeight(b))
    <3>1. pc' = "idle" /\ ForkHeight(b) > StoredHeight
      BY <1>2, <1>3, <1>6, <1>8, <2>1 DEF FailReorg, control, CanReplay
    <3>2. /\ NamesOf(nameDB', pending', stored)
          /\ nameDB'.height < Len(stored) => Extent' = Min({ForkHeight(b), StoredHeight}) + 1
      BY <1>3, <1>6, <1>8, <2>1, RollBackCarries
    <3>3. Min({ForkHeight(b), StoredHeight}) + 1 = Len(stored)
      BY <1>3, <1>6, <3>1, MinOfTwo
    <3> QED
      BY <1>2, <3>1, <3>2, <3>3, ArriveAt DEF Connecting, Reorganizing, Unloaded
  <2>2. CASE UNCHANGED <<nameDB, pending>>
    BY <1>5, <1>8, <2>2 DEF FailReorg
  <2> QED
    BY <1>8, <2>1, <2>2 DEF FailReorg
<1> QED
  BY <1>1, <1>5, <1>7, <1>8 DEF SubmitBlock, AddSideHeader, AddTipHeader, FailReorg, disk

\* A reorganisation keeps the names at or below the fork while blocks are cut.
LEMMA ReorganizeNames ==
    ASSUME IInv, CoinsInv, NamesInv, Reorganize
    PROVE  NamesInv'
<1>1. pc \in Reorganizing /\ pc # "rebuildCoins" /\ UNCHANGED <<nameDB, pending>>
  BY DEF Reorganize, DisconnectBlock, MissingUndo, RebuildCoins, TruncateEntries, TruncateBlocks,
         Reorganizing, memory, CoinsInv, CoinsInOperation
<1>2. /\ NamesOf(nameDB, pending, stored) /\ stored \in Seq(Blocks) /\ Len(stored) \in Nat
      /\ StoredHeight = Len(stored) - 1 /\ nameDB.height \in Nat \cup {-1}
      /\ Extent' = Extent /\ Len(pending) \in Nat
      /\ Extent = nameDB.height + 1 + Len(pending)
  BY <1>1, NamesOfStored DEF Reorganizing, IInv, TypeOK, Extent
<1>3. /\ nameDB.height <= ForkHeight(block)
      /\ nameDB.height < Len(stored) => Extent = Min({ForkHeight(block), StoredHeight}) + 1
  BY <1>1 DEF NamesInv, NamesInOperation
<1>4. CASE ~TruncateBlocks
  <2>1. pc' \in Reorganizing /\ UNCHANGED <<byHeight, stored, block>>
    BY <1>1, <1>4 DEF Reorganize, DisconnectBlock, MissingUndo, RebuildCoins, TruncateEntries,
                      Reorganizing, memory
  <2>2. ForkHeight(block)' = ForkHeight(block) /\ StoredHeight' = StoredHeight
    BY <2>1 DEF ForkHeight, StoredHeight
  <2>3. NamesInOperation'
    BY <1>1, <1>2, <1>3, <2>1, <2>2 DEF NamesInOperation, Unloaded, Reorganizing
  <2>4. NamesOfBlock' /\ CoinsAtStart'
    BY <2>1 DEF NamesOfBlock, CoinsAtStart, Reorganizing
  <2>5. NamesOf(nameDB, pending, NamedBlocks)'
    BY <1>1, <1>2, <2>1 DEF NamedBlocks, Reorganizing
  <2> QED
    BY <2>3, <2>4, <2>5 DEF NamesInv
<1>5. CASE TruncateBlocks
  <2> DEFINE n == Min({ForkHeight(block) + 1, Len(stored)})
             f == ForkHeight(block)
             h == nameDB.height
  <2>1. stored' = SubSeq(stored, 1, n) /\ pc' = "idle"
    BY <1>5 DEF TruncateBlocks, Return
  <2>2. f \in Nat /\ stored # << >> /\ Len(stored) >= 1
    <3>1. byHeight \in Seq(Blocks) /\ byHeight # << >> /\ BestIsPath /\ block \in Blocks
          /\ stored # << >>
      BY <1>1 DEF IInv, TypeOK, InOperation, Unloaded, Reorganizing
    <3> QED
      BY <1>2, <3>1, ForkFacts, EmptySeq
  <2> HIDE DEF n, f, h
  <2>3. /\ n = IF f + 1 <= Len(stored) THEN f + 1 ELSE Len(stored)
        /\ Min({f, StoredHeight}) = IF f <= StoredHeight THEN f ELSE StoredHeight
    BY <1>2, <2>2, MinOfTwo DEF n, f
  <2>4. n \in 1..Len(stored) /\ n <= f + 1 /\ Min({f, StoredHeight}) + 1 = n
    BY <1>2, <2>2, <2>3
  <2>5. /\ stored' \in Seq(Blocks) /\ stored' # << >> /\ Len(stored') = n
        /\ \A i \in 1..n : stored'[i] = stored[i]
    <3>1. \A i \in 1..n : stored[i] \in Blocks
      BY <1>2, <2>4, ElementOfSeq
    <3>2. /\ stored' \in Seq(Blocks) /\ Len(stored') = n /\ \A i \in 1..n : stored'[i] = stored[i]
      BY <1>2, <2>1, <2>4, <3>1, SubSeqProperties
    <3> QED
      BY <2>4, <3>2, EmptySeq
  <2>6. h \in Nat \cup {-1} /\ h <= f /\ h <= Len(stored) /\ (h < Len(stored) => Extent = n)
    <3>1. h <= Len(stored)
      BY <1>2, <2>2 DEF NamesOf, SnapshotsOf, h
    <3> QED
      BY <1>2, <1>3, <2>4, <3>1 DEF f, h
  <2>7. h <= n /\ (h < n => Extent = n) /\ (h >= n => pending = << >>)
    <3>1. CASE h < Len(stored)
      <4>1. Extent = n /\ Extent = h + 1 + Len(pending)
        BY <1>2, <2>6, <3>1 DEF h
      <4> QED
        BY <1>2, <2>4, <2>6, <4>1
    <3>2. CASE h >= Len(stored)
      <4>1. n = Len(stored)
        BY <1>2, <2>2, <2>3, <2>6, <3>2
      <4>2. pending = << >>
        BY <1>2, <3>2, NamesRange DEF h
      <4> QED
        BY <1>2, <2>6, <3>2, <4>1, <4>2
    <3> QED
      BY <1>2, <2>6, <3>1, <3>2
  <2>8. SnapshotsOf(nameDB, stored')
    <3>1. \A i \in 1..(nameDB.height + 1) : i <= Len(stored') => i <= Len(stored) /\ stored'[i] = stored[i]
      BY <1>2, <2>4, <2>5
    <3>2. SnapshotsOf(nameDB, stored)
      BY <1>2 DEF NamesOf
    <3>3. nameDB.height # -1 => nameDB.height <= Len(stored') /\ stored' # << >>
      BY <2>5, <2>7 DEF h
    <3> QED
      BY <1>2, <2>5, <3>1, <3>2, <3>3, SnapshotsCarry
  <2>9. PendingOf(nameDB, pending, stored')
    <3> SUFFICES ASSUME NEW i \in 1..Len(pending)
                 PROVE  /\ nameDB.height + i < n /\ nameDB.height + 1 + i \in 1..n
                        /\ NamedAs(pending[i], stored[nameDB.height + 1 + i])
                        /\ (nameDB.height + i) % TreeInterval # 0
      BY <2>5 DEF PendingOf
    <3>1. /\ NamedAs(pending[i], stored[nameDB.height + 1 + i])
          /\ (nameDB.height + i) % TreeInterval # 0
      BY <1>2 DEF NamesOf, PendingOf
    <3>2. pending # << >> /\ Extent = n
      BY <1>2, <2>4, <2>6, <2>7
    <3> QED
      BY <1>2, <2>4, <3>1, <3>2
  <2> QED
    BY <1>1, <1>2, <2>1, <2>5, <2>7, <2>8, <2>9, ArriveAt
       DEF NamesOf, Connecting, Reorganizing, Unloaded, h
<1> QED
  BY <1>4, <1>5

\* Every block of a chain has the part of the chain below it as its path.
LEMMA PathPrefix ==
    ASSUME NEW s \in Seq(Blocks), s # << >>, s = Path[Last(s)], NEW n \in 1..Len(s)
    PROVE  \A i \in 1..n : Path[s[n]][i] = s[i]
<1>1. /\ SubSeq(s, 1, n) = Path[Last(SubSeq(s, 1, n))] /\ Last(SubSeq(s, 1, n)) = s[n]
      /\ \A i \in 1..n : SubSeq(s, 1, n)[i] = s[i]
  BY PrefixIsPath
<1> QED
  BY <1>1

\* A block that connects finds the names of the chain below it, and leaves them
\* with its own.
LEMMA ConnectBlockNames ==
    ASSUME IInv, NEW s \in Seq(Blocks), NamesOf(nameDB, pending, s), NEW chain \in Seq(Blocks),
           chain # << >>, chain = Path[Last(chain)],
           NEW h \in 1..(Len(chain) - 1), h < Len(s), s[h + 1] = chain[h + 1],
           nameDB.height < Len(s) - 1 => Extent = h, h <= Len(s) - 1,
           NEW next, ConnectBlock(chain, h, next)
    PROVE  /\ NamesOf(nameDB', pending', s) /\ Extent = h
           /\ Extent' = h + 1 /\ Boundary(h - 1) <= nameDB'.height
           /\ \A i \in 1..(Boundary(h - 1) + 1) : nameDB'.tree[i] = Path[chain[h + 1]][i]
<1>1. /\ Len(chain) \in Nat /\ chain[1] = Genesis /\ chain[h + 1] \in NameBlocks /\ h \in Nat
      /\ Len(s) \in Nat
  <2>1. Last(chain) \in Blocks /\ Len(chain) \in Nat /\ Len(s) \in Nat
    BY EmptySeq, ElementOfSeq DEF Last
  <2>2. chain[1] = Genesis
    BY <2>1, PathFacts
  <2>3. h \in Nat /\ h + 1 \in 1..Len(chain)
    BY <2>1
  <2>4. chain[h + 1] \in Blocks
    BY <2>3, ElementOfSeq
  <2> QED
    BY <2>1, <2>2, <2>3, <2>4 DEF NameBlocks
<1>2. /\ nameDB.tree = SubSeq(chain, 1, Boundary(h - 1) + 1) /\ NamesUpTo(h, Append(pending, chain[h + 1]))
  BY DEF ConnectBlock, Connectable, RootMatches
<1>3. Boundary(h - 1) \in Nat /\ Boundary(h - 1) <= h - 1
  <2>1. h - 1 \in Nat
    OBVIOUS
  <2> QED
    BY <2>1, BoundaryFacts
<1>4. /\ Len(nameDB.tree) = Boundary(h - 1) + 1
      /\ \A i \in 1..(Boundary(h - 1) + 1) : nameDB.tree[i] = Path[chain[h + 1]][i]
  <2>1. Boundary(h - 1) + 1 \in 1..Len(chain)
    BY <1>1, <1>3
  <2>2. /\ Len(SubSeq(chain, 1, Boundary(h - 1) + 1)) = Boundary(h - 1) + 1
        /\ \A i \in 1..(Boundary(h - 1) + 1) : SubSeq(chain, 1, Boundary(h - 1) + 1)[i] = chain[i]
    BY <2>1, <1>1, PrefixIsPath
  <2>3. \A i \in 1..(h + 1) : Path[chain[h + 1]][i] = chain[i]
    <3>1. h + 1 \in 1..Len(chain)
      BY <1>1
    <3> QED
      BY <3>1, PathPrefix
  <2>4. 1..(Boundary(h - 1) + 1) \subseteq 1..(h + 1)
    BY <1>1, <1>3
  <2> HIDE DEF Boundary
  <2> QED
    BY <1>2, <2>2, <2>3, <2>4
<1>5. nameDB.height = Boundary(h - 1)
  <2>1. Len(nameDB.tree) = nameDB.height + 1 /\ nameDB.height \in Int
    BY NamesRange
  <2> QED
    BY <1>3, <1>4, <2>1
<1>6. Extent = h /\ nameDB.height # -1 /\ h # 0
  BY <1>1, <1>3, <1>5
<1>7. /\ NamesOf(nameDB', pending', s) /\ Extent' = Extent + 1
      /\ nameDB.height <= nameDB'.height
      /\ \A i \in 1..(nameDB.height + 1) : nameDB'.tree[i] = nameDB.tree[i]
  BY <1>1, <1>2, <1>6, ApplyCarries
<1> QED
  BY <1>4, <1>5, <1>6, <1>7

\* Connecting the block above the stored ones applies its names first.
LEMMA ConnectNextNames ==
    ASSUME IInv, CoinsInv, NamesInv, ConnectNext
    PROVE  NamesInv'
<1>1. /\ pc = "idle" /\ Len(stored) < Len(byHeight)
      /\ ConnectBlock(byHeight, Len(stored), "idle")
  BY DEF ConnectNext
<1>2. /\ byHeight # << >> /\ byHeight \in Seq(Blocks) /\ Len(byHeight) \in Nat
      /\ byHeight = Path[Last(byHeight)] /\ stored \in Seq(Blocks) /\ stored # << >>
      /\ Len(stored) \in 1..(Len(byHeight) - 1)
  <2>1. stored # << >> /\ stored \in Seq(Blocks) /\ byHeight # << >> /\ byHeight \in Seq(Blocks)
    BY <1>1 DEF IInv, TypeOK, InOperation, Unloaded
  <2>2. Len(stored) \in Nat /\ Len(stored) >= 1 /\ Len(byHeight) \in Nat
    BY <2>1, EmptySeq
  <2> QED
    BY <1>1, <2>1, <2>2 DEF IInv, BestIsPath, Tip
<1> DEFINE n == Len(stored)
           b == byHeight[n + 1]
           s == Append(stored, b)
<1>3. /\ pc' = "mark" /\ ret' = "idle" /\ block' = b /\ Height(block') = n
      /\ UNCHANGED <<stored, coinDB>>
  <2>1. /\ ret' = "idle" /\ block' = b /\ Height(block') = n /\ UNCHANGED <<stored, coinDB>>
    BY <1>1, <1>2, ConnectBlockStep DEF IInv
  <2>2. pc' = "mark"
    BY <1>1, <1>2 DEF ConnectBlock
  <2> QED
    BY <2>1, <2>2
<1>4. n \in Nat /\ b \in Blocks /\ n + 1 \in 1..Len(byHeight)
  <2>1. n \in Nat /\ n + 1 \in 1..Len(byHeight)
    BY <1>2
  <2> QED
    BY <2>1, <1>2, ElementOfSeq
<1> HIDE DEF n, b
<1>5. /\ s \in Seq(Blocks) /\ s # << >> /\ Len(s) = n + 1 /\ s[n + 1] = b
      /\ \A i \in 1..n : s[i] = stored[i]
  <2>1. n = Len(stored)
    BY DEF n
  <2> QED
    BY <1>2, <1>4, <2>1, AppendProperties
<1> HIDE DEF s
<1>6. /\ NamesOf(nameDB, pending, stored) /\ nameDB.height \in Nat \cup {-1}
      /\ nameDB.height < n => Extent = n
  BY <1>1, NamesOfStored DEF NamesInv, NamesInOperation, IInv, TypeOK, n
<1>7. NamesOf(nameDB, pending, s)
  <2>1. nameDB.height <= n
    BY <1>2, <1>4, <1>6 DEF NamesOf, SnapshotsOf, n
  <2>2. nameDB.height + 1 <= n
    <3>1. n \in 1..(Len(byHeight) - 1) /\ RootMatches(byHeight, n)
      BY <1>1, <1>2 DEF ConnectBlock, Connectable, n
    <3>2. Boundary(n - 1) \in Nat /\ Boundary(n - 1) <= n - 1
      <4>1. n - 1 \in Nat
        BY <3>1
      <4> QED
        BY <4>1, BoundaryFacts
    <3>3. Len(nameDB.tree) = Boundary(n - 1) + 1
      <4>1. Boundary(n - 1) + 1 \in 1..Len(byHeight)
        BY <1>2, <3>1, <3>2
      <4> QED
        BY <3>1, <4>1, <1>2, PrefixIsPath DEF RootMatches
    <3>4. Len(nameDB.tree) = nameDB.height + 1
      BY <1>2, <1>6, NamesRange
    <3> QED
      BY <1>4, <1>6, <3>2, <3>3, <3>4
  <2>3. SnapshotsOf(nameDB, s)
    <3>1. \A i \in 1..(nameDB.height + 1) : i <= Len(s) => i <= Len(stored) /\ s[i] = stored[i]
      BY <1>4, <1>5, <1>6, <2>2 DEF n
    <3>2. nameDB.height # -1 => nameDB.height <= Len(s) /\ s # << >>
      BY <1>4, <1>5, <1>6, <2>1
    <3>3. SnapshotsOf(nameDB, stored)
      BY <1>6 DEF NamesOf
    <3> QED
      BY <1>2, <1>5, <1>6, <3>1, <3>2, <3>3, SnapshotsCarry
  <2>4. PendingOf(nameDB, pending, s)
    <3> SUFFICES ASSUME NEW i \in 1..Len(pending)
                 PROVE  /\ nameDB.height + i < Len(s) /\ NamedAs(pending[i], s[nameDB.height + 1 + i])
                        /\ (nameDB.height + i) % TreeInterval # 0
      BY DEF PendingOf
    <3>1. /\ nameDB.height + i < n /\ NamedAs(pending[i], stored[nameDB.height + 1 + i])
          /\ (nameDB.height + i) % TreeInterval # 0
      BY <1>6 DEF NamesOf, PendingOf, n
    <3>2. nameDB.height + 1 + i \in 1..n
      <4>1. Len(pending) \in Nat
        BY DEF IInv, TypeOK
      <4>2. i \in Nat /\ i >= 1
        BY <4>1
      <4> QED
        BY <4>2, <1>4, <1>6, <3>1
    <3> QED
      BY <1>4, <1>5, <1>6, <3>1, <3>2
  <2> QED
    BY <2>3, <2>4 DEF NamesOf
<1>8. /\ NamesOf(nameDB', pending', s) /\ Extent' = n + 1 /\ Boundary(n - 1) <= nameDB'.height
      /\ \A i \in 1..(Boundary(n - 1) + 1) : nameDB'.tree[i] = Path[b][i]
  <2>1. n \in 1..(Len(byHeight) - 1) /\ ConnectBlock(byHeight, n, "idle")
    BY <1>1, <1>2 DEF n
  <2>2. /\ n < Len(s) /\ s[n + 1] = byHeight[n + 1] /\ n <= Len(s) - 1
        /\ (nameDB.height < Len(s) - 1 => Extent = n)
    BY <1>4, <1>5, <1>6 DEF b
  <2>3. /\ NamesOf(nameDB', pending', s) /\ Extent' = n + 1 /\ Boundary(n - 1) <= nameDB'.height
        /\ \A i \in 1..(Boundary(n - 1) + 1) : nameDB'.tree[i] = Path[byHeight[n + 1]][i]
    BY <1>2, <1>5, <1>7, <2>1, <2>2, ConnectBlockNames
  <2>4. b = byHeight[n + 1]
    BY DEF b
  <2> QED
    BY <2>3, <2>4
<1>9. Append(stored', block') = s
  BY <1>3 DEF s
<1>10. NamesOf(nameDB, pending, NamedBlocks)'
  BY <1>3, <1>8, <1>9 DEF NamedBlocks
<1>11. block' # Genesis
  <2>1. Height(Genesis) = 0 /\ n # 0
    BY <1>2, BlocksAssumption DEF Height, n
  <2> QED
    BY <1>3, <2>1
<1>12. NamesInOperation' /\ CoinsAtStart'
  BY <1>3 DEF NamesInOperation, CoinsAtStart, Unloaded, Reorganizing
<1>13. NamesOfBlock'
  <2>1. Height(block)' = n /\ block' = b
    BY <1>3
  <2> QED
    BY <1>3, <1>8, <1>11, <2>1 DEF NamesOfBlock
<1> QED
  BY <1>10, <1>12, <1>13 DEF NamesInv

\* The writes of a block that is connected make it a stored block.
LEMMA ConnectNames ==
    ASSUME IInv, CoinsInv, NamesInv, Connect
    PROVE  NamesInv'
<1>1. CASE MarkPending
  <2>1. /\ pc = "mark" /\ pc' = "store" /\ UNCHANGED <<nameDB, pending, stored, ret, block>>
    BY <1>1 DEF MarkPending, Goto, memory
  <2>2. Extent' = Extent /\ Height(block)' = Height(block)
    BY <2>1 DEF Extent
  <2>3. NamesOf(nameDB, pending, NamedBlocks)'
    BY <2>1 DEF NamesInv, NamedBlocks
  <2>4. NamesInOperation' /\ CoinsAtStart'
    BY <2>1 DEF NamesInOperation, CoinsAtStart, Unloaded, Reorganizing
  <2>5. NamesOfBlock'
    BY <2>1, <2>2 DEF NamesInv, NamesOfBlock
  <2> QED
    BY <2>3, <2>4, <2>5 DEF NamesInv
<1>2. CASE StoreBlock
  <2>1. /\ pc = "store" /\ pc' = "save" /\ stored' = Append(stored, block)
        /\ Height(block) = Len(stored) /\ UNCHANGED <<nameDB, pending, ret, block>>
    BY <1>2 DEF StoreBlock, Goto, memory
  <2>2. Extent' = Extent /\ Height(block)' = Height(block)
    BY <2>1 DEF Extent
  <2>3. NamesOf(nameDB, pending, NamedBlocks)'
    BY <2>1 DEF NamesInv, NamedBlocks
  <2>4. StoredHeight' = Len(stored)
    <3>1. stored \in Seq(Blocks) /\ block \in Blocks /\ Len(stored) \in Nat
      BY DEF IInv, TypeOK
    <3>2. Len(stored') = Len(stored) + 1
      BY <2>1, <3>1, AppendProperties
    <3> QED
      BY <3>1, <3>2 DEF StoredHeight
  <2>5. NamesInOperation' /\ CoinsAtStart'
    BY <2>1, <2>2, <2>4 DEF NamesInOperation, CoinsAtStart, Unloaded, Reorganizing
  <2>6. NamesOfBlock'
    BY <2>1, <2>2 DEF NamesInv, NamesOfBlock
  <2> QED
    BY <2>3, <2>5, <2>6 DEF NamesInv
<1>3. CASE StoreMismatch
  BY <1>3 DEF StoreMismatch, CoinsInv, CoinsInOperation
<1>4. CASE SaveView
  <2>1. /\ pc = "save" /\ coinDB' = Saved(block, Height(block))
        /\ UNCHANGED <<nameDB, pending, stored>>
        /\ IF block = Genesis THEN pc' = "commitGenesis" /\ UNCHANGED <<ret, block>>
           ELSE pc' = ret /\ ret' = "idle" /\ block' = Genesis
    BY <1>4 DEF SaveView, Goto, Return, memory
  <2>2. /\ NamesOf(nameDB, pending, stored) /\ Len(stored) \in Nat
        /\ StoredHeight = Len(stored) - 1 /\ Extent' = Extent
        /\ coinDB'.height = Height(block) /\ StoredHeight' = StoredHeight
    BY <2>1, NamesOfStored DEF Saved, Extent, StoredHeight
  <2>3. ret # "reindex" => Height(block) = StoredHeight
    BY <2>1 DEF NamesInv, CoinsAtStart
  <2>4. CASE block = Genesis
    <3>1. nameDB.height = -1 /\ ret \in {"align", "reindex"} /\ Height(block) = 0
      BY <2>1, <2>4, BlocksAssumption DEF NamesInv, NamesOfBlock, Height
    <3>2. NamesOf(nameDB, pending, NamedBlocks)'
      BY <2>1, <2>2, <2>4 DEF NamedBlocks
    <3>3. NamesInOperation' /\ CoinsAtStart'
      BY <2>1, <2>2, <2>3, <2>4, <3>1 DEF NamesInOperation, CoinsAtStart, Unloaded, Reorganizing
    <3>4. NamesOfBlock'
      BY <2>1, <2>4, <3>1 DEF NamesOfBlock
    <3> QED
      BY <3>2, <3>3, <3>4 DEF NamesInv
  <2>5. CASE block # Genesis
    <3>1. Extent = Height(block) + 1 /\ ret \in {"idle", "reindex"}
      BY <2>1, <2>5 DEF NamesInv, NamesOfBlock
    <3>2. pc' \in {"idle", "reindex"} /\ (pc' = "idle" => Extent' = Len(stored'))
      BY <2>1, <2>2, <2>3, <2>5, <3>1
    <3> QED
      BY <2>1, <2>2, <3>1, <3>2, ArriveAt DEF Connecting, Reorganizing, Unloaded
  <2> QED
    BY <2>4, <2>5
<1>5. CASE CommitGenesis
  <2>1. /\ pc = "commitGenesis" /\ nameDB' = Committed(0, Append(pending, Genesis))
        /\ pending' = << >> /\ pc' = ret /\ ret' = "idle" /\ UNCHANGED <<stored, coinDB>>
    BY <1>5 DEF CommitGenesis, Return
  <2>2. /\ nameDB.height = -1 /\ ret \in {"align", "reindex"} /\ coinDB.height = 0
        /\ ret # "reindex" => StoredHeight = 0
    BY <2>1 DEF NamesInv, NamesOfBlock, CoinsAtStart
  <2>3. /\ NamesOf(nameDB, pending, stored) /\ stored \in Seq(Blocks) /\ Len(stored) \in Nat
        /\ stored # << >> /\ Genesis \in NameBlocks
    BY <2>1, NamesOfStored, BlocksAssumption DEF IInv, InOperation, Unloaded, NameBlocks
  <2>4. Extent = 0 /\ Len(stored) > 0
    <3>1. pending = << >> /\ Len(<< >>) = 0
      BY <2>2, <2>3, NamesRange
    <3> QED
      BY <2>2, <2>3, <3>1, EmptySeq DEF Extent
  <2>5. NamesOf(nameDB', pending', stored) /\ nameDB'.height = 0
    BY <2>1, <2>3, <2>4, ZeroIsBoundary, CommitCarries
  <2>6. Extent' = 1
    <3>1. Extent' = nameDB'.height + 1 + Len(pending') /\ Len(pending') = 0
      BY <2>1 DEF Extent
    <3> QED
      BY <2>5, <3>1
  <2>7. StoredHeight' = StoredHeight
    BY <2>1 DEF StoredHeight
  <2> QED
    BY <2>1, <2>2, <2>5, <2>6, <2>7, ArriveAt DEF Connecting, Reorganizing, Unloaded
<1> QED
  BY <1>1, <1>2, <1>3, <1>4, <1>5 DEF Connect

\* A replay of the stored blocks that has reached the last of them.
LEMMA ReplayEnds ==
    ASSUME IInv, NamesInv, pc \in {"repair", "rebuild"}, at >= Len(stored),
           UNCHANGED <<nameDB, pending, stored>>, pc' = "idle"
    PROVE  NamesInv'
<1>1. /\ NamesOf(nameDB, pending, stored) /\ stored \in Seq(Blocks) /\ Len(stored) \in Nat
  BY NamesOfStored
<1>2. nameDB.height < Len(stored) => Extent = Len(stored)
  <2>1. Extent >= Len(stored) /\ Extent \in Nat
    BY <1>1, NamesRange DEF NamesInv, NamesInOperation, IInv, TypeOK
  <2> QED
    BY <1>1, <2>1, NamesRange
<1>3. Extent' = Extent
  BY DEF Extent
<1> QED
  BY <1>1, <1>2, <1>3, ArriveAt DEF Connecting, Reorganizing, Unloaded

\* A reset and a repair replay the stored blocks from where the tree is.
LEMMA RecoverNames ==
    ASSUME IInv, CoinsInv, NamesInv, ResetToStoredHeight \/ RepairTree \/ Recover
    PROVE  NamesInv'
<1> USE DEF Connecting, Reorganizing, Unloaded
<1>1. UNCHANGED <<coinDB, stored>> /\ pc \in {"idle", "wipeNames", "resetNames", "repair"}
  BY DEF ResetToStoredHeight, ResetEntries, RepairTree, Recover, ResetNames, ResetFails, Dies, disk,
         RepairGenesis, RepairBlock, RepairDone
<1>2. /\ NamesOf(nameDB, pending, stored) /\ stored \in Seq(Blocks) /\ Len(stored) \in Nat
      /\ StoredHeight = Len(stored) - 1 /\ StoredHeight' = StoredHeight
      /\ stored # << >> /\ StoredHeight \in Nat
  <2>1. stored # << >>
    BY <1>1 DEF IInv, InOperation
  <2>2. NamesOf(nameDB, pending, stored) /\ stored \in Seq(Blocks) /\ Len(stored) \in Nat
        /\ StoredHeight = Len(stored) - 1
    BY <1>1, NamesOfStored
  <2>3. StoredHeight' = StoredHeight
    BY <1>1 DEF StoredHeight
  <2> QED
    BY <2>1, <2>2, <2>3, EmptySeq
<1>3. CASE ResetToStoredHeight
  <2>1. pc' = "resetNames" /\ ret' = "idle" /\ UNCHANGED <<nameDB, pending>>
    BY <1>3 DEF ResetToStoredHeight, ResetEntries
  <2> QED
    BY <1>1, <1>2, <2>1, ArriveAt
<1>4. CASE RepairTree
  <2>1. nameDB' = EmptyNames /\ pending' = << >> /\ pc' = "repair" /\ at' = 0
    BY <1>4 DEF RepairTree
  <2>2. NamesOf(nameDB', pending', stored) /\ Extent' = 0
    BY <1>2, <2>1, EmptyCarries
  <2> QED
    BY <1>1, <2>1, <2>2, ArriveAt
<1>5. CASE ResetNames
  <2>1. /\ pc = "resetNames" /\ CanRollBack(StoredHeight) /\ RollBackNames(StoredHeight)
        /\ pc' = ret /\ ret' = "idle"
    BY <1>5 DEF ResetNames, Return
  <2>2. /\ ret \in {"idle", "check"} /\ (ret # "idle" => coinDB.height \in {-1, StoredHeight})
    BY <2>1 DEF NamesInv, CoinsAtStart
  <2>3. /\ NamesOf(nameDB', pending', stored)
        /\ nameDB'.height < Len(stored) => Extent' = Min({StoredHeight, StoredHeight}) + 1
        /\ nameDB'.height >= Len(stored) => pending' = << >>
        /\ nameDB'.height \in Nat
    BY <1>2, <2>1, RollBackCarries
  <2>4. Min({StoredHeight, StoredHeight}) + 1 = Len(stored)
    BY <1>2, MinOfTwo
  <2> QED
    BY <1>1, <1>2, <2>1, <2>2, <2>3, <2>4, ArriveAt
<1>6. CASE ResetFails
  <2>1. /\ pc' = "failed" /\ pending' = << >> /\ UNCHANGED <<nameDB, stored>>
    BY <1>6 DEF ResetFails, Dies, Return, disk
  <2> QED
    BY <2>1, DiesNames
<1>7. CASE RepairGenesis
  <2>1. /\ pc = "repair" /\ pc' = "repair" /\ at = 0 /\ at' = 1
        /\ nameDB' = Committed(0, <<Genesis>>) /\ pending' = pending
    BY <1>7 DEF RepairGenesis, memory
  <2>2. pending = << >> /\ Extent = 0 /\ Genesis \in NameBlocks
    <3>1. /\ nameDB.height \in Int /\ nameDB.height >= -1 /\ Len(pending) \in Nat
          /\ nameDB.height = -1 => pending = << >>
      BY <1>2, NamesRange
    <3>2. Extent = 0 /\ Extent = nameDB.height + 1 + Len(pending)
      BY <2>1 DEF NamesInv, NamesInOperation, Extent
    <3>3. nameDB.height = -1
      BY <3>1, <3>2
    <3> QED
      BY <3>1, <3>2, <3>3, BlocksAssumption DEF NameBlocks
  <2>3. nameDB' = Committed(0, Append(pending, Genesis)) /\ 0 < Len(stored)
    BY <1>2, <2>1, <2>2
  <2>4. NamesOf(nameDB', pending', stored) /\ nameDB'.height = 0
    BY <1>2, <2>1, <2>2, <2>3, ZeroIsBoundary, CommitCarries
  <2>5. Extent' = 1
    <3>1. Extent' = nameDB'.height + 1 + Len(pending') /\ Len(pending') = 0
      BY <2>1, <2>2 DEF Extent
    <3> QED
      BY <2>4, <3>1
  <2> QED
    BY <1>1, <2>1, <2>4, <2>5, ArriveAt
<1>8. CASE RepairBlock
  <2>1. /\ pc = "repair" /\ pc' = "repair" /\ at > 0 /\ at < Len(stored) /\ at' = at + 1
        /\ NamesUpTo(at, Replayed(at, stored[at + 1])) /\ at = Extent
    BY <1>8 DEF RepairBlock, NamesInv, NamesInOperation
  <2>2. NamesUpTo(at, Append(pending, stored[at + 1]))
    BY <1>2, <2>1, ReplayedNext
  <2>3. Extent \in Nat /\ Extent # 0 /\ stored[Extent + 1] \in NameBlocks
    <3>1. Extent \in Nat
      BY <1>2, NamesRange
    <3>2. Extent # 0 /\ Extent + 1 \in 1..Len(stored)
      BY <1>2, <2>1, <3>1
    <3>3. stored[Extent + 1] \in Blocks
      BY <1>2, <3>2, ElementOfSeq
    <3> QED
      BY <3>1, <3>2, <3>3 DEF NameBlocks
  <2>4. NamesOf(nameDB', pending', stored) /\ Extent' = Extent + 1
    BY <1>2, <2>1, <2>2, <2>3, ApplyCarries
  <2> QED
    BY <1>1, <2>1, <2>4, ArriveAt
<1>9. CASE RepairDone
  <2>1. /\ pc = "repair" /\ at >= Len(stored) /\ pc' = "idle"
        /\ UNCHANGED <<nameDB, pending, stored>>
    BY <1>9 DEF RepairDone, Return, memory, disk
  <2> QED
    BY <2>1, ReplayEnds
<1> QED
  BY <1>3, <1>4, <1>5, <1>6, <1>7, <1>8, <1>9 DEF Recover

\* Each decision of the start leaves names that the replay it begins can continue.
LEMMA StartNames ==
    ASSUME IInv, CoinsInv, NamesInv, Start
    PROVE  NamesInv'
<1> USE DEF Connecting, Reorganizing, Unloaded
<1>1. pc \in {"down", "failed", "wipeTree", "load", "align", "check", "reindex", "rebuild"}
      /\ stored' = stored
  BY DEF Start, OpenStores, WipeCoins, WipeTree, LoadChain, AlignReset, AlignReplay, AlignDone,
         StartReindex, ReindexGenesis, ReindexBlock, ReindexDone, StartRebuild, RebuildNames,
         RebuildDone, ResetEntries, ConnectBlock, disk
<1>2. /\ NamesOf(nameDB, pending, stored) /\ stored \in Seq(Blocks) /\ Len(stored) \in Nat
      /\ StoredHeight = Len(stored) - 1 /\ StoredHeight' = StoredHeight
  BY <1>1, NamesOfStored DEF StoredHeight
<1>3. /\ coinDB.height \in Int /\ coinDB.height >= -1 /\ coinDB.height <= StoredHeight
      /\ block = Genesis
  BY <1>1, CoinsRange DEF CoinsInv, CoinsInOperation, Busy
<1>4. /\ pc \in {"wipeTree", "load", "align", "check"} => coinDB.height \in {-1, StoredHeight}
      /\ pc \in Unloaded \cup {"align"} => pending = << >>
      /\ pc = "check" => pending = << >> \/ Extent = Len(stored)
      /\ pc = "reindex" => Extent = coinDB.height + 1
  BY DEF NamesInv, NamesInOperation, CoinsAtStart
<1>5. CASE OpenStores
  <2>1. /\ pc \in Unloaded /\ pc' = "load" /\ ~CoinsBehind /\ UNCHANGED <<nameDB, pending, coinDB>>
    BY <1>5 DEF OpenStores, Goto, memory, disk
  <2>2. coinDB.height \in {-1, StoredHeight}
    BY <1>2, <1>3, <2>1 DEF CoinsBehind
  <2> QED
    BY <1>1, <1>2, <1>4, <2>1, <2>2, ArriveAt
<1>6. CASE WipeCoins
  <2>1. /\ pc \in Unloaded /\ pc' = "wipeTree" /\ coinDB'.height = -1 /\ UNCHANGED <<nameDB, pending>>
    BY <1>6 DEF WipeCoins, Goto, memory, EmptyCoins
  <2> QED
    BY <1>1, <1>2, <1>4, <2>1, ArriveAt
<1>7. CASE WipeTree
  <2>1. /\ pc = "wipeTree" /\ pc' = "load" /\ nameDB' = EmptyNames /\ UNCHANGED <<pending, coinDB>>
    BY <1>7 DEF WipeTree, Goto, memory
  <2>2. NamesOf(nameDB', pending', stored)
    BY <1>2, <1>4, <2>1, EmptyCarries
  <2> QED
    BY <1>1, <1>2, <1>4, <2>1, <2>2, ArriveAt
<1>8. CASE LoadChain
  <2>1. /\ pc = "load" /\ block' = block /\ UNCHANGED <<nameDB, pending, coinDB>>
        /\ IF stored = << >> THEN pc' = "mark" /\ ret' = "align" ELSE pc' = "align"
    BY <1>8 DEF LoadChain, Goto
  <2>2. CASE stored = << >>
    <3>1. nameDB.height = -1 /\ pending = << >> /\ Genesis \in Blocks
      BY <1>2, <1>4, <2>1, <2>2, BlocksAssumption DEF NamesOf, SnapshotsOf
    <3>2. Append(stored, Genesis) \in Seq(Blocks)
      BY <1>2, <3>1, AppendProperties
    <3>3. SnapshotsOf(nameDB, Append(stored, Genesis))
      <4>1. \A i \in 1..(nameDB.height + 1) : i <= Len(Append(stored, Genesis)) =>
               i <= Len(stored) /\ Append(stored, Genesis)[i] = stored[i]
        BY <3>1
      <4>2. nameDB.height \in Nat \cup {-1} /\ SnapshotsOf(nameDB, stored)
        BY <1>2, <3>1 DEF NamesOf
      <4> QED
        BY <1>2, <3>1, <3>2, <4>1, <4>2, SnapshotsCarry
    <3>4. PendingOf(nameDB, pending, Append(stored, Genesis))
      BY <3>1 DEF PendingOf
    <3>5. NamesOf(nameDB, pending, NamedBlocks)'
      BY <1>1, <1>3, <2>1, <2>2, <3>3, <3>4 DEF NamedBlocks, NamesOf
    <3>6. NamesInOperation' /\ CoinsAtStart'
      BY <2>1, <2>2 DEF NamesInOperation, CoinsAtStart
    <3>7. NamesOfBlock'
      BY <1>3, <2>1, <2>2, <3>1 DEF NamesOfBlock
    <3> QED
      BY <3>5, <3>6, <3>7 DEF NamesInv
  <2>3. CASE stored # << >>
    BY <1>1, <1>2, <1>4, <2>1, <2>3, ArriveAt
  <2> QED
    BY <2>2, <2>3
<1>9. CASE AlignReset \/ AlignReplay \/ AlignDone
  <2>1. /\ pc = "align" /\ UNCHANGED <<nameDB, pending, coinDB>>
        /\ pc' = "check" \/ (pc' = "resetNames" /\ ret' = "check")
    BY <1>9 DEF AlignReset, ResetEntries, AlignReplay, AlignDone, Goto, memory, disk
  <2> QED
    BY <1>1, <1>2, <1>4, <2>1, ArriveAt
<1>10. CASE StartReindex
  <2>1. /\ pc = "check" /\ NeedsReindex /\ nameDB' = EmptyNames /\ pending' = << >>
        /\ pc' = "reindex" /\ coinDB' = coinDB
    BY <1>10 DEF StartReindex, Goto
  <2>2. coinDB.height = -1
    BY <1>2, <1>3, <1>4, <2>1 DEF NeedsReindex
  <2>3. NamesOf(nameDB', pending', stored) /\ Extent' = 0
    BY <1>2, <2>1, EmptyCarries
  <2> QED
    BY <1>1, <2>1, <2>2, <2>3, ArriveAt
<1>11. CASE ReindexGenesis
  <2>1. /\ pc = "reindex" /\ coinDB.height = -1 /\ pc' = "save" /\ ret' = "reindex"
        /\ UNCHANGED <<nameDB, pending, coinDB, block>>
    BY <1>11 DEF ReindexGenesis, memory, disk
  <2>2. nameDB.height = -1
    <3>1. nameDB.height \in Int /\ nameDB.height >= -1 /\ Len(pending) \in Nat
      BY <1>2, NamesRange
    <3>2. nameDB.height + 1 + Len(pending) = 0
      BY <1>4, <2>1 DEF Extent
    <3> QED
      BY <3>1, <3>2
  <2>3. NamesOf(nameDB, pending, NamedBlocks)'
    BY <1>1, <1>2, <2>1 DEF NamedBlocks
  <2>4. NamesInOperation' /\ CoinsAtStart'
    BY <2>1 DEF NamesInOperation, CoinsAtStart
  <2>5. NamesOfBlock'
    BY <1>3, <2>1, <2>2 DEF NamesOfBlock
  <2> QED
    BY <2>3, <2>4, <2>5 DEF NamesInv
<1>12. CASE ReindexBlock
  <2> DEFINE h == coinDB.height + 1
  <2>1. /\ pc = "reindex" /\ coinDB.height >= 0 /\ coinDB.height < StoredHeight
        /\ ConnectBlock(byHeight, h, "reindex")
    BY <1>12 DEF ReindexBlock
  <2>2. /\ byHeight # << >> /\ byHeight \in Seq(Blocks) /\ Len(byHeight) \in Nat
        /\ byHeight = Path[Last(byHeight)] /\ Len(stored) <= Len(byHeight)
        /\ Compatible(stored, byHeight)
    BY <2>1 DEF IInv, InOperation, InMemory, TypeOK, BestIsPath, Tip
  <2>3. /\ h \in 1..(Len(byHeight) - 1) /\ h < Len(stored) /\ h + 1 \in 1..Len(stored)
        /\ h <= Len(stored) - 1
    BY <1>2, <1>3, <2>1, <2>2
  <2>4. Extent = h
    BY <1>4, <2>1
  <2> HIDE DEF h
  <2>5. /\ ret' = "reindex" /\ Height(block') = h /\ block' \in Blocks
    BY <2>1, <2>2, <2>3, ConnectBlockStep DEF IInv
  <2>6. pc' = "save"
    BY <2>1, <2>3 DEF ConnectBlock
  <2>7. stored[h + 1] = byHeight[h + 1]
    BY <1>2, <2>2, <2>3 DEF Compatible
  <2>8. /\ NamesOf(nameDB', pending', stored) /\ Extent' = h + 1 /\ Boundary(h - 1) <= nameDB'.height
        /\ \A i \in 1..(Boundary(h - 1) + 1) : nameDB'.tree[i] = Path[byHeight[h + 1]][i]
    BY <1>2, <2>1, <2>2, <2>3, <2>4, <2>7, ConnectBlockNames
  <2>9. block' # Genesis
    <3>1. Height(Genesis) = 0 /\ h # 0
      BY <2>3, BlocksAssumption DEF Height
    <3> QED
      BY <2>5, <3>1
  <2>10. NamesOf(nameDB, pending, NamedBlocks)'
    BY <1>1, <2>6, <2>8 DEF NamedBlocks
  <2>11. NamesInOperation' /\ CoinsAtStart'
    BY <2>5, <2>6 DEF NamesInOperation, CoinsAtStart
  <2>12. NamesOfBlock'
    <3>1. Height(block)' = h /\ block' = byHeight[h + 1]
      BY <2>1, <2>5 DEF ConnectBlock
    <3> QED
      BY <2>5, <2>6, <2>8, <2>9, <3>1 DEF NamesOfBlock
  <2> QED
    BY <2>10, <2>11, <2>12 DEF NamesInv
<1>13. CASE ReindexDone
  <2>1. /\ pc = "reindex" /\ coinDB.height >= StoredHeight /\ pc' = "idle"
        /\ UNCHANGED <<nameDB, pending, coinDB>>
    BY <1>13 DEF ReindexDone, Return, memory, disk
  <2>2. Extent' = Len(stored)
    <3>1. Extent' = Extent
      BY <2>1 DEF Extent
    <3> QED
      BY <1>2, <1>3, <1>4, <2>1, <3>1
  <2> QED
    BY <1>1, <1>2, <2>1, <2>2, ArriveAt
<1>14. CASE StartRebuild
  <2>1. /\ pc = "check" /\ pc' = "rebuild" /\ at' = nameDB.height + 1
        /\ UNCHANGED <<nameDB, pending, coinDB>>
    BY <1>14 DEF StartRebuild, memory, disk
  <2>2. /\ nameDB.height \in Int /\ Len(pending) \in Nat /\ (pending = << >> => Len(pending) = 0)
        /\ Extent = nameDB.height + 1 + Len(pending) /\ Extent' = Extent
    BY <1>2, <2>1, NamesRange DEF Extent
  <2>3. /\ at' > nameDB'.height /\ at' <= Extent' /\ (at' = Extent' \/ Extent' = Len(stored'))
    BY <1>1, <1>4, <2>1, <2>2
  <2> QED
    BY <1>1, <1>2, <2>1, <2>3, ArriveAt
<1>15. CASE RebuildNames
  <2>1. /\ pc = "rebuild" /\ at < Len(stored) /\ pc' \in {"wipeNames", "rebuild"} /\ at' = at + 1
        /\ NamesUpTo(at, IF at = 0 THEN Append(pending, GenesisReplayed)
                                   ELSE Replayed(at, stored[at + 1]))
        /\ UNCHANGED coinDB
    BY <1>15 DEF RebuildNames
  <2>2. at > nameDB.height /\ at <= Extent /\ (at = Extent \/ Extent = Len(stored))
    BY <2>1 DEF NamesInv, NamesInOperation
  <2>3. /\ nameDB.height \in Int /\ nameDB.height >= -1 /\ Len(pending) \in Nat /\ Extent \in Nat
        /\ Extent = nameDB.height + 1 + Len(pending) /\ at \in Nat
        /\ nameDB.height = -1 => pending = << >> /\ Len(pending) = 0
    BY <1>2, NamesRange DEF Extent, IInv, TypeOK
  <2>4. CASE at = Extent
    <3> DEFINE b == IF at = 0 THEN GenesisReplayed ELSE stored[at + 1]
    <3>1. NamesUpTo(Extent, Append(pending, b))
      BY <1>2, <2>1, <2>4, ReplayedNext
    <3>2. b \in NameBlocks
      <4>1. at + 1 \in 1..Len(stored)
        BY <1>2, <2>1, <2>3
      <4>2. stored[at + 1] \in Blocks
        BY <1>2, <4>1, ElementOfSeq
      <4> QED
        BY <4>2 DEF NameBlocks
    <3>3. IF Extent = 0 THEN b \in {Genesis, GenesisReplayed} ELSE b = stored[Extent + 1]
      BY <2>4
    <3> HIDE DEF b
    <3>4. /\ NamesOf(nameDB', pending', stored) /\ Extent' = Extent + 1
      BY <1>2, <2>1, <2>4, <3>1, <3>2, <3>3, ApplyCarries
    <3>5. at' > nameDB'.height
      <4>1. /\ Extent' = nameDB'.height + 1 + Len(pending') /\ nameDB'.height \in Nat \cup {-1}
            /\ Len(pending') \in Nat
        BY <2>1, <1>15, NextStep DEF Extent, IInv, TypeOK, Next, Progress, Start
      <4> QED
        BY <2>1, <2>3, <2>4, <3>4, <4>1
    <3> QED
      BY <1>1, <2>1, <2>3, <2>4, <3>4, <3>5, ArriveAt
  <2>5. CASE at # Extent
    <3>1. at < Extent /\ Extent = Len(stored) /\ at # 0
      BY <2>2, <2>3, <2>5
    <3>2. NamesUpTo(at, Replayed(at, stored[at + 1]))
      BY <2>1, <3>1
    <3>3. NamesOf(nameDB', pending', stored) /\ nameDB' = nameDB /\ Extent' = Extent
      BY <1>2, <2>1, <2>2, <3>1, <3>2, ReplayTwiceCarries
    <3>4. at' > nameDB'.height /\ at' <= Extent' /\ Extent' = Len(stored')
      BY <1>1, <2>1, <2>2, <2>3, <3>1, <3>3
    <3> QED
      BY <1>1, <2>1, <3>3, <3>4, ArriveAt
  <2> QED
    BY <2>4, <2>5
<1>16. CASE RebuildDone
  <2>1. /\ pc = "rebuild" /\ at >= Len(stored) /\ pc' = "idle"
        /\ UNCHANGED <<nameDB, pending, stored>>
    BY <1>16 DEF RebuildDone, Return, memory, disk
  <2> QED
    BY <2>1, ReplayEnds
<1> QED
  BY <1>5, <1>6, <1>7, <1>8, <1>9, <1>10, <1>11, <1>12, <1>13, <1>14, <1>15, <1>16 DEF Start

\* Every step preserves the invariant.
LEMMA NextNames ==
    ASSUME IInv, CoinsInv, NamesInv, ~SubmitUnsynced, [Next]_vars
    PROVE  NamesInv'
<1>1. CASE Headers
  BY <1>1, HeadersNames
<1>2. CASE ConnectNext
  BY <1>2, ConnectNextNames
<1>3. CASE Connect
  BY <1>3, ConnectNames
<1>4. CASE ResetToStoredHeight \/ RepairTree \/ Recover
  BY <1>4, RecoverNames
<1>5. CASE Reorganize
  BY <1>5, ReorganizeNames
<1>6. CASE Start
  BY <1>6, StartNames
<1>7. CASE Crash
  <2>1. pc' = "down" /\ pending' = << >> /\ UNCHANGED <<nameDB, stored>>
    BY <1>7 DEF Crash, Dies, disk
  <2> QED
    BY <2>1, DiesNames
<1>8. CASE Flush
  <2>1. pc = "idle" /\ pc' = "idle" /\ UNCHANGED <<nameDB, pending, stored>>
    BY <1>8 DEF Flush, control
  <2>2. NamesOf(nameDB, pending, stored)
    BY <2>1, NamesOfStored
  <2>3. nameDB.height < Len(stored) => Extent = Len(stored)
    BY <2>1 DEF NamesInv, NamesInOperation
  <2>4. Extent' = Extent
    BY <2>1 DEF Extent
  <2> QED
    BY <2>1, <2>2, <2>3, <2>4, ArriveAt DEF Connecting, Reorganizing, Unloaded
<1>9. CASE UNCHANGED vars
  <2>1. UNCHANGED <<byHeight, nameDB, pending, coinDB, stored, pc, ret, block, at>>
    BY <1>9 DEF vars, memory, disk, control
  <2>2. /\ StoredHeight' = StoredHeight /\ ForkHeight(block)' = ForkHeight(block)
        /\ Height(block)' = Height(block) /\ Extent' = Extent
    BY <2>1 DEF StoredHeight, ForkHeight, Extent
  <2>3. NamesOf(nameDB, pending, NamedBlocks)'
    BY <2>1 DEF NamesInv, NamedBlocks
  <2>4. NamesInOperation' /\ NamesOfBlock' /\ CoinsAtStart'
    BY <2>1, <2>2 DEF NamesInv, NamesInOperation, NamesOfBlock, CoinsAtStart
  <2> QED
    BY <2>3, <2>4 DEF NamesInv
<1> QED
  BY <1>1, <1>2, <1>3, <1>4, <1>5, <1>6, <1>7, <1>8, <1>9 DEF Next, Progress, Wait

-----------------------------------------------------------------------------
(* The theorems *)

\* What the tree and the pending map hold together, when the first m names are right.
LEMMA WholeNames ==
    ASSUME IInv, NamesOf(nameDB, pending, stored), NEW n \in 1..Len(stored), Extent = n,
           NEW m \in 1..(nameDB.height + 1), m <= n,
           \A i \in 1..m : nameDB.tree[i] = stored[i]
    PROVE  HoldsNamesOf(nameDB.tree \o pending, SubSeq(stored, 1, n), m)
<1> DEFINE h == nameDB.height
           tree == nameDB.tree
           all == tree \o pending
<1>1. /\ stored \in Seq(Blocks) /\ Len(stored) \in Nat
      /\ h \in Int /\ h >= -1 /\ Len(pending) \in Nat /\ n = h + 1 + Len(pending)
      /\ pending \in Seq(NameBlocks) /\ tree \in Seq(NameBlocks) /\ Len(tree) = h + 1
      /\ m \in 1..(h + 1) /\ m <= n
  BY NamesRange DEF IInv, TypeOK, Extent
<1>2. /\ \A i \in 2..(h + 1) : i <= Len(stored) => NamedAs(tree[i], stored[i])
      /\ \A i \in 1..Len(pending) : NamedAs(pending[i], stored[h + 1 + i])
      /\ \A i \in 1..m : tree[i] = stored[i]
  BY DEF NamesOf, SnapshotsOf, PendingOf
<1> HIDE DEF h, tree
<1>3. /\ Len(all) = Len(tree) + Len(pending)
      /\ \A i \in 1..(Len(tree) + Len(pending)) :
            all[i] = IF i <= Len(tree) THEN tree[i] ELSE pending[i - Len(tree)]
  BY <1>1, ConcatFacts
<1> HIDE DEF all
<1>4. ASSUME NEW i \in 1..n PROVE all[i] = stored[i] \/ (i > m /\ all[i] = Twice[stored[i]])
  <2>1. CASE i <= m
    <3>1. i \in 1..m /\ i <= Len(tree) /\ i \in 1..(Len(tree) + Len(pending))
      BY <1>1, <2>1
    <3> QED
      BY <1>2, <1>3, <3>1
  <2>2. CASE i > m /\ i <= h + 1
    <3>1. /\ i \in 2..(h + 1) /\ i <= Len(stored) /\ i <= Len(tree)
          /\ i \in 1..(Len(tree) + Len(pending))
      BY <1>1, <2>2
    <3> QED
      BY <1>2, <1>3, <2>2, <3>1 DEF NamedAs
  <2>3. CASE i > h + 1
    <3>1. /\ i - (h + 1) \in 1..Len(pending) /\ h + 1 + (i - (h + 1)) = i /\ i > m
          /\ ~(i <= Len(tree)) /\ i \in 1..(Len(tree) + Len(pending)) /\ Len(tree) = h + 1
      BY <1>1, <2>3
    <3>2. NamedAs(pending[i - (h + 1)], stored[i])
      BY <1>2, <3>1
    <3>3. all[i] = pending[i - (h + 1)]
      BY <1>3, <3>1
    <3> QED
      BY <3>1, <3>2, <3>3 DEF NamedAs
  <2> QED
    BY <1>1, <2>1, <2>2, <2>3
<1>5. /\ Len(SubSeq(stored, 1, n)) = n /\ DOMAIN SubSeq(stored, 1, n) = 1..n
      /\ \A i \in 1..n : SubSeq(stored, 1, n)[i] = stored[i]
  <2>1. \A i \in 1..n : stored[i] \in Blocks
    BY <1>1, ElementOfSeq
  <2> QED
    BY <1>1, <2>1, SubSeqProperties
<1>6. Len(all) = n
  BY <1>1, <1>3
<1>7. HoldsNamesOf(all, SubSeq(stored, 1, n), m)
  BY <1>4, <1>5, <1>6 DEF HoldsNamesOf
<1> QED
  BY <1>7 DEF all, tree

\* At rest, a tree that the root check accepts is right and as high as it can be.
LEMMA RestFacts ==
    ASSUME IInv, NamesInv, pc = "idle", ~TreeDetectable
    PROVE  /\ NamesOf(nameDB, pending, stored) /\ stored \in Seq(Blocks) /\ stored # << >>
           /\ Len(stored) \in Nat /\ StoredHeight = Len(stored) - 1 /\ Len(stored) >= 1
           /\ Extent = Len(stored)
           /\ \A i \in 1..(nameDB.height + 1) : nameDB.tree[i] = stored[i]
           /\ nameDB.height \in Nat /\ nameDB.height <= StoredHeight
           /\ Len(pending) \in Nat
<1>1. /\ NamesOf(nameDB, pending, stored) /\ stored \in Seq(Blocks) /\ stored # << >>
      /\ Len(stored) \in Nat /\ StoredHeight = Len(stored) - 1 /\ Len(stored) >= 1
  BY NamesOfStored, EmptySeq DEF IInv, InOperation, Unloaded
<1>2. nameDB.height <= StoredHeight /\ \A i \in DOMAIN nameDB.tree : nameDB.tree[i] \in Blocks
  <2>1. nameDB.height \in Int
    BY <1>1, NamesRange
  <2> QED
    BY <1>1, <2>1 DEF TreeDetectable, ToSet
<1>3. Extent = Len(stored)
  <2>1. nameDB.height < Len(stored)
    BY <1>1, <1>2, NamesRange
  <2> QED
    BY <2>1 DEF NamesInv, NamesInOperation
<1>4. nameDB.height \in Nat /\ Len(pending) \in Nat
  <2>1. /\ nameDB.height \in Int /\ nameDB.height >= -1 /\ Len(pending) \in Nat
        /\ nameDB.height = -1 => pending = << >>
        /\ Extent = nameDB.height + 1 + Len(pending)
    BY <1>1, NamesRange DEF Extent
  <2>2. pending = << >> => Len(pending) = 0
    OBVIOUS
  <2> QED
    BY <1>1, <1>3, <2>1, <2>2
<1>5. ASSUME NEW i \in 1..(nameDB.height + 1) PROVE nameDB.tree[i] = stored[i]
  <2>1. nameDB.tree[i] \in Blocks /\ i <= Len(stored) /\ i \in 1..Len(stored)
    <3>1. /\ nameDB.tree \in Seq(NameBlocks) /\ Len(nameDB.tree) = nameDB.height + 1
          /\ Len(stored) = nameDB.height + 1 + Len(pending)
      BY <1>1, <1>3, NamesRange DEF Extent
    <3>2. i \in DOMAIN nameDB.tree /\ i <= Len(stored) /\ i \in 1..Len(stored)
      BY <1>1, <1>4, <3>1
    <3> QED
      BY <1>2, <3>2
  <2>2. CASE i = 1
    <3>1. nameDB.tree[1] \in {Genesis, GenesisReplayed}
      BY <1>1, <1>4 DEF NamesOf, SnapshotsOf
    <3>2. stored[1] = Genesis
      BY <1>1, StoredDistinct
    <3> QED
      BY <2>1, <2>2, <3>1, <3>2, ParamsAssumption
  <2>3. CASE i # 1
    <3>1. NamedAs(nameDB.tree[i], stored[i])
      <4>1. i \in 2..(nameDB.height + 1)
        BY <1>4, <2>3
      <4> QED
        BY <1>1, <2>1, <4>1 DEF NamesOf, SnapshotsOf
    <3>2. stored[i] \in Blocks
      BY <1>1, <2>1, ElementOfSeq
    <3> QED
      BY <2>1, <3>1, <3>2, ParamsAssumption DEF NamedAs
  <2> QED
    BY <2>2, <2>3
<1> QED
  BY <1>1, <1>2, <1>3, <1>4, <1>5

\* In every state, also on the disk of a dead process, the name tree, its snapshots and the
\* pending map are those of the stored blocks one for one, each replayed once or twice, or are
\* replayed from the genesis names, or are one block ahead of the block files.
THEOREM NamesInvariance ==
    ASSUME LegacyBlocks = 0, ~SubmitUnsynced
    PROVE  Spec => []NamesInv
<1>1. Init => NamesInv
  BY InitNames
<1>2. IInv /\ CoinsInv /\ NamesInv /\ [Next]_vars => NamesInv'
  BY NextNames
<1> QED
  BY <1>1, <1>2, Invariance, CoinsInvariance, PTL DEF Spec

\* At rest the name state is that of the stored blocks in order, but for the trees that the
\* root check of the next block rejects and for pending blocks that a start has replayed twice.
THEOREM NamesRecovered ==
    ASSUME LegacyBlocks = 0, ~SubmitUnsynced
    PROVE  Spec => []NamesMatchOrDetectable
<1>1. IInv /\ NamesInv => NamesMatchOrDetectable
  <2> SUFFICES ASSUME IInv, NamesInv, pc = "idle", ~TreeDetectable
               PROVE  HoldsNamesOf(nameDB.tree \o pending, stored, Len(nameDB.tree))
    BY DEF NamesMatchOrDetectable
  <2>1. /\ NamesOf(nameDB, pending, stored) /\ stored \in Seq(Blocks) /\ Len(stored) \in Nat
        /\ Len(stored) \in 1..Len(stored) /\ Extent = Len(stored)
        /\ \A i \in 1..(nameDB.height + 1) : nameDB.tree[i] = stored[i]
        /\ nameDB.height \in Nat /\ Len(pending) \in Nat
    BY RestFacts
  <2>2. Len(nameDB.tree) = nameDB.height + 1
    BY <2>1, NamesRange
  <2>3. Len(nameDB.tree) \in 1..(nameDB.height + 1) /\ Len(nameDB.tree) <= Len(stored)
    BY <2>1, <2>2 DEF Extent
  <2>4. HoldsNamesOf(nameDB.tree \o pending, SubSeq(stored, 1, Len(stored)), Len(nameDB.tree))
    BY <2>1, <2>2, <2>3, WholeNames
  <2> QED
    BY <2>1, <2>4, SubSeqFull
<1> QED
  BY <1>1, Invariance, NamesInvariance, PTL

\* No block's coins are saved over a name state that is wrong at or below the last commit
\* boundary: the root check of the block has seen the tree.
THEOREM ConnectsOnRightNames ==
    ASSUME LegacyBlocks = 0, ~SubmitUnsynced
    PROVE  Spec => []ConnectedOnRightNames
<1>1. IInv /\ CoinsInv /\ NamesInv => ConnectedOnRightNames
  <2> DEFINE n == Height(block) + 1
             m == Boundary(Height(block) - 1) + 1
  <2> SUFFICES ASSUME IInv, CoinsInv, NamesInv, pc = "save", ret = "idle"
               PROVE  HoldsNamesOf(nameDB.tree \o pending, SubSeq(stored, 1, n), m)
    BY DEF ConnectedOnRightNames
  <2>1. block # Genesis
    BY DEF NamesInv, NamesOfBlock
  <2>2. /\ NamesOf(nameDB, pending, stored) /\ Extent = n
        /\ m - 1 <= nameDB.height /\ \A i \in 1..m : nameDB.tree[i] = Path[block][i]
    <3>1. Boundary(Height(block) - 1) <= nameDB.height
      BY <2>1 DEF NamesInv, NamesOfBlock
    <3>2. Boundary(Height(block) - 1) \in Int
      BY <2>1, BoundaryBelow
    <3> QED
      BY <2>1, <3>1, <3>2, NamesOfStored DEF NamesInv, NamesOfBlock
  <2>3. /\ n \in 1..Len(stored) /\ stored[n] = block /\ stored \in Seq(Blocks)
        /\ stored = Path[Last(stored)] /\ stored # << >>
    BY CoinsRange DEF CoinsInv, CoinsInOperation, IInv, InOperation, Unloaded, StoredIsPath
  <2>4. m \in 1..(nameDB.height + 1) /\ m <= n
    <3>1. Boundary(Height(block) - 1) \in Nat /\ Boundary(Height(block) - 1) <= Height(block) - 1
      BY <2>1, BoundaryBelow
    <3>2. nameDB.height \in Int /\ Height(block) \in Nat
      BY <2>2, <2>3, NamesRange, CoinsRange DEF CoinsInv
    <3> QED
      BY <2>2, <3>1, <3>2
  <2>5. \A i \in 1..m : nameDB.tree[i] = stored[i]
    <3>1. \A i \in 1..n : Path[stored[n]][i] = stored[i]
      BY <2>3, PathPrefix
    <3> QED
      BY <2>2, <2>3, <2>4, <3>1
  <2> HIDE DEF n, m
  <2> QED
    BY <2>2, <2>3, <2>4, <2>5, WholeNames
<1> QED
  BY <1>1, Invariance, CoinsInvariance, NamesInvariance, PTL

\* A reorganisation or reset to any stored height finds its snapshot, and the
\* snapshot holds the names of that height.
THEOREM SnapshotsCoverStored ==
    ASSUME LegacyBlocks = 0, ~SubmitUnsynced
    PROVE  Spec => []SnapshotsCover
<1>1. IInv /\ NamesInv => SnapshotsCover
  <2> SUFFICES ASSUME IInv, NamesInv, pc = "idle", ~TreeDetectable,
                      NEW h \in 0..StoredHeight, h % TreeInterval = 0
               PROVE  /\ h \in DOMAIN nameDB.snapshots
                      /\ nameDB.snapshots[h] = SubSeq(stored, 1, h + 1)
    BY DEF SnapshotsCover
  <2>1. /\ NamesOf(nameDB, pending, stored) /\ stored \in Seq(Blocks) /\ stored # << >>
        /\ Len(stored) \in Nat /\ StoredHeight = Len(stored) - 1
        /\ Extent = Len(stored)
        /\ \A i \in 1..(nameDB.height + 1) : nameDB.tree[i] = stored[i]
        /\ nameDB.height \in Nat /\ nameDB.height <= StoredHeight /\ Len(pending) \in Nat
    BY RestFacts
  <2>2. h \in DOMAIN nameDB.snapshots
    <3>1. h <= nameDB.height
      <4> SUFFICES ASSUME h > nameDB.height PROVE FALSE
        BY <2>1
      <4>1. Len(stored) = nameDB.height + 1 + Len(pending)
        BY <2>1 DEF Extent
      <4>2. h - nameDB.height \in 1..Len(pending) /\ nameDB.height + (h - nameDB.height) = h
        BY <2>1, <4>1
      <4>3. (nameDB.height + (h - nameDB.height)) % TreeInterval # 0
        BY <2>1, <4>2 DEF NamesOf, PendingOf
      <4> QED
        BY <4>2, <4>3
    <3>2. h \in 0..nameDB.height
      BY <2>1, <3>1
    <3> QED
      BY <2>1, <3>2 DEF NamesOf, SnapshotsOf
  <2>3. /\ nameDB.snapshots[h] \in Seq(NameBlocks) /\ Len(nameDB.snapshots[h]) = h + 1
        /\ \A i \in 1..(h + 1) : nameDB.snapshots[h][i] = nameDB.tree[i]
    BY <2>1, <2>2 DEF IInv, TypeOK, NamesOf, SnapshotsOf
  <2>4. h + 1 \in 1..Len(stored) /\ h \in Nat /\ h <= nameDB.height
    BY <2>1, <2>2 DEF NamesOf, SnapshotsOf
  <2>5. \A i \in 1..(h + 1) : nameDB.snapshots[h][i] = stored[i]
    <3>1. 1..(h + 1) \subseteq 1..(nameDB.height + 1)
      BY <2>1, <2>4
    <3> QED
      BY <2>1, <2>3, <3>1
  <2>6. /\ SubSeq(stored, 1, h + 1) \in Seq(Blocks) /\ Len(SubSeq(stored, 1, h + 1)) = h + 1
        /\ \A i \in 1..(h + 1) : SubSeq(stored, 1, h + 1)[i] = stored[i]
    <3>1. \A i \in 1..(h + 1) : stored[i] \in Blocks
      BY <2>1, <2>4, ElementOfSeq
    <3> QED
      BY <2>1, <2>4, <3>1, SubSeqProperties
  <2>7. nameDB.snapshots[h] = SubSeq(stored, 1, h + 1)
    BY <2>3, <2>5, <2>6, SeqEqual
  <2> QED
    BY <2>2, <2>7
<1> QED
  BY <1>1, Invariance, NamesInvariance, PTL

=============================================================================
