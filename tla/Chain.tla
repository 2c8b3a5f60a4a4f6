------------------------------- MODULE Chain --------------------------------
(***************************************************************************)
(* The chain component: the in-memory header index (Chain.swift), block    *)
(* connection and recovery (ChainValidation.swift), the four stores it     *)
(* writes (ChainStore, BlockStore, CoinDatabase, NameDB) and the start-up  *)
(* sequence of FullNode.swift that makes them agree again.                 *)
(*                                                                         *)
(* Every public operation runs under one lock, so operations do not        *)
(* interleave with each other; what interleaves is a crash of the process  *)
(* between two of the durable writes of an operation.  An operation is     *)
(* therefore split exactly at its durable writes (variable pc), and Crash  *)
(* may happen at each of them.                                             *)
(*                                                                         *)
(* A block stands for its transactions: the UTXO set is the set of blocks  *)
(* applied to it, and the name state is the sequence of blocks whose       *)
(* covenants were applied to it, so that two name trees have the same root *)
(* exactly when the same blocks were applied in the same order.  A block   *)
(* replayed over names that hold it already is another one in its place,   *)
(* when one of its covenants counts twice (a reveal, a renewal).           *)
(*                                                                         *)
(* Definitions whose name starts with Faulty are not part of the model:    *)
(* each is the definition after it with a plausible bug, to see that the   *)
(* properties notice.                                                      *)
(***************************************************************************)
EXTENDS Integers, SequencesExt

CONSTANTS
    Blocks,          \* every block a peer, a miner or submitblock may hand in
    Genesis,
    Path,            \* Path[b]: genesis..b along prevBlock (b's header commits to it)
    Work,            \* Work[b]: chainwork of b, cumulative
    Invalid,         \* blocks whose header is good and whose body is rejected
    Spending,        \* blocks with a transaction that spends a coin of their parent
    TreeInterval,    \* heights that are multiples of it commit the name tree
    LegacyBlocks,    \* 100 in needsReindex: below it an empty coin DB is not reindexed
    GenesisReplayed, \* genesis names as replayCovenants rebuilds them: not the registered ones
    Twice,           \* Twice[b]: b replayed twice; b itself if none of its covenants counts twice
    FreshStart,      \* TRUE: the data directory is empty; FALSE: it holds genesis
    SubmitUnsynced,  \* TRUE: submitblock is called while blocks are missing below the tip
    MaxCrashes       \* bound on the number of crashes

ASSUME BlocksAssumption ==
    /\ Genesis \in Blocks
    /\ Path \in [Blocks -> Seq(Blocks)]
    /\ Path[Genesis] = <<Genesis>>
    /\ \A b \in Blocks : /\ Path[b] # << >>
                         /\ Path[b][Len(Path[b])] = b
                         /\ \A n \in 1..Len(Path[b]) : Path[Path[b][n]] = SubSeq(Path[b], 1, n)
                         /\ Path[b][1] = Genesis
    /\ Work \in [Blocks -> Nat]
    /\ \A b \in Blocks : \A n \in 1..(Len(Path[b]) - 1) : Work[Path[b][n]] < Work[b]
    /\ Invalid \subseteq Blocks \ {Genesis}
    /\ Spending \subseteq Blocks \ {Genesis}

ASSUME ParamsAssumption ==
    /\ TreeInterval \in Nat \ {0}
    /\ LegacyBlocks \in Nat
    /\ GenesisReplayed \notin Blocks
    /\ DOMAIN Twice = Blocks /\ \A b \in Blocks : Twice[b] \in Blocks => Twice[b] = b
    /\ FreshStart \in BOOLEAN
    /\ SubmitUnsynced \in BOOLEAN
    /\ MaxCrashes \in Nat

VARIABLES
    \* in memory, lost in a crash
    byHash,          \* blocks whose header is in the index
    byHeight,        \* best chain: byHeight[h + 1] is the entry at height h, the last one is the tip
    persistedHeight, \* height up to which Chain believes the entries are in the header file
    pending,         \* NameDB: blocks whose covenants are in the pending map
    \* durable
    entries,         \* ChainStore: header file, genesis excluded
    stored,          \* BlockStore: stored[h + 1] is the block at height h
    coinDB,          \* CoinDatabase: blocks applied, committedHeight, undo heights, pending sentinel
    nameDB,          \* NameDB: committedHeight, blocks in the tree, snapshots by height
    \* where the operation in progress is
    pc, ret,         \* next durable write, and where to continue after a sub-operation
    block, at,       \* block being connected or reorganised to, loop counter
    crashes

memory == <<byHash, byHeight, persistedHeight, pending>>
disk == <<entries, stored, coinDB, nameDB>>
control == <<pc, ret, block, at, crashes>>
vars == <<memory, disk, control>>

-----------------------------------------------------------------------------
Height(b) == Len(Path[b]) - 1
Parent(b) == Path[b][Len(Path[b]) - 1]
Tip == Last(byHeight)
StoredHeight == Len(stored) - 1
TipHeight == Len(byHeight) - 1

\* The commit boundary at or below h.
Boundary(h) == (h \div TreeInterval) * TreeInterval

EmptyCoins == [applied |-> {}, height |-> -1, undo |-> {}, pending |-> -1]
EmptyNames == [height |-> -1, tree |-> << >>, snapshots |-> << >>]

\* NameDB.commit: pending goes into the tree, one batch writes the tree, the
\* committed height and the snapshot of that height.
Committed(h, pend) ==
    LET tree == nameDB.tree \o pend
    IN  [height |-> h,
         tree |-> tree,
         snapshots |-> [k \in DOMAIN nameDB.snapshots \cup {h} |->
                            IF k = h THEN tree ELSE nameDB.snapshots[k]]]

\* The snapshot of the boundary itself is deleted too.
FaultyStaleSnapshots(c) == {k \in DOMAIN nameDB.snapshots : k >= c}

\* The snapshots rollbackToHeight deletes: those above c, up to the first gap.
StaleSnapshots(c) ==
    {k \in DOMAIN nameDB.snapshots : k > c /\ \A j \in (c + 1)..k :
        j % TreeInterval = 0 => j \in DOMAIN nameDB.snapshots}

CanRollBack(h) == Boundary(h) \in DOMAIN nameDB.snapshots

\* Every block above the boundary and up to h is stored.
CanReplay(h) == h <= StoredHeight \/ h = Boundary(h)

\* The blocks above the boundary are not replayed.
FaultyRollBackNames(h) ==
    /\ nameDB' = [height |-> Boundary(h),
                  tree |-> nameDB.snapshots[Boundary(h)],
                  snapshots |-> [k \in DOMAIN nameDB.snapshots \ StaleSnapshots(Boundary(h)) |->
                                    nameDB.snapshots[k]]]
    /\ pending' = << >>

\* NameDB.rollbackToHeight, then replayCovenants of the blocks above the
\* boundary: those that are stored, the first one that is not ends the replay.
RollBackNames(h) ==
    LET c == Boundary(h)
    IN  /\ nameDB' = [height |-> c,
                      tree |-> nameDB.snapshots[c],
                      snapshots |-> [k \in DOMAIN nameDB.snapshots \ StaleSnapshots(c) |->
                                        nameDB.snapshots[k]]]
        /\ pending' = SubSeq(stored, c + 2, Min({h + 1, Len(stored)}))

\* _flush: the best-chain entries above persistedHeight.
Flushed(chain) == entries \o SubSeq(chain, persistedHeight + 2, Len(chain))

\* ChainStore.truncateToHeight
Truncated(h) == SubSeq(entries, 1, Min({h, Len(entries)}))

\* The operation goes on at label.
Goto(label) == pc' = label /\ UNCHANGED <<ret, block, at, crashes>>

\* The operation is over: the node is at label with nothing in progress.
Return(label) ==
    /\ pc' = label /\ ret' = "idle" /\ block' = Genesis /\ at' = 0
    /\ UNCHANGED crashes

\* The process is gone, with everything it had in memory.
Dies ==
    /\ byHash' = {} /\ byHeight' = << >> /\ persistedHeight' = 0 /\ pending' = << >>
    /\ UNCHANGED disk

Init ==
    /\ byHash = {} /\ byHeight = << >> /\ persistedHeight = 0 /\ pending = << >>
    /\ entries = << >>
    /\ IF FreshStart
       THEN stored = << >> /\ coinDB = EmptyCoins /\ nameDB = EmptyNames
       ELSE /\ stored = <<Genesis>>
            /\ coinDB = [applied |-> {Genesis}, height |-> 0, undo |-> {0}, pending |-> -1]
            /\ nameDB = [height |-> 0, tree |-> <<Genesis>>,
                         snapshots |-> [k \in {0} |-> <<Genesis>>]]
    /\ pc = "down" /\ ret = "idle" /\ block = Genesis /\ at = 0 /\ crashes = 0

-----------------------------------------------------------------------------
(* Headers: _add.  An orphan, a duplicate and a header that fails its checks
   are rejected without any change of state. *)

NewHeader(b) == pc = "idle" /\ b \notin byHash /\ Parent(b) \in byHash

\* findFork: height of the last block the best chain and the path of b share.
ForkHeight(b) ==
    Max({n \in 1..Len(byHeight) : n <= Len(Path[b]) /\ byHeight[n] = Path[b][n]}) - 1

AddSideHeader(b) ==
    /\ NewHeader(b) /\ Work[b] <= Work[Tip]
    /\ byHash' = byHash \cup {b}
    /\ UNCHANGED <<byHeight, persistedHeight, pending, disk, control>>

AddTipHeader(b) ==
    /\ NewHeader(b) /\ Work[b] > Work[Tip] /\ Parent(b) = Tip
    /\ byHash' = byHash \cup {b}
    /\ byHeight' = Append(byHeight, b)
    /\ UNCHANGED <<persistedHeight, pending, disk, control>>

\* A branch with as much work as the tip's replaces it.
FaultyForkHeader(b) == NewHeader(b) /\ Work[b] >= Work[Tip] /\ Parent(b) # Tip

ForkHeader(b) == NewHeader(b) /\ Work[b] > Work[Tip] /\ Parent(b) # Tip

\* _reorganize: the name tree is rolled back first, then _disconnectTo walks
\* down from the highest stored block.
BeginReorg(b) ==
    /\ ForkHeader(b) /\ CanRollBack(ForkHeight(b)) /\ CanReplay(ForkHeight(b))
    /\ byHash' = byHash \cup {b}
    /\ RollBackNames(ForkHeight(b))
    /\ pc' = "disconnect" /\ block' = b /\ at' = Min({TipHeight, StoredHeight})
    /\ UNCHANGED <<byHeight, persistedHeight, entries, stored, coinDB, ret, crashes>>

\* _reorganize throws: there is no snapshot to roll back to, or a block of the
\* replay is not stored.  The header stays in the index, the tip where it was.
FailReorg(b) ==
    /\ ForkHeader(b)
    /\ byHash' = byHash \cup {b}
    /\ \/ ~CanRollBack(ForkHeight(b)) /\ UNCHANGED <<nameDB, pending>>
       \/ /\ CanRollBack(ForkHeight(b)) /\ ~CanReplay(ForkHeight(b))
          /\ RollBackNames(ForkHeight(b))
    /\ UNCHANGED <<byHeight, persistedHeight, entries, stored, coinDB, control>>

\* The walk down does not end at the fork.
FaultyDisconnectBlock ==
    /\ pc = "disconnect" /\ at \in coinDB.undo
    /\ coinDB' = [coinDB EXCEPT !.applied = @ \ {stored[at + 1]},
                                !.height = Max({0, at - 1}),
                                !.undo = @ \ {at}]
    /\ at' = at - 1
    /\ UNCHANGED <<memory, entries, stored, nameDB, pc, ret, block, crashes>>

DisconnectBlock ==
    /\ pc = "disconnect" /\ at > ForkHeight(block) /\ at \in coinDB.undo
    /\ coinDB' = [coinDB EXCEPT !.applied = @ \ {stored[at + 1]},
                                !.height = Max({0, at - 1}),
                                !.undo = @ \ {at}]
    /\ at' = at - 1
    /\ UNCHANGED <<memory, entries, stored, nameDB, pc, ret, block, crashes>>

\* saveView: the coins, the undo data and the height in one batch, which also
\* clears the sentinel.
Saved(b, h) ==
    [applied |-> coinDB.applied \cup {b}, height |-> h,
     undo |-> coinDB.undo \cup {h}, pending |-> -1]

\* No undo data: rebuildUTXO empties the coin database ...
MissingUndo ==
    /\ pc = "disconnect" /\ at > ForkHeight(block) /\ at \notin coinDB.undo
    /\ coinDB' = EmptyCoins
    /\ pc' = "rebuildCoins" /\ at' = 0
    /\ UNCHANGED <<memory, entries, stored, nameDB, ret, block, crashes>>

\* ... and replays the stored blocks up to the fork.
RebuildCoins ==
    /\ pc = "rebuildCoins" /\ at <= ForkHeight(block)
    /\ coinDB' = Saved(stored[at + 1], at)
    /\ at' = at + 1
    /\ UNCHANGED <<memory, entries, stored, nameDB, pc, ret, block, crashes>>

TruncateEntries ==
    /\ \/ pc = "disconnect" /\ at <= ForkHeight(block)
       \/ pc = "rebuildCoins" /\ at > ForkHeight(block)
    /\ entries' = Truncated(ForkHeight(block))
    /\ pc' = "truncateBlocks" /\ at' = 0
    /\ UNCHANGED <<memory, stored, coinDB, nameDB, ret, block, crashes>>

\* One block of the old branch is left above the fork.
FaultyTruncateBlocks ==
    /\ pc = "truncateBlocks"
    /\ stored' = SubSeq(stored, 1, Min({ForkHeight(block) + 2, Len(stored)}))
    /\ byHeight' = Path[block]
    /\ persistedHeight' = ForkHeight(block)
    /\ Return("idle")
    /\ UNCHANGED <<byHash, pending, entries, coinDB, nameDB>>

\* The last durable write of a reorganisation; _add then makes b the tip.
TruncateBlocks ==
    /\ pc = "truncateBlocks"
    /\ stored' = SubSeq(stored, 1, Min({ForkHeight(block) + 1, Len(stored)}))
    /\ byHeight' = Path[block]
    /\ persistedHeight' = ForkHeight(block)
    /\ Return("idle")
    /\ UNCHANGED <<byHash, pending, entries, coinDB, nameDB>>

Flush ==
    /\ pc = "idle" /\ persistedHeight < TipHeight
    /\ entries' = Flushed(byHeight)
    /\ persistedHeight' = TipHeight
    /\ UNCHANGED <<byHash, byHeight, pending, stored, coinDB, nameDB, control>>

-----------------------------------------------------------------------------
(* Blocks: _connectBlock.  A block that fails a check before its covenants
   are processed, or while they are (restorePending), changes nothing. *)

\* The root is not checked.
FaultyRootMatches(chain, h) == TRUE

\* The tree root that the header at height h of the chain commits to.
RootMatches(chain, h) == nameDB.tree = SubSeq(chain, 1, Boundary(h - 1) + 1)

Connectable(chain, h) ==
    LET b == chain[h + 1]
    IN  /\ b \notin Invalid
        /\ b \in Spending => Parent(b) \in coinDB.applied
        /\ RootMatches(chain, h)

\* The pending map after height h: at a boundary it goes into the tree.
NamesUpTo(h, pend) ==
    IF h % TreeInterval = 0
    THEN nameDB' = Committed(h, pend) /\ pending' = << >>
    ELSE pending' = pend /\ UNCHANGED nameDB

ConnectBlock(chain, h, next) ==
    /\ h > 0 /\ Connectable(chain, h)
    /\ NamesUpTo(h, Append(pending, chain[h + 1]))
    /\ pc' = IF h < Len(stored) THEN "save" ELSE "mark"
    /\ block' = chain[h + 1] /\ ret' = next /\ at' = 0
    /\ UNCHANGED <<persistedHeight, entries, stored, coinDB, crashes>>

\* ChainSync and CPUMiner: the block after the last stored one.
ConnectNext ==
    /\ pc = "idle" /\ Len(stored) < Len(byHeight)
    /\ ConnectBlock(byHeight, Len(stored), "idle")
    /\ UNCHANGED <<byHash, byHeight>>

\* submitblock: add and connectBlock, whatever is stored below the new tip.
SubmitBlock(b) ==
    /\ SubmitUnsynced /\ StoredHeight < TipHeight
    /\ NewHeader(b) /\ Work[b] > Work[Tip] /\ Parent(b) = Tip
    /\ byHash' = byHash \cup {b}
    /\ byHeight' = Append(byHeight, b)
    /\ ConnectBlock(byHeight', Height(b), "idle")

MarkPending ==
    /\ pc = "mark"
    /\ coinDB' = [coinDB EXCEPT !.pending = Height(block)]
    /\ Goto("store")
    /\ UNCHANGED <<memory, entries, stored, nameDB>>

\* No height check: the block goes to the end of the file.
FaultyStoreBlock ==
    /\ pc = "store"
    /\ stored' = Append(stored, block)
    /\ Goto("save")
    /\ UNCHANGED <<memory, entries, coinDB, nameDB>>

StoreBlock ==
    /\ pc = "store" /\ Height(block) = Len(stored)
    /\ stored' = Append(stored, block)
    /\ Goto("save")
    /\ UNCHANGED <<memory, entries, coinDB, nameDB>>

\* BlockStoreError.heightMismatch: what was done before stays done.
StoreMismatch ==
    /\ pc = "store" /\ Height(block) # Len(stored)
    /\ Return("idle")
    /\ UNCHANGED <<memory, disk>>

SaveView ==
    /\ pc = "save"
    /\ coinDB' = Saved(block, Height(block))
    /\ IF block = Genesis THEN Goto("commitGenesis") ELSE Return(ret)
    /\ UNCHANGED <<memory, entries, stored, nameDB>>

CommitGenesis ==
    /\ pc = "commitGenesis"
    /\ nameDB' = Committed(0, Append(pending, Genesis)) /\ pending' = << >>
    /\ Return(ret)
    /\ UNCHANGED <<byHash, byHeight, persistedHeight, entries, stored, coinDB>>

-----------------------------------------------------------------------------
(* resetToStoredHeight: by ChainSync when headers turn out to be orphaned, and
   at start-up. *)

ResetEntries(next) ==
    /\ StoredHeight >= 0 /\ StoredHeight < TipHeight
    /\ byHeight' = SubSeq(byHeight, 1, Len(stored))
    /\ byHash' = {b \in byHash : Height(b) <= StoredHeight}
    /\ entries' = Truncated(StoredHeight)
    /\ persistedHeight' = StoredHeight
    /\ pc' = "resetNames" /\ ret' = next
    /\ UNCHANGED <<pending, stored, coinDB, nameDB, block, at, crashes>>

ResetToStoredHeight == pc = "idle" /\ ResetEntries("idle")

ResetNames ==
    /\ pc = "resetNames" /\ CanRollBack(StoredHeight)
    /\ RollBackNames(StoredHeight)
    /\ Return(ret)
    /\ UNCHANGED <<byHash, byHeight, persistedHeight, entries, stored, coinDB>>

\* At start-up the exception ends the process.
ResetFails ==
    /\ pc = "resetNames" /\ ~CanRollBack(StoredHeight) /\ ret = "check"
    /\ Dies /\ Return("failed")

(* repairTreeFromStoredBlocks: by ChainSync when the next block reports
   invalidTreeRoot, and at start-up when the replay does. *)

RepairTree ==
    /\ \/ pc = "idle" /\ Len(stored) < Len(byHeight) /\ ~RootMatches(byHeight, Len(stored))
       \/ pc = "wipeNames"
    /\ nameDB' = EmptyNames /\ pending' = << >>
    /\ pc' = "repair" /\ at' = 0
    /\ UNCHANGED <<byHash, byHeight, persistedHeight, entries, stored, coinDB, ret, block, crashes>>

RepairGenesis ==
    /\ pc = "repair" /\ at = 0
    /\ nameDB' = Committed(0, <<Genesis>>)
    /\ at' = 1
    /\ UNCHANGED <<memory, entries, stored, coinDB, pc, ret, block, crashes>>

\* replayCovenants of block b at height h, whether or not the pending map holds it.
Replayed(h, b) ==
    IF h <= nameDB.height + Len(pending)
    THEN [pending EXCEPT ![h - nameDB.height] = Twice[b]]
    ELSE Append(pending, b)

RepairBlock ==
    /\ pc = "repair" /\ at > 0 /\ at < Len(stored)
    /\ NamesUpTo(at, Replayed(at, stored[at + 1]))
    /\ at' = at + 1
    /\ UNCHANGED <<byHash, byHeight, persistedHeight, entries, stored, coinDB, pc, ret, block, crashes>>

RepairDone ==
    /\ pc = "repair" /\ at > 0 /\ at >= Len(stored)
    /\ Return("idle")
    /\ UNCHANGED <<memory, disk>>

-----------------------------------------------------------------------------
(* FullNode.start *)

CoinsBehind ==
    IF coinDB.height >= 0
    THEN coinDB.pending # -1 \/ coinDB.height < StoredHeight
    ELSE Len(stored) > LegacyBlocks

CoinsAhead == stored # << >> /\ coinDB.height >= 0 /\ coinDB.height > StoredHeight

OpenStores ==
    /\ pc \in {"down", "failed"} /\ ~CoinsBehind /\ ~CoinsAhead
    /\ Goto("load")
    /\ UNCHANGED <<memory, disk>>

\* The coin database is deleted, then the name tree.
WipeCoins ==
    /\ pc \in {"down", "failed"} /\ (CoinsBehind \/ CoinsAhead)
    /\ coinDB' = EmptyCoins
    /\ Goto("wipeTree")
    /\ UNCHANGED <<memory, entries, stored, nameDB>>

WipeTree ==
    /\ pc = "wipeTree"
    /\ nameDB' = EmptyNames
    /\ Goto("load")
    /\ UNCHANGED <<memory, entries, stored, coinDB>>

\* The loaded heights are not checked for gaps.
FaultyContiguous == Len(entries)

\* Number of entries in the header file before the first gap in the heights.
Contiguous == Max({n \in 0..Len(entries) : \A i \in 1..n : Height(entries[i]) = i})

LoadedChain == <<Genesis>> \o SubSeq(entries, 1, Contiguous)

\* Chain.init; an empty block store then gets the genesis block connected.
LoadChain ==
    /\ pc = "load"
    /\ byHeight' = LoadedChain
    /\ byHash' = ToSet(LoadedChain)
    /\ persistedHeight' = Contiguous
    /\ entries' = Truncated(Contiguous)
    /\ IF stored = << >>
       THEN pc' = "mark" /\ ret' = "align" /\ UNCHANGED <<block, at, crashes>>
       ELSE Goto("align")
    /\ UNCHANGED <<pending, stored, coinDB, nameDB>>

AlignReset == pc = "align" /\ ResetEntries("check")

\* Headers of the stored blocks above the tip, through add, then flush.
AlignReplay ==
    /\ pc = "align" /\ StoredHeight > TipHeight
    /\ byHeight' = byHeight \o SubSeq(stored, Len(byHeight) + 1, Len(stored))
    /\ byHash' = byHash \cup ToSet(byHeight')
    /\ entries' = Flushed(byHeight')
    /\ persistedHeight' = StoredHeight
    /\ Goto("check")
    /\ UNCHANGED <<pending, stored, coinDB, nameDB>>

AlignDone ==
    /\ pc = "align" /\ StoredHeight = TipHeight
    /\ Goto("check")
    /\ UNCHANGED <<memory, disk>>

NeedsReindex ==
    IF coinDB.height >= 0
    THEN coinDB.height < StoredHeight
    ELSE Len(stored) > LegacyBlocks

StartReindex ==
    /\ pc = "check" /\ NeedsReindex
    /\ nameDB' = EmptyNames /\ pending' = << >>
    /\ Goto("reindex")
    /\ UNCHANGED <<byHash, byHeight, persistedHeight, entries, stored, coinDB>>

\* The replay skips the genesis block.
FaultyReindexGenesis ==
    /\ pc = "reindex" /\ coinDB.height = -1 /\ stored = << >>
    /\ UNCHANGED vars

ReindexGenesis ==
    /\ pc = "reindex" /\ coinDB.height = -1
    /\ pc' = "save" /\ ret' = "reindex" /\ UNCHANGED <<block, at, crashes>>
    /\ UNCHANGED <<memory, disk>>

ReindexBlock ==
    /\ pc = "reindex" /\ coinDB.height >= 0 /\ coinDB.height < StoredHeight
    /\ ConnectBlock(byHeight, coinDB.height + 1, "reindex")
    /\ UNCHANGED <<byHash, byHeight>>

ReindexDone ==
    /\ pc = "reindex" /\ coinDB.height >= StoredHeight
    /\ Return("idle")
    /\ UNCHANGED <<memory, disk>>

\* rebuildNameState: from the committed height on, also when the reset to the stored height
\* has just replayed those blocks into the pending map.
StartRebuild ==
    /\ pc = "check" /\ ~NeedsReindex
    /\ pc' = "rebuild" /\ at' = nameDB.height + 1
    /\ UNCHANGED <<memory, disk, ret, block, crashes>>

\* After a commit the root is compared with the next entry.
RebuildNames ==
    /\ pc = "rebuild" /\ at < Len(stored)
    /\ NamesUpTo(at, IF at = 0 THEN Append(pending, GenesisReplayed)
                                ELSE Replayed(at, stored[at + 1]))
    /\ pc' = IF /\ at > 0 /\ at % TreeInterval = 0 /\ at < TipHeight
                /\ nameDB'.tree # SubSeq(byHeight, 1, at + 1)
             THEN "wipeNames" ELSE "rebuild"
    /\ at' = at + 1
    /\ UNCHANGED <<byHash, byHeight, persistedHeight, entries, stored, coinDB, ret, block, crashes>>

RebuildDone ==
    /\ pc = "rebuild" /\ at >= Len(stored)
    /\ Return("idle")
    /\ UNCHANGED <<memory, disk>>

-----------------------------------------------------------------------------
\* The process is killed between two durable writes, or while it waits.
Crash ==
    /\ pc \notin {"down", "failed"} /\ crashes < MaxCrashes
    /\ Dies
    /\ pc' = "down" /\ ret' = "idle" /\ block' = Genesis /\ at' = 0
    /\ crashes' = crashes + 1

\* Nothing arrives.
Wait == pc = "idle" /\ UNCHANGED vars

Headers ==
    \E b \in Blocks \ {Genesis} :
        \/ AddSideHeader(b) \/ AddTipHeader(b) \/ BeginReorg(b) \/ FailReorg(b)
        \/ SubmitBlock(b)

Reorganize ==
    \/ DisconnectBlock \/ MissingUndo \/ RebuildCoins \/ TruncateEntries \/ TruncateBlocks

Connect == MarkPending \/ StoreBlock \/ StoreMismatch \/ SaveView \/ CommitGenesis

Recover ==
    \/ ResetNames \/ ResetFails
    \/ RepairGenesis \/ RepairBlock \/ RepairDone

Start ==
    \/ OpenStores \/ WipeCoins \/ WipeTree \/ LoadChain
    \/ AlignReset \/ AlignReplay \/ AlignDone
    \/ StartReindex \/ ReindexGenesis \/ ReindexBlock \/ ReindexDone
    \/ StartRebuild \/ RebuildNames \/ RebuildDone

\* What the running process does by itself, once an operation is begun.
Progress == Reorganize \/ Connect \/ Recover \/ Start \/ (pc = "wipeNames" /\ RepairTree)

Next ==
    \/ Headers \/ ConnectNext \/ Flush
    \/ ResetToStoredHeight \/ RepairTree
    \/ Progress \/ Crash \/ Wait

Spec == Init /\ [][Next]_vars

\* The thread that holds the lock runs on, and the operator starts the node again.
FairSpec == Spec /\ WF_vars(Progress)

-----------------------------------------------------------------------------
(* Properties *)

Positions == {"down", "failed", "wipeTree", "load", "align", "check", "reindex", "rebuild",
              "wipeNames", "repair", "resetNames", "idle", "mark", "store", "save",
              "commitGenesis", "disconnect", "rebuildCoins", "truncateBlocks"}

NameBlocks == Blocks \cup {GenesisReplayed} \cup {Twice[b] : b \in Blocks}

\* Every variable has its type, in every position of every operation.
TypeOK ==
    /\ byHash \subseteq Blocks
    /\ byHeight \in Seq(Blocks)
    /\ persistedHeight \in Nat
    /\ pending \in Seq(NameBlocks)
    /\ entries \in Seq(Blocks)
    /\ stored \in Seq(Blocks)
    /\ coinDB \in [applied : SUBSET Blocks, height : Nat \cup {-1}, undo : SUBSET Nat,
                   pending : Nat \cup {-1}]
    /\ nameDB.height \in Nat \cup {-1}
    /\ nameDB.tree \in Seq(NameBlocks)
    /\ DOMAIN nameDB.snapshots \subseteq Nat
    /\ \A k \in DOMAIN nameDB.snapshots : nameDB.snapshots[k] \in Seq(NameBlocks)
    /\ pc \in Positions /\ ret \in {"idle", "align", "check", "reindex"}
    /\ block \in Blocks /\ at \in Nat /\ crashes \in Nat

\* The index the tip is chosen from is one chain: every entry of byHeight has
\* the entry below it as its prevBlock, also when it was loaded from a header
\* file that crashes, truncations and late flushes have left behind, and from
\* the stored blocks above it.
BestIsPath == byHeight # << >> => byHeight = Path[Tip]

\* The blocks on disk are one chain from genesis in every state, also between
\* the two truncations of a reorganisation and after a crash there.
StoredIsPath == stored # << >> => stored = Path[Last(stored)]

\* At rest the stored blocks are the lower part of the best chain, never a
\* branch the header index has left.
StoredOnBestChain == pc = "idle" => IsPrefix(stored, byHeight)

\* At rest the UTXO set is exactly that of the stored blocks, each of them has
\* its undo data and no write is marked as pending, whatever crashed before
\* (comment of _connectBlock: "coinsBehind recovery handles it on restart").
CoinsMatchBlocks ==
    pc = "idle" =>
        /\ coinDB.applied = ToSet(stored)
        /\ coinDB.height = StoredHeight
        /\ coinDB.undo = 0..StoredHeight
        /\ coinDB.pending = -1

\* The name tree is one the next root check can tell wrong: it was committed at a boundary
\* whose block was then lost, from replayed genesis names or from blocks replayed twice.
TreeDetectable ==
    nameDB.height > StoredHeight \/ ~(ToSet(nameDB.tree) \subseteq Blocks)

\* At rest the name state, tree and pending map together, is the result of the stored blocks
\* in order (Chain.resetToStoredHeight: "replay covenants from (committedHeight + 1)...target
\* so pending matches the new tip").
NamesMatchBlocks == pc = "idle" => nameDB.tree \o pending = stored

\* The names are those of the blocks of the chain, one for one, but for blocks from
\* height h on that were replayed twice.
HoldsNamesOf(names, chain, h) ==
    /\ Len(names) = Len(chain)
    /\ \A i \in DOMAIN chain : names[i] = chain[i] \/ (i > h /\ names[i] = Twice[chain[i]])

\* At rest the name state is the result of the stored blocks in order, reorganisations,
\* resets and repairs included, but for the trees that the root check of the next block
\* rejects and for blocks of the pending map that a start has replayed twice.
NamesMatchOrDetectable ==
    pc = "idle" /\ ~TreeDetectable => HoldsNamesOf(nameDB.tree \o pending, stored, Len(nameDB.tree))

\* No block's coins are saved over a name state that is wrong at or below the last commit
\* boundary: when a block read from the network reaches saveView, the name state is that of
\* the chain below it and of the block itself, and what a start has replayed twice is confined
\* to the blocks of the current interval.
ConnectedOnRightNames ==
    pc = "save" /\ ret = "idle" =>
        HoldsNamesOf(nameDB.tree \o pending, SubSeq(stored, 1, Height(block) + 1),
                Boundary(Height(block) - 1) + 1)

\* A reorganisation or reset to any stored height finds its snapshot, and the
\* snapshot holds the names of that height: commits, rollbacks that delete
\* snapshots, repairs and crashes leave no hole and no stale one.
SnapshotsCover ==
    pc = "idle" /\ ~TreeDetectable =>
        \A h \in 0..StoredHeight : h % TreeInterval = 0 =>
            /\ h \in DOMAIN nameDB.snapshots
            /\ nameDB.snapshots[h] = SubSeq(stored, 1, h + 1)

\* Stored blocks are thrown away only in favour of a tip with more work than
\* the last of them.
RewindOnlyForMoreWork ==
    [][Len(stored') < Len(stored) => Work[Last(byHeight')] > Work[Last(stored)]]_vars

\* Chain: "Stores all known block headers and tracks the best (most work) chain tip."
BestTip == pc = "idle" => \A b \in byHash : Work[b] <= Work[Tip]

\* FullNode.start: "reset to stored height so reindex and peer sync start from
\* a consistent state", that is, the start does not end in an exception.
StartSucceeds == pc # "failed"

\* Whatever the crashes left on disk, starting the node (again) ends with the
\* node at rest.
RecoveryTerminates == pc \in {"down", "failed"} ~> pc = "idle"

L == INSTANCE Ledger WITH ledger <- stored

\* The stored blocks behave as module Ledger says.
ImplementsLedger == L!Spec
=============================================================================
