# A TLA+ verification of fbd

fbd is the Fistbump full node: a proof-of-work chain whose transactions carry
*covenants*, with which names are auctioned, registered, transferred and renewed.
This directory holds TLA+ models of its components, the TLC configurations that
check them, and proofs that the TLA+ proof system checks.

All paths below are under `src/Sources/`.

## 1. Inventory

The node is one process. Peers, the miner and the RPC server call into shared
objects, each of which has one lock; the long operations of the chain run with the
chain's lock held from beginning to end.

| component | state it keeps | operations | correct when |
|---|---|---|---|
| Chain (`Chain/Chain.swift`, `ChainValidation.swift`) | header index `byHash`, best chain `byHeight`, `persistedHeight` | `add`, reorganise, `_connectBlock`, `flush`, `resetToStoredHeight`, `repairTreeFromStoredBlocks`, reindex, rebuild | the tip has most work; coins, names and blocks on disk belong to one chain, after any crash |
| Stores (`ChainStore`, `BlockStore`, `CoinDatabase`, `NameDB`) | header file, block files, coins with undo data and a pending sentinel, name tree with snapshots | append, truncate, saveView, disconnect, commit, rollback | each batch is whole or absent |
| Start-up (`Node/FullNode.swift`) | none of its own | compares the stores, wipes, resets, replays | every start ends with stores that agree |
| Name auctions (`Chain/CovenantProcessor.swift`, `Covenants/`) | the state of every name, the coins that carry covenants | the ten name covenants, expiry, replay | second price, one owner, full transfer lockup, flags permanent, replay equal to processing |
| Mempool (`Mempool/`) | entries, spent outpoints, names in use (and orphans, unused) | accept, confirm a block, re-accept after a reorganisation, evict by fee or age | no double spend, no two transactions of one name, every input exists |
| Block download (`Net/ChainSync.swift`) | state, sync peer, window of requested blocks, buffer, compact block in progress | headers, block, inv, cmpctblock, blocktxn, handshake, disconnect, three timeouts | a download always has a peer and a timer and ends; the window is bounded; only bad peers are banned; the node ends up with the chain of its best peer |
| Peers (`Net/PeerManager.swift`, `PeerConnection.swift`, `AddressPool.swift`) | connections, addresses being dialed, failed, cooling, known, banned, its own | refill, dial, accept, handshake, ban, disconnect, learn addresses | no address is forgotten, ids are unique, the node gives up itself and is never left alone |
| Transport (`Net/Brontide*`, `Packets`, `PacketFramer`) | handshake state, two cipher states | three acts, rekey after 1000 messages | both ends use the same key for the same message |
| Consensus rules (`Consensus/`) | none | difficulty, subsidy, soft-fork states, block limits, Merkle root | agree with their definitions |
| Urkel tree (`Urkel/`) | a hash trie | insert, remove, prove | a map, with proofs that verify exactly what it holds |
| Miner (`Mining/`) | cached template | build, restart on a new tip | a template never has an input that is not there |
| Wallet (`Wallet/`) | coins, pending spends, address indexes, names | index, undo, evict, lock | balance equals the unspent outputs of its addresses |
| RPC, DNS, auction index, CLI | mostly none | queries | - |
| Script, cryptography, serialisation | none | pure functions | - |

How they interact:

- **ChainSync, miner and submitblock -> Chain.** Headers go in by `add`, blocks by
  `connectBlock`. The download and the miner connect the block after the last
  stored one; a compact block that is complete, and submitblock, connect whatever they
  are given.
- **Chain -> stores.** Connecting a block writes, in this order: name tree (at a
  commit boundary), pending sentinel, block, coins. A reorganisation writes: name
  tree, coins block by block, header file, block files. None of these is atomic
  with the next one.
- **Start-up -> Chain.** What a crash left is only visible as a disagreement of the
  heights of four stores, and as a tree root that the next header does not commit to.
- **Chain -> names.** `_connectBlock` checks the tree root, then runs
  `processCovenants` for each transaction over a pending map that is restored when
  one of them fails. At start-up and after a rollback `replayCovenants` is run
  instead, which checks nothing.
- **PeerManager <-> ChainSync.** Handshakes, disconnects, messages and the inactivity timer
  call handlers of ChainSync, which run under its lock; ChainSync asks PeerManager for the
  handshaked peers and has them banned or closed. Closing is asynchronous: `onPeerDisconnect`
  comes later, and until then the peer counts as handshaked.
- **Timers and tasks -> AddressPool.** `refillOutbound` runs every 30 s, after each handshake
  and 5 s after each disconnect, in tasks that nothing orders; each dial is a task again.
- **Chain -> mempool, wallet, miner, peers** by callbacks after a block is connected
  or a reorganisation is done.

Hard behaviours: a crash between any two durable writes; an exception in the middle
of a multi-store operation; recovery paths that call each other (reset, repair,
reindex, rebuild, rollback); an auction over many blocks by several bidders whose
outcome may not depend on the order of their transactions; names whose flags outlive
their owners; a second implementation of the covenant rules (replay) that must agree
with the first; downloads with timeouts and reorganisations in progress.
`PROJECT.json` lists each hazard at its line, with the property that would catch it or
the reason there is none yet.

## 2. Modules

| module | what it is |
|---|---|
| `Ledger` | abstract: the stored blocks are a path of the block tree that is extended by a child or cut back |
| `Chain` | chain, stores, start-up and recovery, split at durable writes, with crashes |
| `MCChain` | the block tree the runs use |
| `ChainProofs` | theorems about `Chain`: headers, stored blocks, refinement |
| `ChainStoresProofs` | theorems about its coin database, name tree, pending map and snapshots |
| `NameAuction` | covenants, name state, coins and replay, block after block |
| `MCNameAuction` | the names the runs use |
| `NameAuctionProofs` | theorems about `NameAuction` |
| `Mempool` | the mempool next to the coins and name state of a chain that connects and disconnects blocks, with the notifications in between |
| `Wallet` | composes `Mempool` with the coins of a wallet: every action is one of `Mempool` with the calls of the wallet that it makes |
| `MCWallet` | the transactions of its runs |
| `WalletProofs` | theorems about `Mempool` and about the composition |
| `ChainSync` | one node that downloads headers and blocks, and the peers it downloads from |
| `MCChainSync` | the block tree and the peers of its runs |
| `ChainSyncProofs` | theorems about `ChainSync` |
| `Loops` | lemmas about loops that are recursive functions of the number of turns, for `ChainSyncProofs` and `WalletProofs` |
| `Peers` | connections, dials and address pool of one node |
| `MCPeers` | the addresses its run uses |
| `PeersProofs` | theorems about `Peers` |
| `BlockServing` | composes the stored blocks of `Ledger` with the handlers of one peer and the task that serves it blocks |
| `MCBlockServing` | the block tree of its runs |
| `BlockServingProofs` | theorems about `BlockServing` |

### Chain

*State.* `byHash`, `byHeight`, `persistedHeight` and `pending` are the fields of
`Chain` and `NameDB` of the same names and vanish in a crash. `entries`, `stored`,
`coinDB`, `nameDB` are the header file, the block files and the two databases and stay.
A block stands for its transactions: `coinDB.applied` is the set of blocks whose coins
are applied, `nameDB.tree` is the sequence of blocks whose covenants are in the tree. Two
trees have the same root exactly if the same covenants were applied in the same order.
That is what `RootMatches` compares, and what a wrong rollback would get wrong. `Twice[b]` is what is
left of block `b` when `replayCovenants` runs over names that hold it already: `b` itself, or something else
if one of its covenants counts twice (a reveal makes the second price the highest bid, a renewal is
counted again, `CovenantProcessor.swift` 699-708 and 740).

*Steps.* An operation runs under the lock, so two operations never interleave. An
operation with several durable writes is split after each of them: `pc` is the next
write, `ret` the operation to return to (a reindex and a download both run
`_connectBlock`), `block` and `at` are its locals. `Crash` may come at any position.

| code | actions |
|---|---|
| `_add` | `AddSideHeader`, `AddTipHeader`, `BeginReorg`, `FailReorg` |
| `_reorganize`, `_disconnectTo`, `rebuildUTXO` | `BeginReorg` ... `DisconnectBlock`, `MissingUndo`, `RebuildCoins`, `TruncateEntries`, `TruncateBlocks` |
| `_connectBlock` | `ConnectBlock` (tree), `MarkPending`, `StoreBlock`, `StoreMismatch`, `SaveView`, `CommitGenesis` |
| `flush` | `Flush` |
| `resetToStoredHeight` | `ResetEntries`, `ResetNames`, `ResetFails` |
| `repairTreeFromStoredBlocks` | `RepairTree`, `RepairGenesis`, `RepairBlock`, `RepairDone` |
| `FullNode.start` | `OpenStores`, `WipeCoins`, `WipeTree`, `LoadChain`, `Align*`, `StartReindex` ... `ReindexDone` |
| `rebuildNameState` | `StartRebuild` (from `committedHeight + 1`, whatever is pending), `RebuildNames`, `RebuildDone` |
| submitblock | `SubmitBlock` |

*Constants that select a scenario.* `FreshStart` says whether the data directory is
empty. `LegacyBlocks` is the literal 100 of `needsReindex` and `coinsBehind`.
`SubmitUnsynced` allows submitblock while blocks are missing below the tip. The two
passing runs differ in these, and in the number of crashes.

*Crash* is that of the process. What LevelDB or the files were given before it survives, so a
batch that is written without sync is as durable as any other.

*Abstractions.* The header checks (proof of work, timestamps, difficulty) are a guard:
only headers that pass them are in `Blocks`. A body is good, always bad (`Invalid`), or
bad unless the coins of its parent are there (`Spending`). A LevelDB batch and an append
of one record are atomic; torn records are cut at open by the stores themselves. The batches of
`CoinDatabase.reset` (`MissingUndo`) are one step. A block that is replayed twice is marked by itself: what it does
to the blocks between its two replays is not looked at.

### NameAuction

*State.* `names` is the name database (tree and pending map together), `coins` the
unspent outputs that carry a covenant, `replayed` the name database that
`replayCovenants` would have built from the same blocks, `reveals` a history variable.

*Steps.* One action per covenant type, with the guards of its `case` in
`processCovenants`. Each is one output and the input of the same index, which is all
that the code looks at for this output. `SpendPlain` is a covenant coin spent as any
other input. `NextBlock` moves the height. A covenant that fails changes nothing
(`Chain` models the restored pending map), so the actions are guards and effects.
`Put` writes the name state and, from the same covenant, its replay.

*Abstractions.* Signatures, payments, DNSSEC proofs, name syntax and the roll-out are
good. A BID coin holds the value its blind commits to. Renewal blocks are mature. A
resource is empty, records, or a delegation; the optional flags item is absent, off or
on. Burn and fees do not change the name state.

### Mempool and Wallet

*State.* `chain` is the list of connected blocks as sequences of transactions, all that the
mempool sees of `Chain`. `pool` has the fields of `Mempool` and its `ContractState`
(`tracked` is `opens`, `bids`, `reveals` and `updates` in one set). `todo` is the work of a
thread that has changed the chain, released its lock and not yet called back: blocks to
hand first to the mempool, then to the wallets. In `Wallet`, `coins` maps each outpoint to
the height field of its `WalletCoin`, which also encodes whether the coin is unconfirmed or spent by
the mempool, `undo` is the undo database and `scanned` the blocks indexed. `astray` is a history variable:
a start has found that not all of these are in the chain.

*Steps.* `Connect` and `Rewind` are the change of the chain under its lock, after which
other threads may come in between. `RemoveBlock`, `AddBlockTx` / `SkipBlockTx` are the mempool's
part of a notification (`addBlock` holds the lock of the mempool for the whole block:
`PoolFree`), `Delivered` is the wallets'. `Accept` and `Evict` come from peers, the RPC, the
miner and the expiry timer at any moment. `Restart` loses `pool` and `todo`; the wallet is
purged and, unless it has missed more than `CatchUpLimit` blocks (1000 in the code), indexes what it has
`Missed`, turn by turn. A set of evicted entries is described by what it must contain
(`Gone`: every entry that spends an output of one in it; `Victims`: lowest rates first until the
size is below the threshold, ties in any order), not by the loop that computes it.

| code | actions |
|---|---|
| `acceptTransaction` with `evictByFeeRate`, `countAncestors`, `addEntry` | `Accept`, `WalletAccept` (`onTransactionRemoved` of the victims, then `onTransactionAccepted`) |
| `evictEntry` / `evictExpired` | `Evict`, `WalletEvict` / `WalletExpire` (does not tell the wallet) |
| `connectBlock` and `onBlockConnected` | `Connect`, `RemoveBlock`, `Delivered` |
| `_disconnectTo` and `onBlockDisconnected` | `Rewind`, `AddBlockTx`, `SkipBlockTx`, `Delivered` |
| `purgeUnconfirmedState` and the catch-up of `start` | `WalletRestart` |

*Abstractions.* A name is open or not (`CovenantsFit`), which blocks without transactions of
interest let change between any two blocks; `NameAuction` has the rules. A fee rate is a
constant of a transaction: `descFee` is never updated. The orphan pool is left out, as only the
tests call `addOrphan`. A call of the wallet is atomic.

### ChainSync

*State.* `node` is one record: the fields of `ChainSync` under their names (`state`,
`syncPeerId`, `pendingBlocks`, `blockBuffer`, `nextBlockHeight`, `nextConnectHeight`,
`orphanRetries`, `pendingCompactBlock`, and `lastHeaderRequest` as a flag), what it sees of the
chain (`known` headers, `tip`, number of blocks `stored`), and what it sees of the peers (`up`: not
connected, handshaked, or closed but not yet reported; `height` as last heard; `asked`: requests that
are not answered; `banned`). `compacted` is a history variable: a compact block has replaced a
download. `peerTip` and `told` belong to the peers.

*Steps.* A handler holds the lock of ChainSync from beginning to end, so it is one action, written
as an operator from the record to the set of records it may leave behind (a set, since "the first
handshaked peer that is ahead" is the first of a dictionary). What interleaves are the handlers.
The three loops (headers of a message, with and without proofs, and blocks of the buffer) are recursive
functions of the number of turns, which the proofs can reason about.

| code | operators and actions |
|---|---|
| `onHeaders`, `finishHeaderSync`, `startSync`, `requestHeaders` | `OnHeaders` (`IndexHeaders` while blocks are downloaded; `ScanHeaders`, turn by turn `ScanHeader`, then one of `GoodHeaders`, `OrphanHeader`, `BadHeader`), in `AnswerHeaders`, `Announce`, `GossipTip` |
| `onBlock`, `requestBlocks` | `OnBlock`, `Drain` (turn by turn `ConnectDue`), `PendingConnected`, `RequestBlocks`, in `AnswerBlock` |
| `onCompactBlock`, `onBlockTxn`, `drainBlockBuffer` | `OnCompactBlock`, `OnBlockTxn`, `DrainBlockBuffer`, in `PushCompactBlock`, `AnswerTxn` |
| `onInv` | `OnInv`, in `Announce` |
| `onPeerHandshake`, `onPeerDisconnect` | the same, in `PeerHandshake`, `PeerDisconnect`, `LinkLost` |
| `checkBlockTimeout`, `checkHeaderTimeout`, `checkCompactBlockTimeout` | the same, in `BlocksOverdue`, `BlocksLate`, `HeadersOverdue`, `HeadersLate`, `CheckCompactBlockTimeout` |
| `handleGetHeaders`, `handleGetData`, `handleGetBlockTxn` of the peer | `HeadersFrom`, `AnswerBlock`, `AnswerTxn` |

*Abstractions.* Requests are answered in any order or not at all (`LinkLost`; a block that is not on
the peer's chain). A locator is the tip of the best chain, which determines what the peer sends as
long as the locator lists every block. Reconstruction of a compact block succeeds or not, by choice.
A timer fires when the answer cannot come any more or, as a fault, although it is on its way.
The gossip of a peer (every 30 s) comes when it has answered what it was asked (`GossipTip`): a peer that gossips
three times before each of its answers would make the node change its sync peer for ever, in `orphanRetries`, and
`DownloadEnds` fail.
A ban does not expire within a behaviour, so a run may end with every peer banned:
`CHECK_DEADLOCK FALSE`. Left out: logging and the ETA, `didRepairTree` and a reset that throws
(both are in `Chain`), `previousState`, and the node's own miner.

### Peers

*State.* The fields of `PeerManager` under their names; `cooling` is the set of addresses whose
`until` lies in the future. `dialing` counts the dials in progress, `refill` says where each task is
in `refillOutbound` and which address it is about to dial. `refused` is a history variable.

*Addresses.* The books of `PeerManager` are kept under strings of three kinds, which are different members of
`Addrs`. What is dialed is `host:port` as configured or learned, where the host may be a name: `Dial` puts it
into `dialedAddresses`, and into `failedAddresses` when the dial fails. A connection has the numeric address that
`parseIP` makes of it (`Resolved`): under it `PeerDidDisconnect` takes out of `dialedAddresses` and counts
failures. And `peerIsSelf`, the pool and the bans name the host at the default port of the network (`AtDefaultPort`).
`startOutboundConnections` resolves a name that DNS knows and keeps one that it does not (`Configure`).

*Steps.* Each section under the lock of `PeerManager` is a step. `NextNode`, `NextSeed` and
`ConnectFromPool` look at an address, `Dial` records it: in between other tasks run.

| code | actions |
|---|---|
| `startOutboundConnections` | `Configure`, in `Init` |
| `refillOutbound`, `connectNextSeed`, `resolveAndConnectSeeds`, `connectFromPool` | `RefillOutbound`, `NextNode`, `NodesDone`, `NextSeed`, `ResolveSeeds`, `ConnectFromPool` |
| `connectPlainOutbound` | `Dial`, then `DialConnects`, `DialRefused` or `DialFails` |
| `handleInboundConnection`, `registerPeer` | `AcceptInbound`, `Registered` |
| `peerDidHandshake`, `peerIsSelf`, `syncBanPeer` / `increasePeerBanScore` | `PeerDidHandshake`, `PeerIsSelf`, `BanPeer` |
| `handleDisconnect`, `peerDidDisconnect`, `checkInactivity` | `ConnectionEnds` with `PeerDidDisconnect` |
| `handleAddr`, `cleanupBans`, passing of time | `LearnAddress`, `CleanupFailures`, `BanEnds`, `CooldownEnds`, `DnsCooldownEnds` |

`handleDisconnect` marks the connection `.destroyed` before it calls `peerDidDisconnect`, so the
branches for handshaked peers there are never taken, and the model does not have them (see
`FailuresBeforeHandshake` in section 3).

*Abstractions.* Every other implementation listens on the default port, as this one tells its peers
(`localListenPort`), and no address is private. Time is seen through what it ends.
`seedAddresses` is read and written without the lock, which is a data race in the code; the model
takes each access as atomic. A dial over Brontide behaves as a plain one. Left out: `peers.dat`
(it is written once: `moveItem` fails when the file exists), the limit per subnet, manual
connections and shutdown. `MaxId` bounds `nextPeerId`; with bounded faults a run
may stop there, so `CHECK_DEADLOCK FALSE`.

### BlockServing

*State.* `blockServeQueue`, `isServingBlocks` and `blockServeTask` are the fields of `PeerContext`;
`tasks` says where each task is, what is left of its batch and whether it was cancelled; `conn` is open,
closed (`close` was called) or gone (`peerDidDisconnect` was called). `ledger` is the state of `Ledger`,
which `Chain` is proved to implement: the chain extends and rewinds between any two steps.
`answer` is a history variable: the last block sent and the one it was sent for.

*Steps.* The messages of one peer are handled one after the other (`processMessage` awaits each),
so a handler is one action as long as it holds one lock; the task runs beside them. Every section
under `blockServeLock` is a step, and every call of `Chain`, since each takes the lock of the chain by itself.

| code | actions |
|---|---|
| `handleGetData` | `HandleGetData` with `Spawn` |
| its task | `TakeBatch`, `CheckBlock` (hash at the height), `SendBlock` (load by height), `EndTask` (the `defer`) |
| `handleGetBlockTxn` | `HandleGetBlockTxn`, `SendBlockTxn` |
| `close`, `increasePeerBanScore`, `peerDidDisconnect` | `Close`, `HandleGetData`, `PeerDidDisconnect` |
| blocks connect and are reorganised in other tasks | `ChainChanges` |

*Abstractions.* A block and a compact block take the same path. The best chain goes on above the stored
blocks with any headers (`MayBeBest`), so a block that is not stored may pass the comparison and then not
load. Transactions of a getdata (no shared state) and `handleGetHeaders` are left out.

## 3. Runs

| run | configuration | shows |
|---|---|---|
| `chain_crash` | genesis on disk, two branches and an invalid heavy block, commit interval 2, two crashes | at rest, and in the named positions, headers, blocks, coins and snapshots agree, and names but for what a start has replayed twice since the last commit; blocks are dropped only for more work; the stored blocks behave as `Ledger`; every start ends |
| `chain_legacy` | empty data directory, the shipped threshold of 100 blocks, submitblock while blocks are missing, one crash | the stored blocks behave as `Ledger`, although coins and names may not follow |
| `name_auction` | one name, periods of one block, 12 blocks, 6 coins | price, ownership, transfer clock, replay |
| `name_subdomains` | a genesis name and one subdomain, 7 blocks | flags, delegation, parents |
| `name_revoke_spent` | as `name_auction` | **violation**: a REVOKE output is spent by a plain transaction |
| `wallet` | five transactions of which the wallet sees three, pool of two, chain of two blocks, one reorganisation, restarts at any moment | indexes of the mempool exact, nothing confirmed stays, the miner recovers; no coin of the chain is lost, undo data only of indexed blocks |
| `wallet_reorg` | as `wallet`, without chains of transactions in the pool | **violation**: an output that a block creates and spends is back after the block is disconnected |
| `sync` | two peers, one honest and one with a bad header, an unproved header or a bad body; messages of MaxHeaders, compact blocks, faults | a download has a peer and a timer and ends; window; bans for cause; the node is behind a peer only in the ways of the next two runs |
| `sync_stranded` | as `sync`, safety | **violation**: the node is idle with a peer connected and nothing under way |
| `sync_behind` | two honest peers, no fault, with fairness | **violation**: the node stays synced with headers above its blocks |
| `peers` | one configured node (a name of the seed, the node itself, or the node itself at another port), one DNS seed, one task, one fault | ids, no numeric address forgotten; the node gives up itself at the default port and finds a peer again and again |
| `block_serving` | two tasks, a block on each side of a fork, a queue of two, getdata of one or two blocks, banned at the second overflow | one task at most, the flag tells whether there is one, a disconnect cancels it, no request stays behind a running task |

The violations are what the code does and a comment of the code says otherwise; each is a
finding in `PROJECT.json` that quotes the comment.

The type invariants of `NameAuction`, `Peers` and `BlockServing` are proved (section 4) and not listed in a
run; those of `Chain`, `Mempool` with `Wallet`, and `ChainSync` are checked by `chain_crash`, `wallet` and `sync`.

**Known not to hold.** Three modules define further properties that the code does not keep, and two more
come close to one; each is found false by TLC with the constants named and is a hazard in `PROJECT.json`.

In `Chain`:

- `BestTip` (no crash): a branch that forks above the highest stored block, or at a boundary without
  a snapshot, is not reorganised to. `_reorganize` throws after `_add` has put the header into
  `byHash`, and the tip stays on less work (`Chain.swift:710`; 32 says the chain "tracks the best
  (most work) chain tip").
- `StartSucceeds` (one crash): a start that wipes the name tree with the coins and finds headers
  ahead of blocks rolls the empty tree back, finds no snapshot and throws (`FullNode.swift:266`). The
  next start succeeds, as the headers were cut before the exception.
- `CoinsMatchBlocks` with `LegacyBlocks = 100` and an empty directory (one crash): below 100 stored
  blocks a coin write that is lost is not repaired, although the sentinel says so
  (`ChainValidation.swift:430`).
- `NamesMatchBlocks` with `SubmitUnsynced`: `storeBlock` refuses a block whose parent is not stored
  after its covenants went into the pending map, where they stay (`RPCMiningHandlers.swift:126`).
- `NamesMatchBlocks` with the constants of `chain_crash`, one crash, also where `~TreeDetectable`: blocks are
  replayed twice. The node stops, killed or not, with headers ahead of blocks, as in the middle of a download. The next start resets to the stored height, and the
  reset replays the blocks above the last commit into the pending map (`FullNode.swift:266`, `Chain.swift:216-230`).
  `start` then calls `rebuildNameState` (582), which starts again at `committedHeight + 1`
  (`ChainValidation.swift:582`) over what is pending. A reveal seen twice makes the price the highest bid
  instead of the second highest, a renewal counts twice, and every height is right. Blocks
  are connected on these names until the next commit, after which the root check rejects the tree and the
  repair replays it from genesis. `HoldsNamesOf` says how far it goes: only names above the last commit boundary
  are concerned, and each of them is that of the block at its height, replayed once or twice.

In `Peers`, with the constants of `peers`:

- `DialedAccounted` for all of `dialedAddresses`: a configured name that DNS does not know when the node starts is kept and
  dialed as `name:port` (`AddressPool.swift` 146, 168, 223). When its connection ends, `PeerManager.swift` 635-638 takes
  out `ip:port`. The name stays in `dialedAddresses` and is never dialed again, and the failure is
  counted under the number.
- `SelfGivenUp` for all of `Selves`: `peerIsSelf` records `ip:defaultPort` (`PeerManager.swift:882`), and `refillOutbound`
  compares `node.host:node.port` with it (`AddressPool.swift:315-318`). A node that is configured at its own
  `--port` (`CLI.swift:64`) or its Brontide port (`FullNode.swift` 737-744) dials itself every time the connection
  has ended.
- `NeverAlone` without its premise on such connections: each of them counts as an outbound peer while it lasts, and with an
  outbound peer DNS is not asked (`AddressPool.swift:335`).

- `FailuresBeforeHandshake`: `handleDisconnect` sets the state to `.destroyed`
  (`PeerConnection.swift:628`) and then calls `peerDidDisconnect`, where `isHandshaked` is therefore
  false. `PeerManager.swift:679` says "Apply backoff to outbound peers that failed before handshake",
  but every outbound peer that disconnects counts as a failure; what 640 and 672 say of handshaked peers
  (their state is saved, they are queued for reconnection) never happens.

In `BlockServing`, with the constants of `block_serving`:

- `QueueIsServed` (under `FairSpec`): the task leaves its loop on an empty queue
  (`PeerManager.swift:970-975`) and clears `isServingBlocks` in a later section of the lock (960-964). A
  getdata in between finds the flag set (944-948), spawns no task, and stays in the queue until the peer
  sends another.
- `SentAsAsked` (under `Spec`): `handleGetData` compares the hash at the height of the block (987) and
  then loads by height (988), each under the lock of the chain by itself; `handleGetBlockTxn` does the
  same (1086, 1092). When the chain is reorganised in between, the block of the new branch is sent, in
  `handleGetBlockTxn` under the hash that was asked for. 983-986 say that only blocks of the best
  chain are served, as "loading by height for a fork entry would return the wrong block".

In `ChainSync`, `BannedForCause` without its disjunct `StaleDownload` (window 3, `MaxHeaders = 3`, one
fault, a tree with two branches of which both are extended in turn): the best chain is reorganised
while blocks of it are requested, which no handler notices (`onHeaders` only indexes headers in
this state, 223-233), and then back. The first one lowers the stored height to the fork and leaves
`nextConnectHeight` alone; after the second the requested blocks are on the best chain again, but the
one that is due has no stored parent. The peer, which sent what it was asked for, is banned for an "invalid
block" (`ChainSync.swift:469`). One reorganisation is harmless: a block of the other branch is not found
at its height and dropped, and the download times out. The trace has 18 steps.

In `Wallet`, `NothingLost` without `~astray` (one transaction that pays from one output of the wallet to
another, one thread, `MaxHeight = 2`, `MaxReorgs = 2`): the node stops when the chain is cut back and the
wallet has not heard of it. `start` compares the height of the wallet with that of the chain only
(`FullNode.swift:631`), so once a branch of the same height is stored the wallet goes on from blocks that are not in the
chain, and `indexBlock` only asks for the next height (`WalletIndexing.swift:23`). A later rewind then takes back a
block the wallet has never indexed: outputs of the old block stay, and what it spent does not come back.
`astray` marks the start that meets such a wallet; `NothingLost` says that there is no other way to lose a coin.

**Why the bounds are enough.** *Chain:* the tree has a branch of length four (two
commit intervals of two), a branch that leaves it between two boundaries and
overtakes it, and a block on genesis that has most work and is invalid; a second
reorganisation, back or over, is possible. Two crashes let one hit the recovery from the
other. `LegacyBlocks = 0` in `chain_crash` makes a short chain behave as one of more
than 100 blocks; `chain_legacy` keeps the shipped value. *Names:* with every period one
block long, 12 blocks hold two complete auctions and an expiry, or one and a full
transfer; 6 coins hold two bids that are revealed, a registration and a transfer, or
the start of a second auction. Two bid values make ties, raises and single reveals.
`RenewalWindow` is longer than an auction, as it is on every network of
`NameParams.swift`; `PeriodsAssumption` says so.

*Mempool and wallet:* a payment, its child that bids for a name, a transaction that conflicts with the
payment and opens the name, another that opens it, one that updates it and spends that one: every
pair of relations the pool distinguishes occurs (child, conflict, same name, unrelated). A pool of
two entries with a threshold of one makes eviction by rate happen, also of the parent of the
transaction that is being added; `MaxAncestors = 1` makes the limit reject. Blocks of two
transactions hold a parent and its child, two blocks a rewind of several with the callbacks from the
tip down.
`NoneConfirmed` and `NothingLost` are checked, and proved, for one thread that connects blocks (peers, RPC,
miner and timer still interleave). With two, TLC finds that both fail. Blocks {payment} and {child} are delivered
in the other order by different threads, and in between the child, whose parent is still in the
full pool, is accepted again and evicts this parent; the miner then evicts the child
(`MinerRepairs` holds for any number of threads, see section 4). A wallet refuses a block it hears of too early,
and may index one on top of a block that another thread has disconnected. The run `wallet` allows one
reorganisation; with two TLC finds the same properties true (2.5 million states, five and a half minutes).

*Block download:* the tree has two branches that leave each other above genesis, so a reorganisation
can come at every stage of a download; a peer with MaxHeaders headers in one message and more to come;
a window smaller than the branch, so it is refilled with blocks in flight. One fault (lost link, early
timer, pushed compact block) hits any step. *Peers:* a node with a number and a name,
and this node at its default port and at another one, which are the kinds of key that can differ; two outbound slots, a
failure count of two and a pool of one make every limit bind; two ids let a connection come while
another ends. The properties that are proved hold for any number of tasks; TLC checks one task in `peers`.

*Block serving:* a queue of two overflows, holds a batch of two and can be full with a stranded request; the
fork of two blocks of one height is what a load by height can confuse. What is proved holds for any number of each.

**Fairness.** `Chain` has weak fairness of `Progress` only: the thread that holds the
lock runs on, and the operator starts the node again after it stopped. Nothing is
assumed of peers, miners or RPC callers. `RecoveryTerminates` needs no more, as crashes
are bounded. `NameAuction` has no liveness property: nobody is obliged to bid. `Mempool` and
`Wallet` have none either.

`ChainSync`: a peer that stays connected answers or refuses what it was asked and gossips its tip every
30 seconds (`broadcastCurrentTip`), the header and block timers fire (`scheduleHeaderTimeout`,
`checkInactivity`), and a connection that is closed ends. Nothing is assumed of handshakes, of new
blocks, or of links that stay. `CatchesUp` and `StaysBehindOnlyAbandoned` speak of behaviours
in which connections come to rest (`Settled`) and of peers that stay; they exclude
(`Excused`) what `sync_stranded` shows, a branch for which `Chain.add` throws (`BestTip` above) and a
download that a compact block has replaced.

`Peers`: the refill timer runs, a task that is in `refillOutbound` runs on, a dial ends (connected if
the node is `Reliable`, but for a fault), cooldowns run out, the handshake with a reliable node or
with itself takes place, and `checkInactivity` closes what is stuck. `NeverAlone` assumes that from
some moment on no inbound peer takes a slot, since `refillOutbound` compares the peers of both
directions with `maxOutbound`, and that connections to itself under an address the node does not recognise have
come to an end (section 3).

`BlockServing`: a task that runs goes on and so does a handler; nothing obliges a peer to ask again, a
connection to end or the chain to change.

**Deadlock** is checked in every run but those of `ChainSync` and `Peers` (see there); `Restart` is always possible in `Mempool`. `Wait` (nothing arrives)
in `Chain` and `Halt` (the bound on the height) in `NameAuction` are the only steps that change
nothing.

## 4. Proofs

`ChainProofs` proves, for every block tree, work function, commit interval and number
of crashes that satisfy `BlocksAssumption` and `ParamsAssumption`:

- `Invariance`: `Spec => []IInv`, from which
- `TypeCorrect`, `BestChainIsPath`, `StoredChainIsPath`, `StoredBelowBest`: the
  invariants `TypeOK`, `BestIsPath`, `StoredIsPath`, `StoredOnBestChain`;
- `RewindNeedsWork`: the action property `RewindOnlyForMoreWork`;
- `Refinement`: `Spec => L!Spec`, the stored blocks implement `Ledger`.

*The argument.* `StoredIsPath` is not inductive. After a crash in the middle of a
reorganisation the header file is already cut to the fork and the block files are
not, or the header file has a gap, because `persistedHeight` was set to the fork of a
branch that was never flushed. What the next start builds from them is a path only
because (`OneBranch`) the records of the header file up to its first gap are one
branch, (`Agrees`) this branch does not contradict the stored blocks, and
`LoadChain` stops at the gap. `OnDisk` states this for a node that is down,
`InMemory` the relation of the index to the two files while it runs
(`Compatible(stored, byHeight)`: two chains of which one is a prefix of the other), and
`InOperation` what holds between two writes: the fork is below the stored height while
coins are rebuilt, the block reorganised to has more work than the tip, and so on.
`IInv` is their conjunction. The proof that a step preserves it has one lemma per
action or group of actions, and one step per conjunct.

*From which assumptions.* Only those of module `Chain`: the block tree is a tree of
paths from genesis, work grows along a path, the interval is positive.

`ChainStoresProofs` proves of the same module, for `LegacyBlocks = 0` and
`~SubmitUnsynced` and otherwise every value of the constants:

- `CoinsInvariance`: `Spec => []CoinsInv`, and from it `CoinsRecovered`: the invariant
  `CoinsMatchBlocks`;
- `NamesInvariance`: `Spec => []NamesInv`, and from it `NamesRecovered`, `ConnectsOnRightNames`,
  `SnapshotsCoverStored`: the invariants `NamesMatchOrDetectable`, `ConnectedOnRightNames`,
  `SnapshotsCover`.

*The argument for the coins.* The property speaks of a node at rest, so the invariant says what a
killed process can leave and what a start makes of it. `CoinsOfStored`: between any two writes the coins are those of
a lower part of the stored blocks, with the undo data of each. `CoinsInOperation`: how high that part
reaches at each position. A connect is one block behind from the append to the save, a reorganisation
goes down block by block and therefore never lacks undo data (the path that rebuilds the coins because
undo data is missing is not reachable), and the blocks are cut to the height the coins have arrived at. Every
start that finds the coins lower than the blocks wipes and reindexes them. `SentinelClear`: the
sentinel of a write that was not finished is gone before the next block is connected.

*The argument for the names.* `SnapshotsOf`: the snapshots are those of every commit boundary up to
the tree, without a gap, and each is the part of the tree up to its height. The tree has the stored blocks in
order, each applied once or twice (`NamedAs`); only the last one may be one
block ahead (the covenants are committed before the block is appended), and all of them may have been
replayed from the genesis names. A tree in which a block counts twice, of a lost block or from replayed genesis names
is what `TreeDetectable` names. `PendingOf`: the pending map continues
the tree with the stored blocks right above it, each once or twice, and reaches no boundary. `NamesInOperation` says
how far the names reach at each position (`Extent`, the blocks that tree and pending map hold): the rebuild of a start
(`pc = "rebuild"`) is either at the next block, as a repair always is, or at one of the pending map, which then
holds all stored blocks; `ReplayTwiceCarries` is this case. `NamesOfBlock`: a block whose covenants were
applied was connected on a tree that is, up to the commit boundary below the block, the chain of the block,
every block counted once. This is what `RootMatches` gives, and `ConnectedOnRightNames` follows.
`CoinsAtStart` ties the two together, since a start decides from
the coins whether the names are replayed or wiped. The lemmas `CommitCarries`, `ApplyCarries`, `ReplayTwiceCarries`,
`EmptyCarries` and `RollBackCarries` are about an arbitrary chain `s`, so that each serves connect,
replay, reindex and repair.

*Why the two assumptions.* They exclude two ways in which the code loses the properties (section 3,
"Known not to hold"): below 100 stored blocks a lost coin write is not repaired, and `submitblock`
while blocks are missing leaves covenants in the pending map. For the coins the theorems show that there is no third
one; for the names the third one, a double replay, is part of what they state. That one bound is 0 does not make chains short: with it a chain of any length is treated as the code treats one
of more than 100 blocks.

*Only model-checked of `Chain`.* `RecoveryTerminates`, which is liveness under fairness and out of the
prover's reach, as are ENABLED, induction over data and RECURSIVE operators (there are none).

`NameAuctionProofs` proves, for all names, genesis names, periods, values and numbers of
covenants that satisfy `NamesAssumption` and `PeriodsAssumption`:

- `Invariance`: `Spec => []IInv`, from which
- `TypeCorrect`, `AuctionIsSecondPrice`, `OwnerIsUnique`, `TransferIsTimed`,
  `ReplayIsFaithful`, `SubdomainRules`, `SubdomainParents`: the invariants `TypeOK`, `SecondPrice`, `OneOwner`,
  `TransferClock`, `ReplayAgrees`, `NoDelegation` and `SubdomainsHaveParents`;
- `FlagPermanent`: the action property `FlagIsPermanent`.

*The argument.* Two properties are not inductive. `OneOwner` compares the outputs of a name
with its current auction, so it needs that the outputs of earlier auctions carry a smaller
height: `CoinsInOrder`, which an OPEN of an expired name keeps because (`HeightsInOrder`) a
name cannot expire in the block that opened it - the renewal window is longer than all the
periods of an auction, which is the only arithmetic fact about the periods that is used.
`SecondPrice` needs that a second OPEN in the block of the first finds no reveals to forget:
`AuctionFirst` says that a name has an owner only when its reveal period has begun.
`OwnerMade` keeps a fresh outpoint apart from all owners, and `OwnerType` says which covenant
the owner's output carries. REGISTER, UPDATE, RENEW, TRANSFER, FINALIZE and REVOKE are first
shown to be instances of one step, `OwnerStep`, and what `OwnerStep` preserves is proved once;
OPEN, BID, REVEAL, the spending of an output and a new block have a lemma each. The lemma
`OneMoreReveal` is the second-price auction itself: the update of a reveal carries the outcome
for the values seen so far to the outcome with one value more.

`RevokedUnspendable` (which the code violates) and the bounds of the runs are the only things
about `NameAuction` that are not proved.

`WalletProofs` proves, for all transactions, fee rates, sizes, limits, threads, bounds and outputs of the wallet
that satisfy `TxsAssumption`, `LimitsAssumption` and `WalletAssumption`:

- `TypeCorrect`, `SpentsCorrect`, `NamesCorrect`, `MinerRepairsCorrect`: the invariants `TypeOK`, `SpentsExact`,
  `NamesExact` and `MinerRepairs` of `Mempool`;
- `WalletListens`: every behaviour of `WalletSpec` is one of `Mempool`, so these hold of what the run
  `wallet` checks (`SpentsWithWallet` and so on);
- `WalletTypeCorrect`: the invariant `WalletTypeOK`;
- for one caller of the chain (`Threads = {th}`), `NoneConfirmedCorrect`, `NoneConfirmedWithWallet` and
  `NothingLostCorrect`: the invariants `NoneConfirmed` and `NothingLost`.

*The mempool.* `PoolStep`: whatever happens, a step removes the entries of some `Gone(V)` from
the pool, may then add one that is `Acceptable`, or empties the pool. Removal and addition each
have a lemma per index, of an arbitrary pool. That a name is released exactly when it is free
(`WithoutNames`) needs that one entry at a time operates on a name: `untrack` releases it
when the last entry of *one kind* of covenant is gone, which would be wrong if an entry of the
other kind could be left. `MinerRepairs` follows from `SpentsExact` without induction: an entry
whose parent is evicted is its spender, so it is in `Gone` as well (`GoneClosed`).

*Confirmed entries.* `NoneConfirmed` speaks of a moment when nothing is left to deliver. What holds always
(`OneThread`) is that an entry which is in the chain is in the block the mempool has not heard of yet.
The hard step is `acceptTransaction`, which does not look for the transaction itself in the chain: as its
inputs are spent there, a parent has to be an entry; this parent is in the chain, below or in the same block
(`ChainOK`), so it is in the block not heard of, which is the highest (`LastConnected`), and so is the
transaction (`AcceptedAwaited`). Both facts about blocks fail with a second caller.

*The wallet.* `NothingLost` is not inductive: a wallet that gives a block back needs the coins it has spent, and
a block that comes has to be the next one of the chain. `Good` adds the undo data of every indexed block
(`UndoOK`: what the block spent, as it was below the block) and the order of blocks; `IndexGood` and
`UnindexGood` show that both calls keep it. A coin spent and created in one block leaves undo data of its own, which brings it back
(the run `wallet_reorg`), but overwrites no coin that was unspent below. `Following` ties the wallet to
the chain: its blocks are those of the chain and, above, those of the disconnect notifications under way
(`BlockAt`), whose heights count down to the chain (`Announced`). Marks are an involution that never meets -1
and -2^31 (`MarkFacts`), for which heights have to stay below 2^31 - 2: every eviction unmarks and every acceptance
marks a coin, in any order. `evictByFeeRate` and the catch-up of a start are loops, see the end of this section;
`EvictedStays` and `CatchUpStays` are their invariants.

`ConfirmedExact` (which the code violates) is the only property of these modules that is not proved.

`PeersProofs` proves, for all addresses, limits, tasks and faults that satisfy `PeersAssumption`:

- `Inductive`: `Spec => []IInv`, from which
- `Typed`, `FreshIds`, `NoAddressIsForgotten`: the invariants `TypeOK`, `IdsFresh`, `DialedAccounted`.

*The argument.* `DialedAccounted` is inductive only with `IdsFresh`: registration must not replace a
peer, or the address of the one replaced would stay in `dialedAddresses` for ever. It also needs
`AddressesResolved`: the address of a connection is one that the dialed string resolves to, so a numeric address that is
dialed is taken out under itself. `IdsFresh` in turn
survives the reset of the counter because the reset comes when no peer is left. That two tasks may dial the same
address needs no assumption: the end of the first connection takes the address out although the second
is there, which the invariant allows.

`BlockServingProofs` proves, for any block tree, number of tasks, and bounds of the queue, of a getdata and of the ban
score that satisfy `ServingAssumption`:

- `Invariance`: `Spec => []IInv`, from which
- `TypeCorrect`, `AtMostOneServer`, `FlagTellsTask`, `DisconnectStops`: the invariants `TypeOK`,
  `OneServer`, `FlagIsTask`, `StoppedOnDisconnect`.

*The argument.* `OneServer` needs `FlagIsTask`: a task is spawned when the flag is clear, which excludes
another one only if the flag is set as long as there is a task, the time after its last look at the queue
included. That the flag is cleared so late is also why a request can be stranded: cleared in the section of the last look,
it would keep both. `StoppedOnDisconnect` needs `HandleIsTask`: the handle that a
disconnect cancels is that of the task that runs, since it is only overwritten when there is none.
`ServedOrStranded` is liveness.

`NeverAlone` and `SelfGivenUp` of `Peers` are liveness.

`ChainSyncProofs` proves, for every block tree, work function, set of bad headers and blocks, set of peers and
of their chains, message size, window and number of faults that satisfy `TreeAssumption` and
`PeersAssumption`:

- `Invariance`: `Spec => []IInv`, from which
- `TypeCorrect`, `DownloadsHaveAPeer`, `NoSilentStall`, `WindowIsBounded`: the invariants `TypeOK`,
  `DownloadHasPeer`, `StallsAreNoticed`, `WindowBounded`;
- `BansHaveACause`: the action property `BannedForCause`.

*The argument.* A handler changes the chain, the download and the peers in turn, so the invariant is a
conjunction of one part for each (`NodeInv`) and of what ties the node to its peers. `ChainInv`: the known
headers contain their parents, and no known header is above the tip (`Chain.add` makes a header that follows the
tip the tip). That is what makes `Path[tip]` an index that every height up to the tip has, keeps
`stored` below it when a reorganisation lowers both, and lets `resetToStoredHeight` forget headers.
`SyncPeerInv` is `DownloadHasPeer` for any record a handler may leave. `HeaderTimer`: a node that waits for
headers has asked for them.
`QueueInv` is the core of the download: the blocks that are requested or buffered have each
height from `nextConnectHeight` to `nextBlockHeight - 1` exactly once, and stored blocks lie below
them (`InOrder`). `StallsAreNoticed` follows: if nothing were requested, what is
buffered would be due, and `Drain` leaves nothing due; and `WindowBounded`, as a window that is
refilled counts both. `InOrder` speaks of heights and not of the best chain, since a reorganisation may
replace every block below the requested ones.

`BannedForCause` needs what a node knows of a peer it bans. For a header: the peer has shown it, so it is on a
chain of the peer now or earlier (`HasBad`), or `Chain.add` throws, and as the tip is a leaf of the known
headers this takes a branch that forks strictly below the tip and above the stored blocks
(`ThrowsForBranch`, `NeedsUnstored`). For a block: `BufferShown` says that buffered blocks
were on the chain of the sync peer, and `FailureCause` that the first block which cannot be connected has a bad body, or
the best chain has changed below it (`StaleDownload`).

*The loops.* The prover cannot instantiate an induction theorem whose parameter is an operator. The three
loops are recursive functions on `0..n`, and what holds after each turn is shown with `SetInduction`, whose
parameter is the *set* of the turns after which it holds. It is proved in `Loops` from the well-foundedness of
the naturals, as is that such a function exists (`IterationExists`). `ScanStays`, `IndexStays` and
`DrainStays` are the invariants of the three loops.

Only model-checked of `ChainSync`: `DownloadEnds` and `StaysBehindOnlyAbandoned`, which are liveness.

## 5. Plan

1. `Chain`, `Ledger`, `ChainProofs`, `ChainStoresProofs` - done.
2. `NameAuction`, `NameAuctionProofs` - done; composition with `Chain` (renewal blocks on the
   best chain, rollback and replay of a real name state) is open.
3. `Mempool`, `Wallet`, `WalletProofs` - done; rescans, name records and a split of
   `indexTransaction`, which reads and writes coins without the lock of `indexBlock`, are open.
4. `ChainSync`, `ChainSyncProofs` - done; composition with `Chain` (a reset that throws, the repair of the tree) is open.
5. `Peers`, `PeersProofs`, `BlockServing`, `BlockServingProofs` - done; `handleGetHeaders`, which reads
   the header and its proof in two calls of `Chain`, is open.
6. `Brontide` - handshake and key rotation.
7. Pure operators with reference definitions: subsidy, BIP9 states, Merkle tree, Urkel tree
   on short keys, address and amount arithmetic at its width.

## 6. Not modelled

Byte formats, sockets, JSON and DNS messages (no state); script and cryptography
(arithmetic that TLC cannot enumerate); LevelDB and the vendored C and C++ libraries (third-party code
outside the component boundary: a batch is atomic); the optional transaction and address indexes
(no decision reads them); the auction index (derived from connected blocks, for queries); the
encrypted transport (planned); command line tools. Everything that is modelled is Swift.
