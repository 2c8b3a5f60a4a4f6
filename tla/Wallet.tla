--------------------------------- MODULE Wallet --------------------------------
(***************************************************************************)
(* The coins of a wallet (WalletIndexing.swift) next to the mempool and    *)
(* the chain that tell it of transactions and blocks (FullNode.swift).     *)
(*                                                                         *)
(* A coin is known by its height: that of its block, -1 while its          *)
(* transaction is in the mempool only, and below -1 while a transaction of *)
(* the mempool spends it.  Values, addresses and the history are left out. *)
(*                                                                         *)
(* Every action is one of Mempool together with the calls of the wallet    *)
(* that it makes.                                                          *)
(***************************************************************************)
EXTENDS Mempool, SequencesExt

CONSTANTS
    Mine,           \* outputs that pay to an address of the wallet
    CatchUpLimit    \* blocks that a start indexes; a wallet that missed more waits for a rescan

\* The effects of two evictions in a row are taken together, see Unindexed.
ASSUME WalletAssumption ==
    /\ Mine \subseteq Outpoints /\ CatchUpLimit \in Nat
    /\ MaxHeight < 2147483646                          \* a height and its mark are Int32
    /\ \A t, u \in Txs : Rate[t] = Rate[u] => t = u
    /\ \A t \in Txs : Cardinality({o[1] : o \in Inputs[t]} \ {Genesis}) <= 1

VARIABLES
    coins,      \* coinsDB: height of each coin
    undo,       \* undoDB: at each height, the coins its block spent
    scanned,    \* history: the blocks indexed; scanHeight is their number
    astray      \* history: a start has found that not all of them are in the chain

walletVars == <<coins, undo, scanned, astray>>
allVars == <<vars, walletVars>>

Int32Min == -2147483647 - 1
IsMarked(h) == h <= -2

\* Spent by a transaction of the mempool.
Mark(h) == IF h = -1 THEN Int32Min ELSE -2 - h

Unmark(h) == IF h = Int32Min THEN -1 ELSE -2 - h

-----------------------------------------------------------------------------
(* WalletDB *)

\* indexTransaction
Indexed(cs, t) ==
    LET new == (OutputsOf({t}) \cap Mine) \ DOMAIN cs
    IN  [o \in DOMAIN cs \cup new |->
            IF o \in new THEN -1
            ELSE IF o \in Inputs[t] THEN Mark(cs[o]) ELSE cs[o]]

\* unindexTransaction of the entries of R, parents before children: when the
\* parent is unindexed, an output that a child spends is marked, and stays.
Unindexed(cs, R) ==
    [o \in {o \in DOMAIN cs : ~(o[1] \in R /\ cs[o] = -1)} |->
        IF o \in InputsOf(R) /\ IsMarked(cs[o]) THEN Unmark(cs[o]) ELSE cs[o]]

\* The i entries of V with the lowest rates.
LowestOf(V, i) == {t \in V : Cardinality({u \in V : Rate[u] < Rate[t]}) < i}

\* evictByFeeRate evicts one entry after the other, the lowest rate first.
Evicted(V) ==
    LET gone(i) == Gone(LowestOf(V, i))
        after[i \in 0..Cardinality(V)] ==
            IF i = 0 THEN coins ELSE Unindexed(after[i - 1], gone(i) \ gone(i - 1))
    IN  after[Cardinality(V)]

\* Coins of the block that exist already keep their old height in the undo data.
SpentBy(w, b) == InputsOf(BlockTxs(b)) \cap (DOMAIN w.coins \cup (OutputsOf(BlockTxs(b)) \cap Mine))

\* indexBlock; a block that is not the next one is refused.
IndexBlock(w, b, h) ==
    LET created == OutputsOf(BlockTxs(b)) \cap Mine
        spent == SpentBy(w, b)
        before == [o \in spent |-> IF o \in DOMAIN w.coins THEN w.coins[o] ELSE h]
    IN  IF h # Len(w.scanned) + 1 THEN w
        ELSE [coins |-> [o \in (DOMAIN w.coins \cup created) \ spent |->
                           IF o \in created THEN h ELSE w.coins[o]],
              undo |-> IF spent = {} THEN w.undo
                       ELSE [k \in DOMAIN w.undo \cup {h} |->
                               IF k = h THEN before ELSE w.undo[k]],
              scanned |-> Append(w.scanned, b)]

\* The undo data stays.
FaultyUnindexBlock(w, b, h) ==
    LET back == IF h \in DOMAIN w.undo THEN w.undo[h] ELSE [o \in {} |-> h]
        kept == DOMAIN w.coins \ (OutputsOf(BlockTxs(b)) \cap Mine)
    IN  IF h # Len(w.scanned) THEN w
        ELSE [coins |-> [o \in kept \cup DOMAIN back |->
                           IF o \in DOMAIN back THEN back[o] ELSE w.coins[o]],
              undo |-> w.undo,
              scanned |-> Front(w.scanned)]

\* unindexBlock: outputs are deleted first, then the spent coins come back.
UnindexBlock(w, b, h) ==
    LET back == IF h \in DOMAIN w.undo THEN w.undo[h] ELSE [o \in {} |-> h]
        kept == DOMAIN w.coins \ (OutputsOf(BlockTxs(b)) \cap Mine)
    IN  IF h # Len(w.scanned) THEN w
        ELSE [coins |-> [o \in kept \cup DOMAIN back |->
                           IF o \in DOMAIN back THEN back[o] ELSE w.coins[o]],
              undo |-> [k \in DOMAIN w.undo \ {h} |-> w.undo[k]],
              scanned |-> Front(w.scanned)]

\* A marked coin is taken for an unconfirmed one.
FaultyPurged(cs) == [o \in {o \in DOMAIN cs : cs[o] >= 0} |-> cs[o]]

\* purgeUnconfirmedState
Purged(cs) ==
    [o \in {o \in DOMAIN cs : cs[o] # -1 /\ cs[o] # Int32Min} |->
        IF IsMarked(cs[o]) THEN Unmark(cs[o]) ELSE cs[o]]

\* The wallet is w in the next state.
WalletBecomes(w) == coins' = w.coins /\ undo' = w.undo /\ scanned' = w.scanned

-----------------------------------------------------------------------------
(* The actions of Mempool and of the chain with the calls of the wallet *)

WalletNow == [coins |-> coins, undo |-> undo, scanned |-> scanned]

WalletInit ==
    /\ Init
    /\ coins = [o \in OutputsOf({Genesis}) \cap Mine |-> 0]
    /\ undo = [h \in {} |-> coins] /\ scanned = << >> /\ astray = FALSE

\* onTransactionRemoved for each entry evicted, then onTransactionAccepted.
WalletAccept(t, V) ==
    /\ Accept(t, V)
    /\ coins' = Indexed(Evicted(V), t) /\ UNCHANGED <<undo, scanned, astray>>

WalletEvict(t) ==
    /\ Evict(t)
    /\ coins' = Unindexed(coins, Gone({t})) /\ UNCHANGED <<undo, scanned, astray>>

\* evictExpired calls removeEntry, which does not notify.
WalletExpire(t) == Evict(t) /\ UNCHANGED walletVars

\* The wallet is told of the entries removed that are not in the block.
WalletRemoveBlock(th) ==
    LET ts == BlockTxs(Head(todo[th]).block)
    IN  /\ RemoveBlock(th)
        /\ coins' = Unindexed(coins, Gone(ts \cap pool.map) \ ts)
        /\ UNCHANGED <<undo, scanned, astray>>

WalletAddBlockTx(th, V) ==
    LET note == Head(todo[th])
    IN  /\ AddBlockTx(th, V)
        /\ coins' = Indexed(Evicted(V), note.block[note.next])
        /\ UNCHANGED <<undo, scanned, astray>>

\* onBlockConnected, onBlockDisconnected: after the mempool, the wallets.
WalletDelivered(th) ==
    LET note == Head(todo[th])
    IN  /\ Delivered(th)
        /\ WalletBecomes(IF note.op = "connect"
                         THEN IndexBlock(WalletNow, note.block, note.height)
                         ELSE UnindexBlock(WalletNow, note.block, note.height))
        /\ UNCHANGED astray

\* The catch-up compares heights, not blocks.
Missed ==
    LET behind == Len(chain) - Len(scanned)
    IN  IF behind \in 1..CatchUpLimit THEN behind ELSE 0

\* The wallet on disk is cleaned, and given the blocks it has missed.
WalletRestart ==
    LET k == Len(scanned)
        w[i \in 0..Missed] ==
            IF i = 0 THEN [WalletNow EXCEPT !.coins = Purged(coins)]
            ELSE IndexBlock(w[i - 1], chain[k + i], k + i)
    IN  /\ Restart
        /\ WalletBecomes(w[Missed])
        /\ astray' = (astray \/ ~IsPrefix(scanned, chain))

WalletNext ==
    \/ \E t \in Txs : \/ \E V \in SUBSET pool.map : WalletAccept(t, V)
                      \/ WalletEvict(t)
                      \/ WalletExpire(t)
    \/ \E th \in Threads :
        \/ WalletRemoveBlock(th)
        \/ \E V \in SUBSET pool.map : WalletAddBlockTx(th, V)
        \/ WalletDelivered(th)
        \/ SkipBlockTx(th) /\ UNCHANGED walletVars
        \/ \E b \in Blocks : Connect(th, b) /\ UNCHANGED walletVars
        \/ \E h \in 0..(Len(chain) - 1) : Rewind(th, h) /\ UNCHANGED walletVars
    \/ WalletRestart

WalletSpec == WalletInit /\ [][WalletNext]_allVars

-----------------------------------------------------------------------------
(* Properties *)

TxsOf(c) == UNION {BlockTxs(c[h]) : h \in DOMAIN c}
Unspent(c) == OutputsOf(TxsOf(c) \cup {Genesis}) \ InputsOf(TxsOf(c))
HeightIn(c, o) == IF o[1] = Genesis THEN 0 ELSE CHOOSE h \in DOMAIN c : o[1] \in BlockTxs(c[h])

WalletTypeOK ==
    /\ TypeOK
    /\ DOMAIN coins \subseteq Mine /\ \A o \in DOMAIN coins : coins[o] \in Int
    /\ DOMAIN undo \subseteq 1..Len(scanned)
    /\ scanned \in Seq(Seq(Txs)) /\ astray \in BOOLEAN

\* Whatever the mempool accepts, evicts and forgets, and the chain connects and
\* disconnects, a wallet has every output of its own that is unspent in the blocks it
\* has indexed, at its height, free or spent by the mempool - unless a start has found
\* it on a branch that was disconnected while it was down.
NothingLost ==
    ~astray =>
        \A o \in Mine \cap Unspent(scanned) :
            o \in DOMAIN coins /\ coins[o] \in {HeightIn(scanned, o), Mark(HeightIn(scanned, o))}

\* getDetailedBalance counts the coin as confirmed.
CountsAsConfirmed(h) == h >= 0 \/ (IsMarked(h) /\ h # Int32Min)

\* "Removes outputs that were added by this block and restores any wallet coins that
\* were spent by this block": the confirmed coins of a wallet that has indexed the
\* blocks of the chain are the unspent outputs of the chain that are its own.
ConfirmedExact ==
    scanned = chain =>
        {o \in DOMAIN coins : CountsAsConfirmed(coins[o])} = Mine \cap Coins
=============================================================================
