-------------------------------- MODULE Mempool --------------------------------
(***************************************************************************)
(* The mempool (Mempool.swift, ContractState.swift) of a node whose chain  *)
(* connects and disconnects blocks: what it accepts, evicts and removes,   *)
(* and the notifications of the chain that it handles.                     *)
(*                                                                         *)
(* A chain operation is done under the lock of the chain; its caller, one  *)
(* of the Threads, then notifies the mempool and the wallets without that  *)
(* lock, so that other operations come in between.  Blocks without a       *)
(* transaction of interest are left out, which lets the periods of an      *)
(* auction pass: a name is open or it is not.  Signatures, fees, weights,  *)
(* sigops and coinbase maturity are good.  The orphan pool is left out,    *)
(* nothing outside the tests adds to it.                                   *)
(*                                                                         *)
(* Definitions whose name starts with Faulty are not part of the model:    *)
(* each is the definition after it with a plausible bug, to see that the   *)
(* properties notice.                                                      *)
(***************************************************************************)
EXTENDS Integers, Sequences, FiniteSets, FiniteSetsExt

CONSTANTS
    Txs,
    Genesis,            \* the transaction of the genesis block
    Outs,               \* Outs[t] is the number of outputs of t
    Inputs,             \* Inputs[t] is the set of outputs <<u, i>> that t spends
    Covs,               \* Covs[t] is the set of covenants <<type, name>> of t
    Rate, Size,         \* fee rate, size in memory
    MaxSize, EvictionThreshold, MaxAncestors,
    Threads,            \* callers of the chain: ChainSync, miner, RPC
    MaxHeight,          \* bound on the height
    MaxBlockTxs,        \* bound on the transactions of a block
    MaxReorgs           \* bound on the number of reorganisations

Outpoints == UNION {{<<t, i>> : i \in 1..Outs[t]} : t \in Txs \cup {Genesis}}

\* "update" stands for every covenant of an owner.
UniqueTypes == {"open", "update"}
CovTypes == UniqueTypes \cup {"bid", "reveal"}
Names == {c[2] : c \in UNION {Covs[t] : t \in Txs}}

ASSUME TxsAssumption ==
    /\ Genesis \notin Txs
    /\ Outs \in [Txs \cup {Genesis} -> Nat]
    /\ Inputs \in [Txs -> (SUBSET Outpoints) \ {{}}]
    /\ DOMAIN Covs = Txs /\ \A t \in Txs : \A c \in Covs[t] : c = <<c[1], c[2]>> /\ c[1] \in CovTypes

ASSUME LimitsAssumption ==
    /\ Rate \in [Txs -> Nat] /\ Size \in [Txs -> Nat \ {0}]
    /\ MaxSize \in Nat /\ EvictionThreshold \in 0..MaxSize
    /\ \A t \in Txs : Size[t] <= MaxSize - EvictionThreshold    \* maxTxWeight
    /\ MaxAncestors \in Nat /\ MaxHeight \in Nat /\ MaxBlockTxs \in Nat
    /\ MaxReorgs \in Nat

VARIABLES
    chain,      \* blocks above genesis, each the sequence of its transactions
    pool,       \* the fields of Mempool and of its ContractState
    todo,       \* notifications a thread has to deliver
    reorgs

vars == <<chain, pool, todo, reorgs>>

-----------------------------------------------------------------------------
(* The chain *)

BlockTxs(b) == {b[i] : i \in DOMAIN b}
Confirmed == UNION {BlockTxs(chain[h]) : h \in DOMAIN chain}

OutputsOf(ts) == UNION {{<<t, i>> : i \in 1..Outs[t]} : t \in ts}
InputsOf(ts) == UNION {Inputs[t] : t \in ts}

\* CoinDatabase: the unspent outputs of the chain.
Coins == OutputsOf(Confirmed \cup {Genesis}) \ InputsOf(Confirmed)

\* Names that an OPEN of the chain created.
Opened == {n \in Names : \E t \in Confirmed : <<"open", n>> \in Covs[t]}

\* trialValidateCovenants: the covenants of t fit the name state of the chain.
CovenantsFit(t) == \A c \in Covs[t] : (c[1] = "open") <=> (c[2] \notin Opened)

\* The next block may be b.
Connectable(b) ==
    /\ BlockTxs(b) \cap Confirmed = {}
    /\ \A i \in DOMAIN b :
        /\ \A j \in 1..(i - 1) : b[j] # b[i] /\ Inputs[b[j]] \cap Inputs[b[i]] = {}
        /\ Inputs[b[i]] \subseteq Coins \cup OutputsOf({b[j] : j \in 1..(i - 1)})
        /\ CovenantsFit(b[i])

Blocks == UNION {[1..n -> Txs] : n \in 0..MaxBlockTxs}

-----------------------------------------------------------------------------
(* Entries of the pool *)

EmptyPool == [map |-> {}, spents |-> [o \in {} |-> Genesis], tracked |-> {}, unique |-> {}]

\* Covenants <<type, name, transaction>> of a set of transactions: opens, bids,
\* reveals and updates of ContractState.
Covenants(ts) == UNION {{<<c[1], c[2], t>> : c \in Covs[t]} : t \in ts}

UniqueNames(cs) == {c[2] : c \in {d \in cs : d[1] \in UniqueTypes}}

\* addEntry
Added(p, t) ==
    [map |-> p.map \cup {t},
     spents |-> [o \in DOMAIN p.spents \cup Inputs[t] |->
                    IF o \in Inputs[t] THEN t ELSE p.spents[o]],
     tracked |-> p.tracked \cup Covenants({t}),
     unique |-> p.unique \cup UniqueNames(Covenants({t}))]

\* A set of entries that also holds every entry that spends an output of one.
HoldsSpenders(S) == \A o \in DOMAIN pool.spents : o[1] \in S => pool.spents[o] \in S

\* Only the entries of V leave.
FaultyGone(V) == V \cap pool.map

\* The entries that removeEntry removes with those of V: their descendants.
Gone(V) == {t \in pool.map : \A S \in SUBSET pool.map : V \subseteq S /\ HoldsSpenders(S) => t \in S}

\* Only the entries of R leave the contract state, whatever else is known of their names.
FaultyWithout(p, R) ==
    [map |-> p.map \ R,
     spents |-> [o \in DOMAIN p.spents \ InputsOf(R) |-> p.spents[o]],
     tracked |-> p.tracked \ Covenants(R),
     unique |-> p.unique]

\* What is left without the entries of R.
Without(p, R) ==
    LET left == p.tracked \ Covenants(R)
    IN  [map |-> p.map \ R,
         spents |-> [o \in DOMAIN p.spents \ InputsOf(R) |-> p.spents[o]],
         tracked |-> left,
         unique |-> p.unique \ {n \in UniqueNames(Covenants(R)) :
                                  \E k \in UniqueTypes : /\ \E t \in R : <<k, n>> \in Covs[t]
                                                         /\ \A t \in Txs : <<k, n, t>> \notin left}]

SizeOf(ts) == MapThenSumSet(LAMBDA t : Size[t], ts)

\* What evictByFeeRate may choose, entries of the same rate in any order: the
\* entries with the lowest rates, until the size is down to the threshold.
Victims ==
    LET Lowest(V) == \A v \in V, u \in pool.map \ V : Rate[v] <= Rate[u]
        Enough(V) == SizeOf(pool.map \ Gone(V)) <= EvictionThreshold
    IN  {V \in SUBSET pool.map :
            /\ Lowest(V) /\ (Enough(V) \/ V = pool.map)
            /\ V # {} => \E v \in V : Lowest(V \ {v}) /\ ~Enough(V \ {v})}

\* countAncestors
IsAncestry(S, t) ==
    \A u \in S \cup {t} : \A o \in Inputs[u] : o[1] \in pool.map => o[1] \in S
Ancestors(t) == {u \in pool.map : \A S \in SUBSET pool.map : IsAncestry(S, t) => u \in S}

-----------------------------------------------------------------------------
(* acceptTransaction *)

\* A spent output is looked for in the chain only.
FaultyAcceptable(t) ==
    /\ t \notin pool.map
    /\ UniqueNames(Covenants({t})) \cap pool.unique = {}
    /\ \A o \in Inputs[t] : o[1] \in pool.map \/ o \in Coins
    /\ CovenantsFit(t)
    /\ Cardinality(Ancestors(t)) <= MaxAncestors

Acceptable(t) ==
    /\ t \notin pool.map
    /\ Inputs[t] \cap DOMAIN pool.spents = {}
    /\ UniqueNames(Covenants({t})) \cap pool.unique = {}
    /\ \A o \in Inputs[t] : o[1] \in pool.map \/ o \in Coins
    /\ CovenantsFit(t)
    /\ Cardinality(Ancestors(t)) <= MaxAncestors

\* The entries that have to make room for t, its own ancestors among them.
MakesRoom(t, V) ==
    IF SizeOf(pool.map) + Size[t] > MaxSize THEN V \in Victims ELSE V = {}

Admit(t, V) ==
    /\ Acceptable(t) /\ MakesRoom(t, V)
    /\ pool' = Added(Without(pool, Gone(V)), t)

-----------------------------------------------------------------------------
(* Notifications of the chain *)

Note(op, b, h) == [op |-> op, block |-> b, height |-> h, next |-> 1]

\* The mempool is done with a notification: the wallets are next.
Handled(note) == note.next > Len(note.block)

\* addBlock holds the lock of the mempool for all transactions of the block.
InAddBlock(th) ==
    todo[th] # << >> /\ Head(todo[th]).op = "disconnect" /\
    Head(todo[th]).next > 1 /\ ~Handled(Head(todo[th]))

PoolFree == \A th \in Threads : ~InAddBlock(th)

\* The head of the thread's notifications is of kind op and is now at tx n.
Proceed(th, op, n) ==
    /\ todo[th] # << >> /\ Head(todo[th]).op = op /\ ~Handled(Head(todo[th]))
    /\ todo' = [todo EXCEPT ![th] = <<[Head(@) EXCEPT !.next = n]>> \o Tail(@)]

\* The first transaction is taken for the coinbase.
FaultyRemoveBlock(th) ==
    LET b == Head(todo[th]).block
    IN  /\ PoolFree /\ Proceed(th, "connect", Len(b) + 1)
        /\ pool' = Without(pool, Gone({b[i] : i \in 2..Len(b)} \cap pool.map))
        /\ UNCHANGED <<chain, reorgs>>

\* removeBlock
RemoveBlock(th) ==
    LET b == Head(todo[th]).block
    IN  /\ PoolFree /\ Proceed(th, "connect", Len(b) + 1)
        /\ pool' = Without(pool, Gone(BlockTxs(b) \cap pool.map))
        /\ UNCHANGED <<chain, reorgs>>

\* addBlock: a transaction of a disconnected block is accepted again ...
AddBlockTx(th, V) ==
    LET note == Head(todo[th])
    IN  /\ PoolFree \/ InAddBlock(th)
        /\ Proceed(th, "disconnect", note.next + 1)
        /\ Admit(note.block[note.next], V)
        /\ UNCHANGED <<chain, reorgs>>

\* ... or it is not, which is ignored.
SkipBlockTx(th) ==
    LET note == Head(todo[th])
    IN  /\ PoolFree \/ InAddBlock(th)
        /\ Proceed(th, "disconnect", note.next + 1)
        /\ ~Acceptable(note.block[note.next])
        /\ UNCHANGED <<chain, pool, reorgs>>

\* The wallets are told, see module Wallet.
Delivered(th) ==
    /\ todo[th] # << >> /\ Handled(Head(todo[th]))
    /\ todo' = [todo EXCEPT ![th] = Tail(@)]
    /\ UNCHANGED <<chain, pool, reorgs>>

-----------------------------------------------------------------------------
(* Operations *)

Init ==
    /\ chain = << >> /\ pool = EmptyPool
    /\ todo = [th \in Threads |-> << >>]
    /\ reorgs = 0

\* acceptTransaction, for a peer or the RPC.
Accept(t, V) ==
    /\ PoolFree /\ Admit(t, V)
    /\ UNCHANGED <<chain, todo, reorgs>>

\* evictEntry, for the RPC or the miner, which chose t earlier; removeEntry, for
\* evictExpired, any entry as the wall clock may have been set back between two.
Evict(t) ==
    /\ PoolFree /\ t \in pool.map
    /\ pool' = Without(pool, Gone({t}))
    /\ UNCHANGED <<chain, todo, reorgs>>

Connect(th, b) ==
    /\ todo[th] = << >> /\ Len(chain) < MaxHeight /\ Connectable(b)
    /\ chain' = Append(chain, b)
    /\ todo' = [todo EXCEPT ![th] = <<Note("connect", b, Len(chain) + 1)>>]
    /\ UNCHANGED <<pool, reorgs>>

\* A branch with more work forks at height h: the stored blocks above are
\* disconnected, the highest first.
Rewind(th, h) ==
    LET n == Len(chain) - h
    IN  /\ todo[th] = << >> /\ reorgs < MaxReorgs
        /\ chain' = SubSeq(chain, 1, h)
        /\ todo' = [todo EXCEPT ![th] =
                      [i \in 1..n |-> LET k == Len(chain) + 1 - i
                                      IN  Note("disconnect", chain[k], k)]]
        /\ reorgs' = reorgs + 1
        /\ UNCHANGED pool

\* The mempool and the notifications are in memory only.
Restart ==
    /\ pool' = EmptyPool /\ todo' = [th \in Threads |-> << >>]
    /\ UNCHANGED <<chain, reorgs>>

Next ==
    \/ \E t \in Txs : \/ \E V \in SUBSET pool.map : Accept(t, V)
                      \/ Evict(t)
    \/ \E th \in Threads :
        \/ RemoveBlock(th)
        \/ \E V \in SUBSET pool.map : AddBlockTx(th, V)
        \/ SkipBlockTx(th)
        \/ Delivered(th)
        \/ \E b \in Blocks : Connect(th, b)
        \/ \E h \in 0..(Len(chain) - 1) : Rewind(th, h)
    \/ Restart

Spec == Init /\ [][Next]_vars

-----------------------------------------------------------------------------
(* Properties *)

Notes == [op : {"connect", "disconnect"}, block : Seq(Txs), height : Nat,
          next : Nat \ {0}]

TypeOK ==
    /\ chain \in Seq(Seq(Txs))
    /\ pool.map \in SUBSET Txs /\ pool.unique \in SUBSET Names
    /\ pool.spents \in [DOMAIN pool.spents -> Txs] /\ DOMAIN pool.spents \subseteq Outpoints
    /\ pool.tracked \in SUBSET (CovTypes \X Names \X Txs)
    /\ todo \in [Threads -> Seq(Notes)]
    /\ reorgs \in 0..MaxReorgs

\* spents, which is changed entry by entry, says of every output that an entry
\* spends which entry this is, and of no other output: no two entries conflict.
SpentsExact ==
    /\ \A o \in DOMAIN pool.spents : pool.spents[o] \in pool.map /\ o \in Inputs[pool.spents[o]]
    /\ \A t \in pool.map : \A o \in Inputs[t] : o \in DOMAIN pool.spents /\ pool.spents[o] = t

\* ContractState: "only one unique name operation per name is in the mempool at a
\* time", and the names in use are those of the entries, after any evictions.
NamesExact ==
    /\ pool.tracked = Covenants(pool.map)
    /\ pool.unique = UniqueNames(pool.tracked)
    /\ \A c, d \in pool.tracked :
        c[1] \in UniqueTypes /\ d[1] \in UniqueTypes /\ c[2] = d[2] => c[3] = d[3]

\* No entry is in the chain once its notifications are delivered, whatever was
\* accepted, disconnected or connected by others in the meantime.
NoneConfirmed ==
    (\A th \in Threads : todo[th] = << >>) => pool.map \cap Confirmed = {}

\* evictInvalidTransactions finds an input of t neither in the pool nor in the chain.
LacksInput(t) == \E o \in Inputs[t] : o[1] \notin pool.map /\ o \notin Coins

\* The miner recovers: what is left when validateTransactions has found the
\* covenants that do not fit any more and evictInvalidTransactions the inputs that
\* blocks have spent could all be in one block.
MinerRepairs ==
    LET left == pool.map \ Gone({t \in pool.map : ~CovenantsFit(t) \/ LacksInput(t)})
    IN  /\ InputsOf(left) \subseteq Coins \cup OutputsOf(left)
        /\ \A t, u \in left : t # u => Inputs[t] \cap Inputs[u] = {}
=============================================================================
