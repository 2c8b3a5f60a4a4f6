------------------------------ MODULE WalletProofs -----------------------------
(***************************************************************************)
(* Theorems about Mempool, and about Wallet, which composes it with the    *)
(* coins of a wallet, for every set of transactions and all limits.        *)
(*                                                                         *)
(* Every step of the mempool removes the entries of some Gone(V), and may  *)
(* add one that is Acceptable (PoolStep).  Both keep the indexes exact     *)
(* (WithoutSpents to AddedNames).  A wallet that listens to the mempool    *)
(* and the chain changes nothing of what they do (WalletListens), so that  *)
(* the theorems about Mempool hold of the three together.                  *)
(*                                                                         *)
(* Two properties need that one thread calls the chain, so that it hears   *)
(* of blocks in the order in which they were connected: NoneConfirmed, by  *)
(* OneThread, and NothingLost, by WalletFollows: the blocks a wallet has   *)
(* indexed are those of the chain and of the notifications that it has     *)
(* not heard (Following), and its coins and undo data are what these       *)
(* blocks make of them (Good).                                             *)
(***************************************************************************)
EXTENDS Wallet, Loops, FiniteSetTheorems, TLAPS

\* The invariants, of any pool p.
Spents(p) ==
    /\ \A o \in DOMAIN p.spents : p.spents[o] \in p.map /\ o \in Inputs[p.spents[o]]
    /\ \A t \in p.map : \A o \in Inputs[t] : o \in DOMAIN p.spents /\ p.spents[o] = t

NamesOf(p) ==
    /\ p.tracked = Covenants(p.map)
    /\ p.unique = UniqueNames(p.tracked)
    /\ \A c, d \in p.tracked :
        c[1] \in UniqueTypes /\ d[1] \in UniqueTypes /\ c[2] = d[2] => c[3] = d[3]

-----------------------------------------------------------------------------
(* The operations on a pool *)

\* Removing entries leaves the spent outputs of the others.
LEMMA WithoutSpents ==
    ASSUME NEW p, NEW R \in SUBSET p.map, Spents(p)
    PROVE  Spents(Without(p, R))
<1> DEFINE q == Without(p, R)
<1>1. q.map = p.map \ R /\ q.spents = [o \in DOMAIN p.spents \ InputsOf(R) |-> p.spents[o]]
  BY DEF Without
<1>2. DOMAIN q.spents = DOMAIN p.spents \ InputsOf(R)
      /\ \A o \in DOMAIN q.spents : q.spents[o] = p.spents[o]
  BY <1>1
<1> HIDE DEF q
<1>3. ASSUME NEW o \in DOMAIN q.spents
      PROVE  q.spents[o] \in q.map /\ o \in Inputs[q.spents[o]]
  <2>1. o \in DOMAIN p.spents /\ o \notin InputsOf(R) /\ q.spents[o] = p.spents[o]
    BY <1>2
  <2>2. p.spents[o] \notin R
    BY <2>1 DEF Spents, InputsOf
  <2> QED BY <2>1, <2>2, <1>1 DEF Spents
<1>4. ASSUME NEW t \in q.map, NEW o \in Inputs[t]
      PROVE  o \in DOMAIN q.spents /\ q.spents[o] = t
  <2>1. t \in p.map /\ t \notin R
    BY <1>1
  <2>2. o \in DOMAIN p.spents /\ p.spents[o] = t
    BY <2>1 DEF Spents
  <2>3. o \notin InputsOf(R)
    <3> SUFFICES ASSUME NEW u \in R, o \in Inputs[u] PROVE FALSE
      BY DEF InputsOf
    <3> QED BY <2>1, <2>2 DEF Spents
  <2> QED BY <2>2, <2>3, <1>2
<1> QED BY <1>3, <1>4 DEF Spents, q

\* A new entry spends what no other entry spends.
LEMMA AddedSpents ==
    ASSUME NEW p, NEW t, Spents(p), Inputs[t] \cap DOMAIN p.spents = {}
    PROVE  Spents(Added(p, t))
<1> DEFINE q == Added(p, t)
<1>1. q.map = p.map \cup {t}
      /\ q.spents = [o \in DOMAIN p.spents \cup Inputs[t] |->
                       IF o \in Inputs[t] THEN t ELSE p.spents[o]]
  BY DEF Added
<1>2. DOMAIN q.spents = DOMAIN p.spents \cup Inputs[t]
      /\ (\A o \in Inputs[t] : q.spents[o] = t)
      /\ \A o \in DOMAIN p.spents : q.spents[o] = p.spents[o]
  BY <1>1
<1> HIDE DEF q
<1>3. ASSUME NEW o \in DOMAIN q.spents
      PROVE  q.spents[o] \in q.map /\ o \in Inputs[q.spents[o]]
  <2>1. CASE o \in Inputs[t]
    BY <2>1, <1>1, <1>2
  <2>2. CASE o \in DOMAIN p.spents
    BY <2>2, <1>1, <1>2 DEF Spents
  <2> QED BY <2>1, <2>2, <1>2
<1>4. ASSUME NEW u \in q.map, NEW o \in Inputs[u]
      PROVE  o \in DOMAIN q.spents /\ q.spents[o] = u
  <2>1. CASE u = t
    BY <2>1, <1>2
  <2>2. CASE u \in p.map
    BY <2>2, <1>2 DEF Spents
  <2> QED BY <2>1, <2>2, <1>1
<1> QED BY <1>3, <1>4 DEF Spents, q

\* A covenant belongs to the transaction it names, which is the third component.
LEMMA InCovenants ==
    ASSUME NEW S, NEW x
    PROVE  x \in Covenants(S) <=> \E t \in S : \E c \in Covs[t] : x = <<c[1], c[2], t>>
BY DEF Covenants

LEMMA CovenantOwner ==
    ASSUME NEW S, NEW x \in Covenants(S)
    PROVE  x[3] \in S /\ x \in Covenants({x[3]}) /\ x = <<x[1], x[2], x[3]>>
BY InCovenants

LEMMA CovenantsWithout ==
    ASSUME NEW S, NEW R
    PROVE  Covenants(S) \ Covenants(R) = Covenants(S \ R)
<1>1. ASSUME NEW x \in Covenants(S), x \notin Covenants(R) PROVE x \in Covenants(S \ R)
  BY <1>1, InCovenants
<1>2. ASSUME NEW x \in Covenants(S \ R) PROVE x \in Covenants(S) /\ x \notin Covenants(R)
  BY <1>2, InCovenants, CovenantOwner
<1> QED BY <1>1, <1>2

\* Removing entries leaves the names of the others in use, and no other name.
LEMMA WithoutNames ==
    ASSUME NEW p, p.map \in SUBSET Txs, NEW R \in SUBSET p.map, NamesOf(p)
    PROVE  NamesOf(Without(p, R))
<1> DEFINE q == Without(p, R)
           left == p.tracked \ Covenants(R)
           Dropped(n) == \E k \in UniqueTypes : /\ \E t \in R : <<k, n>> \in Covs[t]
                                                /\ \A t \in Txs : <<k, n, t>> \notin left
<1>1. q.map = p.map \ R /\ q.tracked = left
      /\ q.unique = p.unique \ {n \in UniqueNames(Covenants(R)) : Dropped(n)}
  BY DEF Without
<1>2. left = Covenants(p.map \ R)
  BY CovenantsWithout DEF NamesOf
<1>3. \A c, d \in p.tracked :
        c[1] \in UniqueTypes /\ d[1] \in UniqueTypes /\ c[2] = d[2] => c[3] = d[3]
  BY DEF NamesOf
<1>4. ASSUME NEW n \in p.unique, ~(n \in UniqueNames(Covenants(R)) /\ Dropped(n))
      PROVE  n \in UniqueNames(left)
  <2>1. PICK d \in p.tracked : d[1] \in UniqueTypes /\ d[2] = n
    BY DEF NamesOf, UniqueNames
  <2>2. CASE d \in left
    BY <2>1, <2>2 DEF UniqueNames
  <2>3. CASE d \notin left
    <3>1. d \in Covenants(R)
      BY <2>3
    <3>2. n \in UniqueNames(Covenants(R))
      BY <3>1, <2>1 DEF UniqueNames
    <3>3. PICK t \in R : \E c \in Covs[t] : d = <<c[1], c[2], t>>
      BY <3>1, InCovenants
    <3>4. <<d[1], n>> \in Covs[t]
      BY <3>3, <2>1, TxsAssumption
    <3>5. PICK u \in Txs : <<d[1], n, u>> \in left
      BY <1>4, <3>2, <3>4, <2>1
    <3> QED BY <3>5, <2>1 DEF UniqueNames
  <2> QED BY <2>2, <2>3
<1>5. ASSUME NEW n \in UniqueNames(left)
      PROVE  n \in p.unique /\ ~(n \in UniqueNames(Covenants(R)) /\ Dropped(n))
  <2>1. PICK d \in left : d[1] \in UniqueTypes /\ d[2] = n
    BY DEF UniqueNames
  <2>2. d \in p.tracked /\ d[3] \in p.map /\ d[3] \notin R
    <3>1. d \in Covenants(p.map \ R)
      BY <1>2
    <3>2. d[3] \in p.map \ R
      BY <3>1, CovenantOwner
    <3> QED BY <3>2
  <2>3. n \in p.unique
    BY <2>1, <2>2 DEF NamesOf, UniqueNames
  <2>4. ASSUME NEW k \in UniqueTypes, NEW t \in R, <<k, n>> \in Covs[t] PROVE FALSE
    <3>1. <<k, n, t>> \in Covenants(R)
      BY <2>4, InCovenants
    <3>2. <<k, n, t>> \in p.tracked
      BY <2>4, InCovenants DEF NamesOf
    <3> QED BY <3>2, <2>1, <2>2, <1>3, <2>4
  <2> QED BY <2>3, <2>4
<1>6. q.unique = UniqueNames(q.tracked)
  <2>1. UniqueNames(left) = p.unique \ {n \in UniqueNames(Covenants(R)) : Dropped(n)}
    BY <1>4, <1>5
  <2> QED BY <2>1, <1>1
<1> HIDE DEF q
<1>7. \A c, d \in q.tracked :
        c[1] \in UniqueTypes /\ d[1] \in UniqueTypes /\ c[2] = d[2] => c[3] = d[3]
  BY <1>1, <1>3
<1> QED BY <1>1, <1>2, <1>6, <1>7 DEF NamesOf, q

\* A new entry operates on names that no other entry operates on.
LEMMA AddedNames ==
    ASSUME NEW p, NEW t, NamesOf(p), UniqueNames(Covenants({t})) \cap p.unique = {}
    PROVE  NamesOf(Added(p, t))
<1> DEFINE q == Added(p, t)
<1>1. q.map = p.map \cup {t} /\ q.tracked = p.tracked \cup Covenants({t})
      /\ q.unique = p.unique \cup UniqueNames(Covenants({t}))
  BY DEF Added
<1> HIDE DEF q
<1>2. q.tracked = Covenants(q.map)
  <2>1. ASSUME NEW x \in q.tracked PROVE x \in Covenants(q.map)
    BY <1>1, InCovenants DEF NamesOf
  <2>2. ASSUME NEW x \in Covenants(q.map) PROVE x \in q.tracked
    <3>1. PICK u \in q.map : \E c \in Covs[u] : x = <<c[1], c[2], u>>
      BY InCovenants
    <3>2. CASE u = t
      <4>1. x \in Covenants({t})
        BY <3>1, <3>2, InCovenants
      <4> QED BY <4>1, <1>1
    <3>3. CASE u \in p.map
      <4>1. x \in Covenants(p.map)
        BY <3>1, <3>3, InCovenants
      <4> QED BY <4>1, <1>1 DEF NamesOf
    <3> QED BY <3>2, <3>3, <1>1
  <2> QED BY <2>1, <2>2
<1>3. q.unique = UniqueNames(q.tracked)
  BY <1>1 DEF NamesOf, UniqueNames
<1>4. ASSUME NEW c \in q.tracked, NEW d \in q.tracked,
             c[1] \in UniqueTypes, d[1] \in UniqueTypes, c[2] = d[2]
      PROVE  c[3] = d[3]
  <2>1. ASSUME NEW x \in Covenants({t}) PROVE x[3] = t
    <3>1. x[3] \in {t}
      BY <2>1, CovenantOwner
    <3> QED BY <3>1
  <2>2. ASSUME NEW x \in Covenants({t}), NEW y \in p.tracked,
               x[1] \in UniqueTypes, y[1] \in UniqueTypes
        PROVE  x[2] # y[2]
    <3>1. x[2] \in UniqueNames(Covenants({t})) /\ y[2] \in p.unique
      BY <2>2 DEF NamesOf, UniqueNames
    <3> QED BY <3>1
  <2>3. CASE c \in p.tracked /\ d \in p.tracked
    BY <2>3, <1>4 DEF NamesOf
  <2>4. CASE c \in Covenants({t}) /\ d \in Covenants({t})
    BY <2>4, <2>1
  <2>5. CASE c \in Covenants({t}) /\ d \in p.tracked
    BY <2>5, <2>2, <1>4
  <2>6. CASE c \in p.tracked /\ d \in Covenants({t})
    BY <2>6, <2>2, <1>4
  <2> QED BY <2>3, <2>4, <2>5, <2>6, <1>1
<1> QED BY <1>2, <1>3, <1>4 DEF NamesOf, q

-----------------------------------------------------------------------------
(* Types *)

\* Whatever removeEntry removes was in the pool.
LEMMA GoneInPool == \A V : Gone(V) \in SUBSET pool.map
BY DEF Gone

\* The notification at the head of the list of a thread.
LEMMA HeadNote ==
    ASSUME TypeOK, NEW th \in Threads, todo[th] # << >>
    PROVE  /\ Head(todo[th]) \in Notes /\ Tail(todo[th]) \in Seq(Notes)
           /\ Head(todo[th]).block \in Seq(Txs) /\ Head(todo[th]).next \in Nat \ {0}
           /\ ~Handled(Head(todo[th])) => Head(todo[th]).block[Head(todo[th]).next] \in Txs
<1>1. todo[th] \in Seq(Notes)
  BY DEF TypeOK
<1>2. Head(todo[th]) \in Notes /\ Tail(todo[th]) \in Seq(Notes)
  BY <1>1
<1> DEFINE note == Head(todo[th])
<1>3. note.block \in Seq(Txs) /\ note.next \in Nat \ {0}
  BY <1>2 DEF Notes
<1> HIDE DEF note
<1>4. ASSUME ~Handled(note) PROVE note.block[note.next] \in Txs
  <2>1. note.next \in 1..Len(note.block)
    BY <1>3, <1>4 DEF Handled
  <2> QED BY <2>1, <1>3
<1> QED BY <1>2, <1>3, <1>4 DEF note

\* What a step does to the pool.
LEMMA PoolStep ==
    ASSUME TypeOK, [Next]_vars
    PROVE  \/ pool' = pool
           \/ pool' = EmptyPool
           \/ \E V : pool' = Without(pool, Gone(V))
           \/ \E t \in Txs : \E V : /\ Acceptable(t)
                                   /\ pool' = Added(Without(pool, Gone(V)), t)
<1>1. CASE UNCHANGED vars
  BY <1>1 DEF vars
<1>2. ASSUME NEW t \in Txs, NEW V \in SUBSET pool.map, Accept(t, V)
      PROVE  Acceptable(t) /\ pool' = Added(Without(pool, Gone(V)), t)
  BY <1>2 DEF Accept, Admit
<1>3. ASSUME NEW t \in Txs, Evict(t)
      PROVE  \E V : pool' = Without(pool, Gone(V))
  BY <1>3 DEF Evict
<1>4. ASSUME NEW th \in Threads, RemoveBlock(th)
      PROVE  \E V : pool' = Without(pool, Gone(V))
  BY <1>4 DEF RemoveBlock
<1>5. ASSUME NEW th \in Threads, NEW V \in SUBSET pool.map, AddBlockTx(th, V)
      PROVE  \E t \in Txs : Acceptable(t) /\ pool' = Added(Without(pool, Gone(V)), t)
  BY <1>5, HeadNote DEF AddBlockTx, Admit, Proceed
<1>6. ASSUME NEW th \in Threads, SkipBlockTx(th) \/ Delivered(th)
      PROVE  pool' = pool
  BY <1>6 DEF SkipBlockTx, Delivered
<1>7. ASSUME NEW th \in Threads, \/ \E b \in Blocks : Connect(th, b)
                                \/ \E h \in 0..(Len(chain) - 1) : Rewind(th, h)
      PROVE  pool' = pool
  BY <1>7 DEF Connect, Rewind
<1>8. CASE Restart
  BY <1>8 DEF Restart
<1> QED BY <1>1, <1>2, <1>3, <1>4, <1>5, <1>6, <1>7, <1>8 DEF Next

\* The pool of any step is well typed, and its entries are transactions.
PoolTypeOK(p) ==
    /\ p.map \in SUBSET Txs /\ p.unique \in SUBSET Names
    /\ p.spents \in [DOMAIN p.spents -> Txs] /\ DOMAIN p.spents \subseteq Outpoints
    /\ p.tracked \in SUBSET (CovTypes \X Names \X Txs)

LEMMA WithoutType ==
    ASSUME NEW p, NEW R, PoolTypeOK(p)
    PROVE  PoolTypeOK(Without(p, R))
BY DEF PoolTypeOK, Without

LEMMA AddedType ==
    ASSUME NEW p, NEW t \in Txs, PoolTypeOK(p)
    PROVE  PoolTypeOK(Added(p, t))
<1> DEFINE q == Added(p, t)
<1>1. q.map = p.map \cup {t} /\ q.tracked = p.tracked \cup Covenants({t})
      /\ q.unique = p.unique \cup UniqueNames(Covenants({t}))
      /\ q.spents = [o \in DOMAIN p.spents \cup Inputs[t] |->
                       IF o \in Inputs[t] THEN t ELSE p.spents[o]]
  BY DEF Added
<1> HIDE DEF q
<1>2. \A c \in Covs[t] : c[1] \in CovTypes /\ c[2] \in Names
  BY TxsAssumption DEF Names
<1>3. Covenants({t}) \in SUBSET (CovTypes \X Names \X Txs)
  <2> SUFFICES ASSUME NEW x \in Covenants({t}) PROVE x \in CovTypes \X Names \X Txs
    OBVIOUS
  <2>1. PICK c \in Covs[t] : x = <<c[1], c[2], t>>
    BY InCovenants
  <2> QED BY <2>1, <1>2
<1>4. UniqueNames(Covenants({t})) \in SUBSET Names
  BY <1>3 DEF UniqueNames
<1>5. Inputs[t] \subseteq Outpoints
  BY TxsAssumption
<1>6. /\ DOMAIN q.spents = DOMAIN p.spents \cup Inputs[t]
      /\ q.spents \in [DOMAIN q.spents -> Txs]
  BY <1>1 DEF PoolTypeOK
<1> QED BY <1>1, <1>3, <1>4, <1>5, <1>6 DEF PoolTypeOK, q

LEMMA EmptyPoolOK == PoolTypeOK(EmptyPool) /\ Spents(EmptyPool) /\ NamesOf(EmptyPool)
<1>1. PoolTypeOK(EmptyPool) /\ Spents(EmptyPool)
  BY DEF PoolTypeOK, Spents, EmptyPool
<1>2. Covenants({}) = {} /\ UniqueNames({}) = {}
  BY DEF Covenants, UniqueNames
<1> QED BY <1>1, <1>2 DEF NamesOf, EmptyPool

\* Every variable keeps its type: a transaction that leaves a block for the
\* mempool is one, and the notifications of a rewind are about stored blocks.
THEOREM TypeCorrect == Spec => []TypeOK
<1>1. Init => TypeOK
  <2> SUFFICES ASSUME Init PROVE TypeOK
    OBVIOUS
  <2>1. PoolTypeOK(pool)
    BY EmptyPoolOK DEF Init
  <2>2. chain \in Seq(Seq(Txs)) /\ todo \in [Threads -> Seq(Notes)] /\ reorgs \in 0..MaxReorgs
    BY LimitsAssumption DEF Init
  <2> QED BY <2>1, <2>2 DEF TypeOK, PoolTypeOK
<1>2. TypeOK /\ [Next]_vars => TypeOK'
  <2> SUFFICES ASSUME TypeOK, [Next]_vars PROVE TypeOK'
    OBVIOUS
  <2>1. PoolTypeOK(pool)
    BY DEF TypeOK, PoolTypeOK
  <2>2. PoolTypeOK(pool')
    BY <2>1, PoolStep, EmptyPoolOK, WithoutType, AddedType
  <2> DEFINE Rest == /\ chain' \in Seq(Seq(Txs)) /\ todo' \in [Threads -> Seq(Notes)]
                     /\ reorgs' \in 0..MaxReorgs
  <2>3. ASSUME UNCHANGED <<chain, todo, reorgs>> PROVE Rest
    BY <2>3 DEF TypeOK
  <2>4. ASSUME NEW th \in Threads, NEW op, NEW n \in Nat \ {0}, Proceed(th, op, n)
        PROVE  todo' \in [Threads -> Seq(Notes)]
    <3>1. todo[th] # << >> /\ todo' = [todo EXCEPT ![th] = <<[Head(todo[th]) EXCEPT !.next = n]>> \o Tail(todo[th])]
      BY <2>4 DEF Proceed
    <3>2. [Head(todo[th]) EXCEPT !.next = n] \in Notes /\ Tail(todo[th]) \in Seq(Notes)
      BY <3>1, HeadNote DEF Notes
    <3>3. <<[Head(todo[th]) EXCEPT !.next = n]>> \o Tail(todo[th]) \in Seq(Notes)
      BY <3>2
    <3> QED BY <3>1, <3>3 DEF TypeOK
  <2>5. ASSUME NEW th \in Threads, RemoveBlock(th) PROVE Rest
    <3>1. Len(Head(todo[th]).block) + 1 \in Nat \ {0}
      BY <2>5, HeadNote DEF RemoveBlock, Proceed
    <3> QED BY <2>4, <2>5, <3>1 DEF RemoveBlock, TypeOK
  <2>6. ASSUME NEW th \in Threads,
               SkipBlockTx(th) \/ \E V \in SUBSET pool.map : AddBlockTx(th, V)
        PROVE  Rest
    <3>1. Head(todo[th]).next + 1 \in Nat \ {0}
      BY <2>6, HeadNote DEF SkipBlockTx, AddBlockTx, Proceed
    <3> QED BY <2>4, <2>6, <3>1 DEF SkipBlockTx, AddBlockTx, TypeOK
  <2>7. ASSUME NEW th \in Threads, Delivered(th) PROVE Rest
    BY <2>7, HeadNote DEF Delivered, TypeOK
  <2>8. ASSUME NEW th \in Threads, NEW b \in Blocks, Connect(th, b) PROVE Rest
    <3>1. b \in Seq(Txs) /\ Len(chain) + 1 \in Nat
      BY LimitsAssumption DEF Blocks, TypeOK
    <3>2. Note("connect", b, Len(chain) + 1) \in Notes
      BY <3>1 DEF Note, Notes
    <3> QED BY <2>8, <3>1, <3>2 DEF Connect, TypeOK
  <2>9. ASSUME NEW th \in Threads, NEW h \in 0..(Len(chain) - 1), Rewind(th, h) PROVE Rest
    <3> DEFINE n == Len(chain) - h
               notes == [i \in 1..n |-> LET k == Len(chain) + 1 - i
                                        IN  Note("disconnect", chain[k], k)]
    <3>1. chain \in Seq(Seq(Txs)) /\ n \in Nat /\ Len(chain) \in Nat
      BY DEF TypeOK
    <3>2. ASSUME NEW i \in 1..n PROVE Note("disconnect", chain[Len(chain) + 1 - i], Len(chain) + 1 - i) \in Notes
      <4>1. Len(chain) + 1 - i \in 1..Len(chain)
        BY <3>1
      <4>2. chain[Len(chain) + 1 - i] \in Seq(Txs)
        BY <3>1, <4>1
      <4> QED BY <4>1, <4>2 DEF Note, Notes
    <3>3. notes \in Seq(Notes)
      BY <3>1, <3>2
    <3>4. SubSeq(chain, 1, h) \in Seq(Seq(Txs))
      BY <3>1
    <3> HIDE DEF notes
    <3>5. todo' = [todo EXCEPT ![th] = notes]
      BY <2>9 DEF Rewind, notes
    <3>6. todo' \in [Threads -> Seq(Notes)]
      BY <3>3, <3>5 DEF TypeOK
    <3>7. chain' \in Seq(Seq(Txs)) /\ reorgs' \in 0..MaxReorgs
      BY <2>9, <3>4, LimitsAssumption DEF Rewind, TypeOK
    <3> QED BY <3>6, <3>7
  <2>10. ASSUME Restart PROVE Rest
    BY <2>10 DEF Restart, TypeOK
  <2>11. ASSUME NEW t \in Txs, Evict(t) \/ \E V \in SUBSET pool.map : Accept(t, V)
         PROVE  Rest
    BY <2>3, <2>11 DEF Evict, Accept
  <2>12. ASSUME UNCHANGED vars PROVE Rest
    BY <2>3, <2>12 DEF vars
  <2>13. Rest
    BY <2>5, <2>6, <2>7, <2>8, <2>9, <2>10, <2>11, <2>12 DEF Next
  <2> QED BY <2>2, <2>13 DEF TypeOK, PoolTypeOK
<1> QED BY <1>1, <1>2, PTL DEF Spec

-----------------------------------------------------------------------------
(* The indexes *)

\* The output of which an entry of the mempool is the spender is known exactly, and
\* no two entries spend the same output.
THEOREM SpentsCorrect == Spec => []SpentsExact
<1>1. SpentsExact <=> Spents(pool)
  BY DEF SpentsExact, Spents
<1>2. Init => Spents(pool)
  BY EmptyPoolOK DEF Init
<1>3. TypeOK /\ Spents(pool) /\ [Next]_vars => Spents(pool')
  <2> SUFFICES ASSUME TypeOK, Spents(pool), [Next]_vars PROVE Spents(pool')
    OBVIOUS
  <2>1. ASSUME NEW V PROVE Spents(Without(pool, Gone(V)))
    BY WithoutSpents, GoneInPool
  <2>2. ASSUME NEW V, NEW t \in Txs, Acceptable(t)
        PROVE  Spents(Added(Without(pool, Gone(V)), t))
    <3>1. DOMAIN Without(pool, Gone(V)).spents \subseteq DOMAIN pool.spents
      BY DEF Without
    <3>2. Inputs[t] \cap DOMAIN Without(pool, Gone(V)).spents = {}
      BY <2>2, <3>1 DEF Acceptable
    <3> QED BY <2>1, <3>2, AddedSpents
  <2> QED BY <2>1, <2>2, PoolStep, EmptyPoolOK
<1>4. Spents(pool') <=> SpentsExact'
  BY DEF SpentsExact, Spents
<1> QED BY <1>1, <1>2, <1>3, <1>4, TypeCorrect, PTL DEF Spec

\* The contract state has the names of the entries, and one entry operates on a
\* name at a time, after any evictions.
THEOREM NamesCorrect == Spec => []NamesExact
<1>1. NamesExact <=> NamesOf(pool)
  BY DEF NamesExact, NamesOf
<1>2. Init => NamesOf(pool)
  BY EmptyPoolOK DEF Init
<1>3. TypeOK /\ NamesOf(pool) /\ [Next]_vars => NamesOf(pool')
  <2> SUFFICES ASSUME TypeOK, NamesOf(pool), [Next]_vars PROVE NamesOf(pool')
    OBVIOUS
  <2>1. ASSUME NEW V PROVE NamesOf(Without(pool, Gone(V)))
    BY WithoutNames, GoneInPool DEF TypeOK
  <2>2. ASSUME NEW V, NEW t \in Txs, Acceptable(t)
        PROVE  NamesOf(Added(Without(pool, Gone(V)), t))
    <3>1. Without(pool, Gone(V)).unique \subseteq pool.unique
      BY DEF Without
    <3>2. UniqueNames(Covenants({t})) \cap Without(pool, Gone(V)).unique = {}
      BY <2>2, <3>1 DEF Acceptable
    <3> QED BY <2>1, <3>2, AddedNames
  <2> QED BY <2>1, <2>2, PoolStep, EmptyPoolOK
<1>4. NamesOf(pool') <=> NamesExact'
  BY DEF NamesExact, NamesOf
<1> QED BY <1>1, <1>2, <1>3, <1>4, TypeCorrect, PTL DEF Spec

-----------------------------------------------------------------------------
(* The miner *)

\* Gone(V) has the entries of V and every entry that spends an output of one.
LEMMA GoneClosed ==
    ASSUME NEW V \in SUBSET pool.map
    PROVE  /\ V \subseteq Gone(V)
           /\ \A o \in DOMAIN pool.spents :
                o[1] \in Gone(V) /\ pool.spents[o] \in pool.map => pool.spents[o] \in Gone(V)
<1>1. V \subseteq Gone(V)
  BY DEF Gone
<1>2. ASSUME NEW o \in DOMAIN pool.spents, o[1] \in Gone(V), pool.spents[o] \in pool.map,
             NEW S \in SUBSET pool.map, V \subseteq S, HoldsSpenders(S)
      PROVE  pool.spents[o] \in S
  <2>1. o[1] \in S
    BY <1>2 DEF Gone
  <2> QED BY <2>1, <1>2 DEF HoldsSpenders
<1> QED BY <1>1, <1>2 DEF Gone

\* Whatever the chain did in the meantime, after the miner's evictions every entry
\* spends outputs that are unspent in the chain or made by an entry, and no two
\* entries spend the same output.
THEOREM MinerRepairsCorrect == Spec => []MinerRepairs
<1>1. TypeOK /\ SpentsExact => MinerRepairs
  <2> SUFFICES ASSUME TypeOK, SpentsExact PROVE MinerRepairs
    OBVIOUS
  <2> DEFINE bad == {t \in pool.map : ~CovenantsFit(t) \/ LacksInput(t)}
             left == pool.map \ Gone(bad)
  <2>1. bad \in SUBSET pool.map /\ bad \subseteq Gone(bad)
    BY GoneClosed
  <2>2. ASSUME NEW t \in left, NEW o \in Inputs[t]
        PROVE  o \in Coins \cup OutputsOf(left)
    <3>1. t \in pool.map /\ t \in Txs /\ ~LacksInput(t)
      BY <2>1 DEF TypeOK
    <3>2. o[1] \in pool.map \/ o \in Coins
      BY <3>1 DEF LacksInput
    <3>3. CASE o[1] \in pool.map
      <4>1. o \in DOMAIN pool.spents /\ pool.spents[o] = t
        BY <3>1 DEF SpentsExact
      <4>2. o[1] \in left
        BY <3>1, <3>3, <4>1, <2>1, GoneClosed
      <4>3. o \in Outpoints
        BY <3>1, TxsAssumption
      <4>4. PICK u \in Txs \cup {Genesis} : \E i \in 1..Outs[u] : o = <<u, i>>
        BY <4>3 DEF Outpoints
      <4> QED BY <4>2, <4>4 DEF OutputsOf
    <3> QED BY <3>2, <3>3
  <2>3. ASSUME NEW t \in left, NEW u \in left, NEW o \in Inputs[t] \cap Inputs[u]
        PROVE  t = u
    BY DEF SpentsExact
  <2>4. InputsOf(left) \subseteq Coins \cup OutputsOf(left)
    BY <2>2 DEF InputsOf
  <2>5. \A t, u \in left : t # u => Inputs[t] \cap Inputs[u] = {}
    BY <2>3
  <2> QED BY <2>4, <2>5 DEF MinerRepairs
<1> QED BY <1>1, TypeCorrect, SpentsCorrect, PTL

-----------------------------------------------------------------------------
(* Entries that are in the chain *)

\* No transaction is in two blocks, and none comes before one whose output it spends.
ChainOK(c) ==
    /\ \A g, h \in DOMAIN c : \A t \in BlockTxs(c[g]) : t \in BlockTxs(c[h]) => g = h
    /\ \A h \in DOMAIN c : \A t \in BlockTxs(c[h]) : \A o \in Inputs[t] :
          o[1] = Genesis \/ \E g \in 1..h : o[1] \in BlockTxs(c[g])

\* The transactions of a block that is connected and of which the mempool has not heard.
Awaited(notes) ==
    IF notes # << >> /\ Head(notes).op = "connect" /\ ~Handled(Head(notes))
    THEN BlockTxs(Head(notes).block) ELSE {}

\* The notification of a connected block is the only one, and the block is the highest.
LastConnected(notes, c) ==
    \A i \in 1..Len(notes) : notes[i].op = "connect" =>
        Len(notes) = 1 /\ c # << >> /\ notes[1].block = c[Len(c)]

OneThread(th) ==
    /\ ChainOK(chain) /\ LastConnected(todo[th], chain)
    /\ pool.map \cap Confirmed \subseteq Awaited(todo[th])

LEMMA InBlock == ASSUME NEW b, NEW t
                 PROVE  t \in BlockTxs(b) <=> \E i \in DOMAIN b : t = b[i]
BY DEF BlockTxs

LEMMA InChain == ASSUME NEW t
                 PROVE  t \in Confirmed <=> \E h \in DOMAIN chain : t \in BlockTxs(chain[h])
BY DEF Confirmed

\* What is accepted is not in the chain, or it is in the block the mempool is about to
\* hear of: an entry that it spends is in this block, so it is not in a lower one.
LEMMA AcceptedAwaited ==
    ASSUME NEW th \in Threads, TypeOK, OneThread(th), NEW t \in Txs, Acceptable(t), t \in Confirmed
    PROVE  t \in Awaited(todo[th])
<1>1. PICK h \in DOMAIN chain : t \in BlockTxs(chain[h])
  BY InChain
<1>2. PICK o \in Inputs[t] : TRUE
  BY TxsAssumption
<1>3. o \notin Coins
  BY DEF Coins, InputsOf
<1>4. o[1] \in pool.map /\ o[1] # Genesis
  BY <1>2, <1>3, TxsAssumption DEF Acceptable, TypeOK
<1>5. PICK g \in 1..h : o[1] \in BlockTxs(chain[g])
  BY <1>1, <1>2, <1>4 DEF OneThread, ChainOK
<1>6. DOMAIN chain = 1..Len(chain) /\ Len(chain) \in Nat /\ g \in DOMAIN chain
  BY <1>1, <1>5 DEF TypeOK
<1>7. o[1] \in Awaited(todo[th])
  BY <1>4, <1>5, <1>6, InChain DEF OneThread
<1>8. /\ todo[th] # << >> /\ Head(todo[th]).op = "connect"
      /\ Awaited(todo[th]) = BlockTxs(Head(todo[th]).block)
  BY <1>7 DEF Awaited
<1>9. todo[th] \in Seq(Notes) /\ 1 \in 1..Len(todo[th]) /\ Head(todo[th]) = todo[th][1]
  BY <1>8 DEF TypeOK
<1>10. chain # << >> /\ Head(todo[th]).block = chain[Len(chain)]
  BY <1>8, <1>9 DEF OneThread, LastConnected
<1>11. Len(chain) \in DOMAIN chain
  BY <1>6, <1>10 DEF TypeOK
<1>12. g = Len(chain)
  BY <1>5, <1>6, <1>7, <1>8, <1>10, <1>11 DEF OneThread, ChainOK
<1>13. h = Len(chain)
  BY <1>1, <1>5, <1>6, <1>12
<1>14. QED
  BY <1>1, <1>8, <1>10, <1>13

\* A step that leaves the chain alone and adds at most what is accepted.
LEMMA EntriesStay ==
    ASSUME NEW th \in Threads, TypeOK, OneThread(th), UNCHANGED chain,
           \A t \in pool'.map : t \in pool.map \/ (t \in Txs /\ Acceptable(t)),
           Awaited(todo[th]) \subseteq Awaited(todo'[th]), LastConnected(todo'[th], chain)
    PROVE  OneThread(th)'
<1>1. ChainOK(chain)' /\ Confirmed' = Confirmed
  BY DEF OneThread, Confirmed
<1>2. LastConnected(todo[th], chain)'
  OBVIOUS
<1>3. ASSUME NEW t \in pool'.map, t \in Confirmed PROVE t \in Awaited(todo'[th])
  <2>1. CASE t \in pool.map
    BY <1>3, <2>1 DEF OneThread
  <2>2. CASE t \in Txs /\ Acceptable(t)
    BY <1>3, <2>2, AcceptedAwaited
  <2>3. QED
    BY <2>1, <2>2
<1>4. (pool.map \cap Confirmed \subseteq Awaited(todo[th]))'
  BY <1>1, <1>3
<1>5. QED
  BY <1>1, <1>2, <1>4 DEF OneThread

\* A chain keeps its order when a block is connected ...
LEMMA ConnectedOK ==
    ASSUME TypeOK, ChainOK(chain), NEW b \in Seq(Txs), Connectable(b)
    PROVE  ChainOK(Append(chain, b))
<1> DEFINE c == Append(chain, b)
           n == Len(chain) + 1
<1>1. /\ chain \in Seq(Seq(Txs)) /\ Len(chain) \in Nat /\ DOMAIN chain = 1..Len(chain)
      /\ DOMAIN c = 1..n /\ c[n] = b /\ \A h \in DOMAIN chain : c[h] = chain[h] /\ h \in 1..n /\ h # n
      /\ \A h \in DOMAIN chain : \A g \in 1..h : c[g] = chain[g]
  BY DEF TypeOK
<1>2. \A h \in DOMAIN c : h = n \/ h \in DOMAIN chain
  BY <1>1
<1> HIDE DEF c
<1>3. \A h \in DOMAIN chain : \A t \in BlockTxs(chain[h]) : t \notin BlockTxs(b)
  BY InChain DEF Connectable
<1>4. ASSUME NEW g \in DOMAIN c, NEW h \in DOMAIN c, NEW t \in BlockTxs(c[g]), t \in BlockTxs(c[h])
      PROVE  g = h
  <2>1. CASE g = n /\ h \in DOMAIN chain
    BY <2>1, <1>1, <1>3, <1>4
  <2>2. CASE h = n /\ g \in DOMAIN chain
    BY <2>2, <1>1, <1>3, <1>4
  <2>3. CASE g \in DOMAIN chain /\ h \in DOMAIN chain
    BY <2>3, <1>1, <1>4 DEF ChainOK
  <2>4. QED
    BY <1>2, <2>1, <2>2, <2>3
<1>5. ASSUME NEW t \in BlockTxs(b), NEW o \in Inputs[t]
      PROVE  o[1] = Genesis \/ \E g \in 1..n : o[1] \in BlockTxs(c[g])
  <2>1. PICK i \in DOMAIN b : t = b[i]
    BY InBlock
  <2>2. o \in Coins \cup OutputsOf({b[j] : j \in 1..(i - 1)})
    BY <2>1 DEF Connectable
  <2>3. CASE o \in Coins
    <3>1. PICK u \in Confirmed \cup {Genesis} : \E k \in 1..Outs[u] : o = <<u, k>>
      BY <2>3 DEF Coins, OutputsOf
    <3>2. CASE u = Genesis
      BY <3>1, <3>2
    <3>3. CASE u \in Confirmed
      <4>1. PICK g \in DOMAIN chain : u \in BlockTxs(chain[g])
        BY <3>3, InChain
      <4>2. QED
        BY <3>1, <4>1, <1>1
    <3>4. QED
      BY <3>1, <3>2, <3>3
  <2>4. CASE o \in OutputsOf({b[j] : j \in 1..(i - 1)})
    <3>1. PICK j \in 1..(i - 1) : \E k \in 1..Outs[b[j]] : o = <<b[j], k>>
      BY <2>4 DEF OutputsOf
    <3>2. i \in 1..Len(b) /\ Len(b) \in Nat /\ DOMAIN b = 1..Len(b)
      BY <2>1
    <3>3. j \in DOMAIN b
      BY <3>2
    <3>4. o[1] \in BlockTxs(b)
      BY <3>1, <3>3, InBlock
    <3>5. QED
      BY <3>4, <1>1
  <2>5. QED
    BY <2>2, <2>3, <2>4
<1>6. ASSUME NEW h \in DOMAIN c, NEW t \in BlockTxs(c[h]), NEW o \in Inputs[t]
      PROVE  o[1] = Genesis \/ \E g \in 1..h : o[1] \in BlockTxs(c[g])
  <2>1. CASE h = n
    BY <2>1, <1>1, <1>5, <1>6
  <2>2. CASE h \in DOMAIN chain
    <3>1. o[1] = Genesis \/ \E g \in 1..h : o[1] \in BlockTxs(chain[g])
      BY <2>2, <1>1, <1>6 DEF ChainOK
    <3>2. \A g \in 1..h : c[g] = chain[g]
      BY <2>2, <1>1, Zenon
    <3>3. QED
      BY <3>1, <3>2
  <2>3. QED
    BY <1>2, <2>1, <2>2
<1>7. QED
  BY <1>4, <1>6 DEF ChainOK, c

\* ... and when the highest blocks are disconnected.
LEMMA RewoundOK ==
    ASSUME NEW s \in Seq(Seq(Txs)), ChainOK(s), NEW m \in 0..Len(s)
    PROVE  ChainOK(SubSeq(s, 1, m))
<1> DEFINE c == SubSeq(s, 1, m)
<1>1. /\ DOMAIN s = 1..Len(s) /\ Len(s) \in Nat /\ DOMAIN c = 1..m
      /\ \A h \in 1..m : c[h] = s[h] /\ h \in DOMAIN s
  OBVIOUS
<1> HIDE DEF c
<1>2. ASSUME NEW h \in DOMAIN c, NEW t \in BlockTxs(c[h]), NEW o \in Inputs[t]
      PROVE  o[1] = Genesis \/ \E g \in 1..h : o[1] \in BlockTxs(c[g])
  <2>1. o[1] = Genesis \/ \E g \in 1..h : o[1] \in BlockTxs(s[g])
    BY <1>1, <1>2 DEF ChainOK
  <2>2. \A g \in 1..h : c[g] = s[g]
    BY <1>1
  <2>3. QED
    BY <2>1, <2>2
<1>3. QED
  BY <1>1, <1>2 DEF ChainOK, c

\* The head of a list of notifications moves on.
LEMMA HeadMoved ==
    ASSUME NEW notes \in Seq(Notes), notes # << >>, NEW c, NEW n, LastConnected(notes, c)
    PROVE  LastConnected(<<[Head(notes) EXCEPT !.next = n]>> \o Tail(notes), c)
<1> DEFINE moved == <<[Head(notes) EXCEPT !.next = n]>> \o Tail(notes)
<1>1. /\ Head(notes) = notes[1] /\ notes[1] \in Notes /\ Tail(notes) \in Seq(Notes)
      /\ Len(notes) \in Nat \ {0} /\ Len(Tail(notes)) = Len(notes) - 1
      /\ \A i \in 1..Len(Tail(notes)) : Tail(notes)[i] = notes[i + 1]
  OBVIOUS
<1>2. [notes[1] EXCEPT !.next = n].op = notes[1].op
      /\ [notes[1] EXCEPT !.next = n].block = notes[1].block
  BY <1>1 DEF Notes
<1>3. /\ Len(moved) = Len(notes) /\ moved[1] = [notes[1] EXCEPT !.next = n]
      /\ \A i \in 2..Len(notes) : moved[i] = notes[i]
  BY <1>1
<1> HIDE DEF moved
<1>4. ASSUME NEW i \in 1..Len(notes) PROVE moved[i].op = notes[i].op
  <2>1. CASE i = 1
    BY <2>1, <1>2, <1>3
  <2>2. CASE i # 1
    <3>1. i \in 2..Len(notes)
      BY <2>2, <1>1
    <3>2. QED
      BY <3>1, <1>3
  <2>3. QED
    BY <2>1, <2>2
<1>5. moved[1].block = notes[1].block
  BY <1>2, <1>3
<1>6. QED
  BY <1>3, <1>4, <1>5 DEF LastConnected, moved

\* What a step adds to the pool has been accepted.
LEMMA EntriesKnown ==
    ASSUME TypeOK, [Next]_vars
    PROVE  \A t \in pool'.map : t \in pool.map \/ (t \in Txs /\ Acceptable(t))
<1>1. ASSUME NEW V PROVE Without(pool, Gone(V)).map \subseteq pool.map
  BY DEF Without
<1>2. ASSUME NEW V, NEW t
      PROVE  Added(Without(pool, Gone(V)), t).map \subseteq pool.map \cup {t}
  BY <1>1 DEF Added
<1>3. QED
  BY <1>1, <1>2, PoolStep DEF EmptyPool

\* With one caller of the chain, what its notifications have passed is out of the pool.
LEMMA OneThreadStep ==
    ASSUME NEW th, Threads = {th}, TypeOK, TypeOK', OneThread(th), [Next]_vars
    PROVE  OneThread(th)'
<1> DEFINE notes == todo[th]
<1>1. th \in Threads /\ notes \in Seq(Notes) /\ todo'[th] \in Seq(Notes)
  BY DEF TypeOK
<1>2. \A t \in pool'.map : t \in pool.map \/ (t \in Txs /\ Acceptable(t))
  BY EntriesKnown
<1>3. ASSUME UNCHANGED <<chain, todo>> PROVE OneThread(th)'
  BY <1>1, <1>2, <1>3, EntriesStay DEF OneThread
<1>4. ASSUME \/ UNCHANGED vars
             \/ \E t \in Txs : (\E V \in SUBSET pool.map : Accept(t, V)) \/ Evict(t)
      PROVE  OneThread(th)'
  BY <1>3, <1>4 DEF Accept, Evict, vars
<1>5. CASE RemoveBlock(th)
  <2> DEFINE b == Head(notes).block
             gone == Gone(BlockTxs(b) \cap pool.map)
  <2>1. /\ notes # << >> /\ Head(notes).op = "connect" /\ ~Handled(Head(notes))
        /\ todo'[th] = <<[Head(notes) EXCEPT !.next = Len(b) + 1]>> \o Tail(notes)
        /\ pool'.map = pool.map \ gone /\ UNCHANGED chain
    BY <1>1, <1>5 DEF RemoveBlock, Proceed, Without, TypeOK
  <2>2. BlockTxs(b) \cap pool.map \subseteq gone
    BY DEF Gone
  <2>3. Awaited(notes) = BlockTxs(b)
    BY <2>1 DEF Awaited
  <2> HIDE DEF gone
  <2>4. \A t \in pool'.map : t \notin Confirmed
    BY <2>1, <2>2, <2>3 DEF OneThread
  <2>5. LastConnected(todo'[th], chain)
    BY <1>1, <2>1, HeadMoved DEF OneThread
  <2>6. (pool.map \cap Confirmed = {})' /\ ChainOK(chain)'
    BY <2>1, <2>4 DEF Confirmed, OneThread
  <2>7. QED
    BY <2>1, <2>5, <2>6 DEF OneThread
<1>6. ASSUME SkipBlockTx(th) \/ \E V \in SUBSET pool.map : AddBlockTx(th, V)
      PROVE  OneThread(th)'
  <2>1. /\ notes # << >> /\ Head(notes).op = "disconnect" /\ UNCHANGED chain
        /\ todo'[th] = <<[Head(notes) EXCEPT !.next = Head(notes).next + 1]>> \o Tail(notes)
    BY <1>1, <1>6 DEF SkipBlockTx, AddBlockTx, Proceed, TypeOK
  <2>2. Awaited(notes) = {}
    BY <2>1 DEF Awaited
  <2>3. LastConnected(todo'[th], chain)
    BY <1>1, <2>1, HeadMoved DEF OneThread
  <2>4. QED
    BY <1>1, <1>2, <2>1, <2>2, <2>3, EntriesStay
<1>7. CASE Delivered(th)
  <2>1. /\ notes # << >> /\ Handled(Head(notes)) /\ todo'[th] = Tail(notes)
        /\ UNCHANGED <<chain, pool>>
    BY <1>1, <1>7 DEF Delivered, TypeOK
  <2>2. Len(Tail(notes)) = Len(notes) - 1 /\ Len(notes) \in Nat \ {0}
        /\ \A i \in 1..Len(Tail(notes)) : i + 1 \in 1..Len(notes) /\ Tail(notes)[i] = notes[i + 1]
    BY <1>1, <2>1
  <2>3. \A i \in 1..Len(Tail(notes)) : Tail(notes)[i].op # "connect"
    BY <2>2 DEF OneThread, LastConnected
  <2>4. LastConnected(todo'[th], chain)
    BY <2>1, <2>3 DEF LastConnected
  <2>5. Awaited(notes) = {}
    BY <2>1 DEF Awaited
  <2>6. QED
    BY <1>1, <1>2, <2>1, <2>4, <2>5, EntriesStay
<1>8. ASSUME NEW b \in Blocks, Connect(th, b) PROVE OneThread(th)'
  <2> DEFINE note == Note("connect", b, Len(chain) + 1)
  <2>1. /\ notes = << >> /\ Connectable(b) /\ chain' = Append(chain, b)
        /\ todo'[th] = <<note>> /\ UNCHANGED pool
    BY <1>1, <1>8 DEF Connect, TypeOK
  <2>2. b \in Seq(Txs)
    BY LimitsAssumption DEF Blocks
  <2>3. ChainOK(chain)'
    BY <2>1, <2>2, ConnectedOK DEF OneThread
  <2>4. /\ Len(chain') = Len(chain) + 1 /\ Len(chain) \in Nat
        /\ chain'[Len(chain')] = b /\ chain' # << >>
        /\ \A h \in DOMAIN chain' : h = Len(chain') \/ (h \in DOMAIN chain /\ chain'[h] = chain[h])
    <3>1. chain \in Seq(Seq(Txs)) /\ b \in Seq(Txs) /\ chain' = Append(chain, b)
      BY <2>1, <2>2 DEF TypeOK
    <3>2. QED
      BY <3>1
  <2>5. Len(todo'[th]) = 1 /\ todo'[th][1].block = b /\ Head(todo'[th]) = note /\ todo'[th] # << >>
    BY <2>1 DEF Note
  <2>6. note.op = "connect" /\ note.block = b /\ note.next = 1
    BY DEF Note
  <2>7. LastConnected(todo[th], chain)'
    BY <2>4, <2>5 DEF LastConnected
  <2>8. BlockTxs(b) \subseteq Awaited(todo'[th])
    <3>1. CASE Handled(note)
      <4>1. DOMAIN b = {} /\ Len(b) \in Nat
        BY <2>2, <2>6, <3>1 DEF Handled
      <4>2. QED
        BY <4>1 DEF BlockTxs
    <3>2. CASE ~Handled(note)
      BY <2>5, <2>6, <3>2 DEF Awaited
    <3>3. QED
      BY <3>1, <3>2
  <2>9. Awaited(notes) = {}
    BY <2>1 DEF Awaited
  <2>10. ASSUME NEW t \in pool'.map, t \in Confirmed' PROVE t \in BlockTxs(b)
    <3>1. PICK h \in DOMAIN chain' : t \in BlockTxs(chain'[h])
      BY <2>10 DEF Confirmed, BlockTxs
    <3>2. t \notin Confirmed
      BY <2>1, <2>9, <2>10 DEF OneThread
    <3>3. ~(h \in DOMAIN chain /\ chain'[h] = chain[h])
      BY <3>1, <3>2, InChain
    <3>4. QED
      BY <3>1, <3>3, <2>4
  <2>11. QED
    BY <2>3, <2>7, <2>8, <2>10 DEF OneThread
<1>9. ASSUME NEW m \in 0..(Len(chain) - 1), Rewind(th, m) PROVE OneThread(th)'
  <2> DEFINE n == Len(chain) - m
             noteAt(i) == LET k == Len(chain) + 1 - i IN Note("disconnect", chain[k], k)
  <2>1. /\ notes = << >> /\ chain' = SubSeq(chain, 1, m)
        /\ todo'[th] = [i \in 1..n |-> noteAt(i)] /\ UNCHANGED pool
    BY <1>1, <1>9 DEF Rewind, TypeOK
  <2>2. ChainOK(chain)'
    BY <2>1, RewoundOK DEF OneThread, TypeOK
  <2>3. n \in Nat /\ m \in Nat /\ DOMAIN chain = 1..Len(chain) /\ Len(chain) \in Nat
    BY DEF TypeOK
  <2>4. \A i \in 1..n : noteAt(i).op = "disconnect"
    BY DEF Note
  <2> HIDE DEF noteAt
  <2>5. Len(todo'[th]) = n /\ \A i \in 1..n : todo'[th][i].op = "disconnect"
    BY <2>1, <2>3, <2>4
  <2>6. LastConnected(todo[th], chain)'
    BY <2>5 DEF LastConnected
  <2>7. Awaited(notes) = {}
    BY <2>1 DEF Awaited
  <2>8. ASSUME NEW t \in Confirmed' PROVE t \in Confirmed
    <3>1. PICK h \in DOMAIN chain' : t \in BlockTxs(chain'[h])
      BY <2>8 DEF Confirmed, BlockTxs
    <3>2. h \in DOMAIN chain /\ chain'[h] = chain[h]
      BY <2>1, <2>3, <3>1 DEF TypeOK
    <3>3. QED
      BY <3>1, <3>2, InChain
  <2>9. (pool.map \cap Confirmed = {})'
    BY <2>1, <2>7, <2>8 DEF OneThread
  <2>10. QED
    BY <2>2, <2>6, <2>9 DEF OneThread
<1>10. CASE Restart
  <2>1. pool'.map = {} /\ todo'[th] = << >> /\ UNCHANGED chain
    BY <1>1, <1>10 DEF Restart, EmptyPool
  <2>2. LastConnected(todo[th], chain)'
    BY <2>1 DEF LastConnected
  <2>3. QED
    BY <2>1, <2>2 DEF OneThread
<1>11. QED
  BY <1>4, <1>5, <1>6, <1>7, <1>8, <1>9, <1>10 DEF Next

\* With one caller of the chain no entry stays in the pool once it is in the chain and the
\* mempool has been told, whatever peers, RPC, miner and timer accept and evict in between.
\* (With two callers the notifications of two blocks may come in the other order.)
THEOREM NoneConfirmedCorrect ==
    ASSUME NEW th, Threads = {th}
    PROVE  Spec => []NoneConfirmed
<1>1. Init => OneThread(th)
  BY DEF Init, OneThread, ChainOK, LastConnected, EmptyPool
<1>2. TypeOK /\ TypeOK' /\ OneThread(th) /\ [Next]_vars => OneThread(th)'
  BY OneThreadStep
<1>3. TypeOK /\ OneThread(th) => NoneConfirmed
  BY DEF OneThread, NoneConfirmed, Awaited
<1>4. QED
  BY <1>1, <1>2, <1>3, TypeCorrect, PTL DEF Spec

-----------------------------------------------------------------------------
(* The mempool with a wallet that listens *)

\* The calls of the wallet take no part in a step of the mempool and the chain.
LEMMA WalletStep ==
    ASSUME WalletNext PROVE Next
<1>1. CASE \E t \in Txs : \/ \E V \in SUBSET pool.map : WalletAccept(t, V)
                          \/ WalletEvict(t)
                          \/ WalletExpire(t)
  <2>1. PICK t \in Txs : \/ \E V \in SUBSET pool.map : WalletAccept(t, V)
                         \/ WalletEvict(t)
                         \/ WalletExpire(t)
    BY <1>1
  <2>2. (\E V \in SUBSET pool.map : Accept(t, V)) \/ Evict(t)
    BY <2>1 DEF WalletAccept, WalletEvict, WalletExpire
  <2> QED
    BY <2>2 DEF Next
<1>2. ASSUME NEW th \in Threads,
             \/ WalletRemoveBlock(th)
             \/ \E V \in SUBSET pool.map : WalletAddBlockTx(th, V)
             \/ WalletDelivered(th)
             \/ SkipBlockTx(th)
             \/ \E b \in Blocks : Connect(th, b)
             \/ \E h \in 0..(Len(chain) - 1) : Rewind(th, h)
      PROVE  Next
  BY <1>2 DEF Next, WalletRemoveBlock, WalletAddBlockTx, WalletDelivered
<1>3. CASE WalletRestart
  BY <1>3 DEF Next, WalletRestart
<1> QED
  BY <1>1, <1>2, <1>3 DEF WalletNext

\* Every behaviour of the mempool and the chain with a wallet is one of the mempool
\* and the chain (WalletIndexing.swift only writes to the databases of the wallet).
THEOREM WalletListens == WalletSpec => Spec
<1>1. WalletInit => Init
  BY DEF WalletInit
<1>2. [WalletNext]_allVars => [Next]_vars
  BY WalletStep DEF allVars
<1> QED
  BY <1>1, <1>2, PTL DEF WalletSpec, Spec

\* With a wallet next to it, the index of spent outputs is exact.
THEOREM SpentsWithWallet == WalletSpec => []SpentsExact
  BY WalletListens, SpentsCorrect, PTL

\* With a wallet next to it, the contract state is that of the entries.
THEOREM NamesWithWallet == WalletSpec => []NamesExact
  BY WalletListens, NamesCorrect, PTL

\* With a wallet next to it, the miner recovers from whatever the chain did.
THEOREM MinerRepairsWithWallet == WalletSpec => []MinerRepairs
  BY WalletListens, MinerRepairsCorrect, PTL

\* With a wallet next to it and one caller of the chain, no entry stays in the pool once it
\* is in the chain and the mempool has been told.
THEOREM NoneConfirmedWithWallet ==
    ASSUME NEW th, Threads = {th}
    PROVE  WalletSpec => []NoneConfirmed
  BY WalletListens, NoneConfirmedCorrect, PTL

-----------------------------------------------------------------------------
(* Types of the wallet *)

CoinMaps == UNION {[D -> Int] : D \in SUBSET Mine}
Undos == UNION {[D -> CoinMaps] : D \in SUBSET Nat}
Wallets == [coins : CoinMaps, undo : Undos, scanned : Seq(Seq(Txs))]

\* Undo data exists only of blocks that are indexed.
WalletTyped(w) == w \in Wallets /\ DOMAIN w.undo \subseteq 1..Len(w.scanned)

LEMMA CoinMapFacts ==
    ASSUME NEW cs \in CoinMaps
    PROVE  /\ cs \in [DOMAIN cs -> Int] /\ DOMAIN cs \subseteq Mine
           /\ \A o \in DOMAIN cs : cs[o] \in Int
BY DEF CoinMaps

LEMMA CoinMapMade ==
    ASSUME NEW D \in SUBSET Mine, NEW cs \in [D -> Int]
    PROVE  cs \in CoinMaps
BY DEF CoinMaps

LEMMA MarkTyped ==
    ASSUME NEW h \in Int PROVE Mark(h) \in Int /\ Unmark(h) \in Int
BY DEF Mark, Unmark, Int32Min

LEMMA IndexedTyped ==
    ASSUME NEW cs \in CoinMaps, NEW t
    PROVE  Indexed(cs, t) \in CoinMaps
<1> DEFINE new == (OutputsOf({t}) \cap Mine) \ DOMAIN cs
           D == DOMAIN cs \cup new
           value(o) == IF o \in new THEN -1 ELSE IF o \in Inputs[t] THEN Mark(cs[o]) ELSE cs[o]
<1>1. D \in SUBSET Mine
  BY CoinMapFacts
<1>2. ASSUME NEW o \in D PROVE value(o) \in Int
  BY CoinMapFacts, MarkTyped
<1> HIDE DEF D, value
<1>3. [o \in D |-> value(o)] \in [D -> Int]
  BY <1>2
<1>4. QED
  BY <1>1, <1>3, CoinMapMade DEF Indexed, D, value

LEMMA UnindexedTyped ==
    ASSUME NEW cs \in CoinMaps, NEW R
    PROVE  Unindexed(cs, R) \in CoinMaps
<1> DEFINE D == {o \in DOMAIN cs : ~(o[1] \in R /\ cs[o] = -1)}
           value(o) == IF o \in InputsOf(R) /\ IsMarked(cs[o]) THEN Unmark(cs[o]) ELSE cs[o]
<1>1. D \in SUBSET Mine
  BY CoinMapFacts
<1>2. ASSUME NEW o \in D PROVE value(o) \in Int
  BY CoinMapFacts, MarkTyped
<1> HIDE DEF D, value
<1>3. [o \in D |-> value(o)] \in [D -> Int]
  BY <1>2
<1>4. QED
  BY <1>1, <1>3, CoinMapMade DEF Unindexed, D, value

LEMMA PurgedTyped ==
    ASSUME NEW cs \in CoinMaps
    PROVE  Purged(cs) \in CoinMaps
<1> DEFINE D == {o \in DOMAIN cs : cs[o] # -1 /\ cs[o] # Int32Min}
           value(o) == IF IsMarked(cs[o]) THEN Unmark(cs[o]) ELSE cs[o]
<1>1. D \in SUBSET Mine
  BY CoinMapFacts
<1>2. ASSUME NEW o \in D PROVE value(o) \in Int
  BY CoinMapFacts, MarkTyped
<1> HIDE DEF D, value
<1>3. [o \in D |-> value(o)] \in [D -> Int]
  BY <1>2
<1>4. QED
  BY <1>1, <1>3, CoinMapMade DEF Purged, D, value

LEMMA UndoFacts ==
    ASSUME NEW u \in Undos
    PROVE  /\ u \in [DOMAIN u -> CoinMaps] /\ DOMAIN u \subseteq Nat
           /\ \A k \in DOMAIN u : u[k] \in CoinMaps
BY DEF Undos

LEMMA UndoMade ==
    ASSUME NEW D \in SUBSET Nat, NEW u \in [D -> CoinMaps]
    PROVE  u \in Undos
BY DEF Undos

LEMMA WalletFields ==
    ASSUME NEW w, WalletTyped(w)
    PROVE  /\ w.coins \in CoinMaps /\ w.undo \in Undos /\ w.scanned \in Seq(Seq(Txs))
           /\ DOMAIN w.undo \subseteq 1..Len(w.scanned) /\ Len(w.scanned) \in Nat
BY DEF WalletTyped, Wallets

LEMMA WalletMade ==
    ASSUME NEW cs \in CoinMaps, NEW u \in Undos, NEW s \in Seq(Seq(Txs)),
           DOMAIN u \subseteq 1..Len(s)
    PROVE  WalletTyped([coins |-> cs, undo |-> u, scanned |-> s])
<1>1. [coins |-> cs, undo |-> u, scanned |-> s] \in Wallets
  BY Zenon DEF Wallets
<1>2. QED
  BY <1>1 DEF WalletTyped

\* What indexBlock and unindexBlock make of a wallet, field by field.
LEMMA IndexBlockFields ==
    ASSUME NEW w, WalletTyped(w), NEW b \in Seq(Txs), NEW h \in Nat, h = Len(w.scanned) + 1,
           NEW v, v = IndexBlock(w, b, h)
    PROVE  /\ WalletTyped(v) /\ v.scanned = Append(w.scanned, b)
           /\ DOMAIN v.coins = (DOMAIN w.coins \cup (OutputsOf(BlockTxs(b)) \cap Mine)) \ SpentBy(w, b)
           /\ \A o \in DOMAIN v.coins :
                v.coins[o] = IF o \in OutputsOf(BlockTxs(b)) \cap Mine THEN h ELSE w.coins[o]
           /\ \A k \in 1..Len(w.scanned) : /\ k \in DOMAIN w.undo <=> k \in DOMAIN v.undo
                                           /\ k \in DOMAIN w.undo => v.undo[k] = w.undo[k]
           /\ \A o \in SpentBy(w, b) :
                /\ h \in DOMAIN v.undo /\ o \in DOMAIN v.undo[h]
                /\ o \in DOMAIN w.coins => v.undo[h][o] = w.coins[o]
           /\ h \in DOMAIN v.undo => DOMAIN v.undo[h] = SpentBy(w, b)
<1> DEFINE created == OutputsOf(BlockTxs(b)) \cap Mine
           spent == SpentBy(w, b)
           D == (DOMAIN w.coins \cup created) \ spent
           value(o) == IF o \in created THEN h ELSE w.coins[o]
           cs == [o \in D |-> value(o)]
           before == [o \in spent |-> IF o \in DOMAIN w.coins THEN w.coins[o] ELSE h]
           E == DOMAIN w.undo \cup {h}
           undone == [k \in E |-> IF k = h THEN before ELSE w.undo[k]]
           u == IF spent = {} THEN w.undo ELSE undone
<1>1. /\ w.coins \in CoinMaps /\ w.undo \in Undos /\ w.scanned \in Seq(Seq(Txs))
      /\ DOMAIN w.undo \subseteq 1..Len(w.scanned) /\ Len(w.scanned) \in Nat
  BY WalletFields
<1>2. DOMAIN w.coins \subseteq Mine /\ \A o \in DOMAIN w.coins : w.coins[o] \in Int
  BY <1>1, CoinMapFacts
<1>3. v = [coins |-> cs, undo |-> u, scanned |-> Append(w.scanned, b)]
  BY DEF IndexBlock
<1>4. cs \in CoinMaps
  <2>1. D \in SUBSET Mine
    BY <1>2
  <2>2. ASSUME NEW o \in D PROVE value(o) \in Int
    BY <1>2
  <2> HIDE DEF D, value
  <2>3. cs \in [D -> Int]
    BY <2>2
  <2>4. QED
    BY <2>1, <2>3, CoinMapMade
<1>5. before \in CoinMaps
  <2>1. spent \in SUBSET Mine
    BY <1>2 DEF SpentBy
  <2>2. \A o \in spent : (IF o \in DOMAIN w.coins THEN w.coins[o] ELSE h) \in Int
    BY <1>2
  <2> HIDE DEF spent
  <2>3. before \in [spent -> Int]
    BY <2>2
  <2>4. QED
    BY <2>1, <2>3, CoinMapMade
<1>6. undone \in Undos /\ E \subseteq 1..(Len(w.scanned) + 1)
  <2>1. E \in SUBSET Nat /\ E \subseteq 1..(Len(w.scanned) + 1)
    BY <1>1
  <2>2. \A k \in E : (IF k = h THEN before ELSE w.undo[k]) \in CoinMaps
    BY <1>1, <1>5, UndoFacts
  <2> HIDE DEF E, before
  <2>3. undone \in [E -> CoinMaps]
    BY <2>2
  <2>4. QED
    BY <2>1, <2>3, UndoMade
<1>7. u \in Undos /\ DOMAIN u \subseteq 1..(Len(w.scanned) + 1)
  BY <1>1, <1>6
<1>8. Append(w.scanned, b) \in Seq(Seq(Txs)) /\ Len(Append(w.scanned, b)) = Len(w.scanned) + 1
  BY <1>1
<1>9. WalletTyped(v)
  <2> HIDE DEF cs, u
  <2>1. QED
    BY <1>3, <1>4, <1>7, <1>8, WalletMade
<1>10. /\ \A k \in 1..Len(w.scanned) : /\ k \in DOMAIN w.undo <=> k \in DOMAIN u
                                       /\ k \in DOMAIN w.undo => u[k] = w.undo[k]
       /\ \A o \in spent : /\ h \in DOMAIN u /\ o \in DOMAIN u[h]
                           /\ o \in DOMAIN w.coins => u[h][o] = w.coins[o]
       /\ h \in DOMAIN u => DOMAIN u[h] = spent
  <2>1. h \notin DOMAIN w.undo /\ \A k \in 1..Len(w.scanned) : k # h
    BY <1>1
  <2> HIDE DEF spent
  <2>2. CASE spent = {}
    BY <2>1, <2>2
  <2>3. CASE spent # {}
    <3>1. u = undone
      BY <2>3
    <3> HIDE DEF u
    <3>2. QED
      BY <2>1, <3>1
  <2>4. QED
    BY <2>2, <2>3
<1>11. DOMAIN cs = D /\ \A o \in D : cs[o] = value(o)
  OBVIOUS
<1>12. v.coins = cs /\ v.undo = u /\ v.scanned = Append(w.scanned, b)
  BY <1>3
<1> HIDE DEF cs, u, D, value
<1>13. QED
  BY <1>9, <1>10, <1>11, <1>12 DEF D, value

LEMMA UnindexBlockFields ==
    ASSUME NEW w, WalletTyped(w), NEW b \in Seq(Txs), NEW h \in Nat, h = Len(w.scanned),
           NEW v, v = UnindexBlock(w, b, h)
    PROVE  /\ WalletTyped(v) /\ v.scanned = SubSeq(w.scanned, 1, h - 1)
           /\ \A o \in DOMAIN w.coins :
                o \notin OutputsOf(BlockTxs(b)) /\ (h \in DOMAIN w.undo => o \notin DOMAIN w.undo[h]) =>
                    o \in DOMAIN v.coins /\ v.coins[o] = w.coins[o]
           /\ h \in DOMAIN w.undo => \A o \in DOMAIN w.undo[h] :
                o \in DOMAIN v.coins /\ v.coins[o] = w.undo[h][o]
           /\ \A k \in 1..(h - 1) : /\ k \in DOMAIN w.undo <=> k \in DOMAIN v.undo
                                    /\ k \in DOMAIN w.undo => v.undo[k] = w.undo[k]
<1> DEFINE back == IF h \in DOMAIN w.undo THEN w.undo[h] ELSE [o \in {} |-> h]
           kept == DOMAIN w.coins \ (OutputsOf(BlockTxs(b)) \cap Mine)
           D == kept \cup DOMAIN back
           value(o) == IF o \in DOMAIN back THEN back[o] ELSE w.coins[o]
           cs == [o \in D |-> value(o)]
           E == DOMAIN w.undo \ {h}
           u == [k \in E |-> w.undo[k]]
<1>1. /\ w.coins \in CoinMaps /\ w.undo \in Undos /\ w.scanned \in Seq(Seq(Txs))
      /\ DOMAIN w.undo \subseteq 1..Len(w.scanned) /\ Len(w.scanned) \in Nat
  BY WalletFields
<1>2. DOMAIN w.coins \subseteq Mine /\ \A o \in DOMAIN w.coins : w.coins[o] \in Int
  BY <1>1, CoinMapFacts
<1>3. v = [coins |-> cs, undo |-> u, scanned |-> Front(w.scanned)]
  BY DEF UnindexBlock
<1>4. back \in CoinMaps
  <2>1. CASE h \in DOMAIN w.undo
    BY <2>1, <1>1, UndoFacts
  <2>2. CASE h \notin DOMAIN w.undo
    <3>1. [o \in {} |-> h] \in [{} -> Int]
      OBVIOUS
    <3>2. QED
      BY <2>2, <3>1, CoinMapMade
  <2>3. QED
    BY <2>1, <2>2
<1>5. DOMAIN back \subseteq Mine /\ \A o \in DOMAIN back : back[o] \in Int
  BY <1>4, CoinMapFacts
<1>6. h \in DOMAIN w.undo => back = w.undo[h]
  OBVIOUS
<1>7. h \notin DOMAIN w.undo => DOMAIN back = {}
  OBVIOUS
<1> HIDE DEF back
<1>8. cs \in CoinMaps
  <2>1. D \in SUBSET Mine
    BY <1>2, <1>5
  <2>2. ASSUME NEW o \in D PROVE value(o) \in Int
    BY <1>2, <1>5
  <2> HIDE DEF D, value
  <2>3. cs \in [D -> Int]
    BY <2>2
  <2>4. QED
    BY <2>1, <2>3, CoinMapMade
<1>9. Front(w.scanned) = SubSeq(w.scanned, 1, h - 1)
  BY DEF Front
<1>10. /\ SubSeq(w.scanned, 1, h - 1) \in Seq(Seq(Txs))
       /\ 1..Len(SubSeq(w.scanned, 1, h - 1)) = 1..(h - 1)
  BY <1>1
<1>11. u \in Undos /\ DOMAIN u = E /\ E \subseteq 1..(h - 1)
  <2>1. E \in SUBSET Nat /\ E \subseteq 1..(h - 1)
    BY <1>1
  <2>2. \A k \in E : w.undo[k] \in CoinMaps
    BY <1>1, UndoFacts
  <2> HIDE DEF E
  <2>3. u \in [E -> CoinMaps]
    BY <2>2
  <2>4. QED
    BY <2>1, <2>3, UndoMade
<1>12. WalletTyped(v)
  <2> HIDE DEF cs, u
  <2>1. DOMAIN u \subseteq 1..Len(SubSeq(w.scanned, 1, h - 1))
    BY <1>10, <1>11
  <2>2. WalletTyped([coins |-> cs, undo |-> u, scanned |-> SubSeq(w.scanned, 1, h - 1)])
    BY <1>8, <1>10, <1>11, <2>1, WalletMade
  <2>3. QED
    BY <1>3, <1>9, <2>2
<1>13. ASSUME NEW k \in 1..(h - 1)
       PROVE  /\ k \in DOMAIN w.undo <=> k \in DOMAIN u
              /\ k \in DOMAIN w.undo => u[k] = w.undo[k]
  <2>1. k \in E <=> k \in DOMAIN w.undo
    OBVIOUS
  <2>2. \A j \in E : u[j] = w.undo[j]
    OBVIOUS
  <2> HIDE DEF E, u
  <2>3. QED
    BY <1>11, <2>1, <2>2
<1>14. DOMAIN cs = D /\ \A o \in D : cs[o] = value(o)
  OBVIOUS
<1>15. v.coins = cs /\ v.undo = u /\ v.scanned = SubSeq(w.scanned, 1, h - 1)
  BY <1>3, <1>9
<1> HIDE DEF cs, u
<1>16. ASSUME NEW o \in DOMAIN w.coins, o \notin OutputsOf(BlockTxs(b)),
              h \in DOMAIN w.undo => o \notin DOMAIN w.undo[h]
       PROVE  o \in DOMAIN v.coins /\ v.coins[o] = w.coins[o]
  <2>1. o \in kept /\ o \notin DOMAIN back
    BY <1>6, <1>7, <1>16
  <2>2. QED
    BY <2>1, <1>14, <1>15
<1>17. ASSUME h \in DOMAIN w.undo, NEW o \in DOMAIN w.undo[h]
       PROVE  o \in DOMAIN v.coins /\ v.coins[o] = w.undo[h][o]
  <2>1. o \in DOMAIN back /\ back = w.undo[h]
    BY <1>6, <1>17
  <2>2. QED
    BY <2>1, <1>14, <1>15
<1> HIDE DEF D, value, kept, E
<1>18. QED
  BY <1>12, <1>13, <1>15, <1>16, <1>17

-----------------------------------------------------------------------------
(* The loops *)

\* What every eviction keeps is kept by all that evictByFeeRate makes.
LEMMA EvictedStays ==
    ASSUME NEW V, IsFiniteSet(V), NEW C, coins \in C,
           \A cs \in C : \A R : Unindexed(cs, R) \in C
    PROVE  Evicted(V) \in C
<1> DEFINE N == Cardinality(V)
           left(i) == Gone(LowestOf(V, i)) \ Gone(LowestOf(V, i - 1))
           W == [i \in 0..N |-> C]
           G == [i \in 1..N |-> [cs \in C |-> Unindexed(cs, left(i))]]
           Body(f) == [i \in 0..N |-> IF i = 0 THEN coins ELSE Unindexed(f[i - 1], left(i))]
           run == CHOOSE f : f = Body(f)
<1>1. N \in Nat
  BY FS_CardinalityType
<1> HIDE DEF N, left
<1>2. coins \in W[0]
  BY <1>1
<1>3. MapsOn(N, W, G)
  <2> SUFFICES ASSUME NEW i \in 1..N PROVE G[i] \in [W[i - 1] -> W[i]]
    BY DEF MapsOn
  <2>1. i \in 0..N /\ i - 1 \in 0..N
    BY <1>1
  <2>2. W[i] = C /\ W[i - 1] = C
    BY <2>1
  <2>3. \A cs \in C : Unindexed(cs, left(i)) \in C
    OBVIOUS
  <2> HIDE DEF W
  <2>4. QED
    BY <2>2, <2>3
<1>4. PICK g : Iterates(g, N, W, coins, G)
  <2> HIDE DEF W, G
  <2>1. QED
    BY <1>1, <1>2, <1>3, IterationExists
<1>5. g = Body(g)
  <2>1. ASSUME NEW i \in 1..N PROVE g[i] = Unindexed(g[i - 1], left(i))
    <3>1. i - 1 \in 0..N
      BY <1>1
    <3>2. g[i - 1] \in C
      BY <3>1, <1>4 DEF Iterates
    <3>3. QED
      BY <3>2, <1>4 DEF Iterates
  <2>2. \A i \in 0..N : i # 0 => i \in 1..N
    BY <1>1
  <2>3. QED
    BY <1>4, <2>1, <2>2 DEF Iterates
<1>6. run = Body(run)
  <2> HIDE DEF Body
  <2>1. QED
    BY <1>5
<1>7. Evicted(V) = run[N]
  BY DEF Evicted, N, left
<1> HIDE DEF run
<1>8. \A i \in 0..N : run[i] = IF i = 0 THEN coins ELSE Unindexed(run[i - 1], left(i))
  BY <1>6
<1> DEFINE S == {i \in 0..N : run[i] \in C}
<1>9. 0 \in S
  BY <1>1, <1>8
<1>10. ASSUME NEW i \in 1..N, i - 1 \in S PROVE i \in S
  <2>1. i \in 0..N /\ i # 0
    BY <1>1
  <2>2. run[i] = Unindexed(run[i - 1], left(i))
    BY <1>8, <2>1
  <2>3. QED
    BY <1>10, <2>1, <2>2
<1>11. 0..N \subseteq S
  <2> HIDE DEF S
  <2>1. QED
    BY <1>1, <1>9, <1>10, SetInduction
<1>12. N \in S
  <2> HIDE DEF S
  <2>1. QED
    BY <1>1, <1>11
<1>13. QED
  BY <1>7, <1>12

\* What every block given to the wallet keeps is kept by all that a start gives it.
LEMMA CatchUpStays ==
    ASSUME WalletRestart, Missed \in Nat, NEW V,
           [WalletNow EXCEPT !.coins = Purged(coins)] \in V[0],
           \A i \in 1..Missed : \A w \in V[i - 1] :
              IndexBlock(w, chain[Len(scanned) + i], Len(scanned) + i) \in V[i]
    PROVE  \E w \in V[Missed] : WalletBecomes(w)
<1> DEFINE N == Missed
           base == [WalletNow EXCEPT !.coins = Purged(coins)]
           with(i, w) == IndexBlock(w, chain[Len(scanned) + i], Len(scanned) + i)
           G == [i \in 1..N |-> [w \in V[i - 1] |-> with(i, w)]]
           Body(f) == [i \in 0..N |-> IF i = 0 THEN base ELSE with(i, f[i - 1])]
           run == CHOOSE f : f = Body(f)
<1>1. WalletBecomes(run[N])
  BY DEF WalletRestart
<1> HIDE DEF N, with, base
<1>2. N \in Nat /\ base \in V[0] /\ \A i \in 1..N : \A w \in V[i - 1] : with(i, w) \in V[i]
  BY DEF N, with, base
<1>3. MapsOn(N, V, G)
  <2> SUFFICES ASSUME NEW i \in 1..N PROVE G[i] \in [V[i - 1] -> V[i]]
    BY DEF MapsOn
  <2>1. QED
    BY <1>2
<1>4. PICK g : Iterates(g, N, V, base, G)
  <2> HIDE DEF G
  <2>1. QED
    BY <1>2, <1>3, IterationExists
<1>5. g = Body(g)
  <2>1. ASSUME NEW i \in 1..N PROVE g[i] = with(i, g[i - 1])
    <3>1. i - 1 \in 0..N
      BY <1>2
    <3>2. g[i - 1] \in V[i - 1]
      BY <3>1, <1>4 DEF Iterates
    <3>3. QED
      BY <3>2, <1>4 DEF Iterates
  <2>2. \A i \in 0..N : i # 0 => i \in 1..N
    BY <1>2
  <2>3. QED
    BY <1>4, <2>1, <2>2 DEF Iterates
<1>6. run = Body(run)
  <2> HIDE DEF Body
  <2>1. QED
    BY <1>5
<1> HIDE DEF run
<1>7. \A i \in 0..N : run[i] = IF i = 0 THEN base ELSE with(i, run[i - 1])
  BY <1>6
<1> DEFINE S == {i \in 0..N : run[i] \in V[i]}
<1>8. 0 \in S
  BY <1>2, <1>7
<1>9. ASSUME NEW i \in 1..N, i - 1 \in S PROVE i \in S
  <2>1. i \in 0..N /\ i # 0
    BY <1>2
  <2>2. run[i] = with(i, run[i - 1])
    BY <1>7, <2>1
  <2>3. QED
    BY <1>2, <1>9, <2>1, <2>2
<1>10. 0..N \subseteq S
  <2> HIDE DEF S
  <2>1. QED
    BY <1>2, <1>8, <1>9, SetInduction
<1>11. N \in S
  <2> HIDE DEF S
  <2>1. QED
    BY <1>2, <1>10
<1>12. run[Missed] \in V[Missed]
  BY <1>11 DEF N
<1>13. WalletBecomes(run[Missed])
  BY <1>1 DEF N
<1>14. QED
  BY <1>12, <1>13

-----------------------------------------------------------------------------
(* The steps of the wallet *)

\* What a step does to the wallet: the mempool changes its coins, while the head of the
\* notifications may move on, or the chain changes, or the wallet is given blocks.
LEMMA CoinStep ==
    ASSUME TypeOK, [WalletNext]_allVars
    PROVE  \/ /\ UNCHANGED <<chain, undo, scanned, astray>>
              /\ \/ todo' = todo
                 \/ \E th \in Threads : \E op, n : Proceed(th, op, n)
              /\ \/ coins' = coins
                 \/ \E V \in SUBSET pool.map : \E t \in Txs : coins' = Indexed(Evicted(V), t)
                 \/ \E R : coins' = Unindexed(coins, R)
           \/ /\ UNCHANGED walletVars
              /\ \E th \in Threads : \/ \E b \in Blocks : Connect(th, b)
                                     \/ \E h \in 0..(Len(chain) - 1) : Rewind(th, h)
           \/ \E th \in Threads : WalletDelivered(th)
           \/ WalletRestart
<1>1. CASE UNCHANGED allVars
  BY <1>1 DEF allVars, walletVars, vars
<1>2. ASSUME NEW t \in Txs, NEW V \in SUBSET pool.map, WalletAccept(t, V)
      PROVE  UNCHANGED <<chain, todo, undo, scanned, astray>> /\ coins' = Indexed(Evicted(V), t)
  BY <1>2 DEF WalletAccept, Accept
<1>3. ASSUME NEW t \in Txs, WalletEvict(t)
      PROVE  /\ UNCHANGED <<chain, todo, undo, scanned, astray>>
             /\ coins' = Unindexed(coins, Gone({t}))
  BY <1>3 DEF WalletEvict, Evict
<1>4. ASSUME NEW th \in Threads, WalletRemoveBlock(th)
      PROVE  /\ UNCHANGED <<chain, undo, scanned, astray>> /\ \E op, n : Proceed(th, op, n)
             /\ \E R : coins' = Unindexed(coins, R)
  BY <1>4 DEF WalletRemoveBlock, RemoveBlock
<1>5. ASSUME NEW th \in Threads, NEW V \in SUBSET pool.map, WalletAddBlockTx(th, V)
      PROVE  /\ UNCHANGED <<chain, undo, scanned, astray>> /\ \E op, n : Proceed(th, op, n)
             /\ \E t \in Txs : coins' = Indexed(Evicted(V), t)
  <2>1. /\ todo[th] # << >> /\ ~Handled(Head(todo[th])) /\ UNCHANGED <<chain, undo, scanned, astray>>
        /\ coins' = Indexed(Evicted(V), Head(todo[th]).block[Head(todo[th]).next])
        /\ \E op, n : Proceed(th, op, n)
    BY <1>5 DEF WalletAddBlockTx, AddBlockTx, Proceed
  <2>2. QED
    BY <2>1, HeadNote
<1>6. ASSUME NEW t \in Txs, WalletExpire(t)
      PROVE  UNCHANGED walletVars /\ UNCHANGED <<chain, todo>>
  BY <1>6 DEF WalletExpire, Evict
<1>7. ASSUME NEW th \in Threads, SkipBlockTx(th), UNCHANGED walletVars
      PROVE  /\ UNCHANGED <<chain, coins, undo, scanned, astray>>
             /\ \E op, n : Proceed(th, op, n)
  BY <1>7 DEF SkipBlockTx, walletVars
<1>8. QED
  BY <1>1, <1>2, <1>3, <1>4, <1>5, <1>6, <1>7 DEF WalletNext, walletVars

\* The pool is finite, so that the evictions that make room come to an end.
LEMMA PoolFinite ==
    ASSUME TypeOK, [Next]_vars, IsFiniteSet(pool.map)
    PROVE  IsFiniteSet(pool.map)'
<1>1. ASSUME NEW V PROVE IsFiniteSet(Without(pool, Gone(V)).map)
  <2>1. Without(pool, Gone(V)).map \subseteq pool.map
    BY DEF Without
  <2>2. QED
    BY <2>1, FS_Subset
<1>2. ASSUME NEW V, NEW t PROVE IsFiniteSet(Added(Without(pool, Gone(V)), t).map)
  <2>1. Added(Without(pool, Gone(V)), t).map = Without(pool, Gone(V)).map \cup {t}
    BY DEF Added
  <2>2. QED
    BY <1>1, <2>1, FS_AddElement
<1>3. IsFiniteSet(EmptyPool.map)
  BY FS_EmptySet DEF EmptyPool
<1>4. QED
  BY <1>1, <1>2, <1>3, PoolStep

\* The wallet that starts has heights only, and so has what it catches up with.
LEMMA RestartTyped ==
    ASSUME TypeOK, WalletTyped(WalletNow), WalletRestart
    PROVE  WalletTyped(WalletNow)'
<1> DEFINE k == Len(scanned)
           V == [i \in 0..Missed |-> {w \in Wallets : WalletTyped(w) /\ Len(w.scanned) = k + i}]
<1>1. /\ coins \in CoinMaps /\ undo \in Undos /\ scanned \in Seq(Seq(Txs))
      /\ DOMAIN undo \subseteq 1..k /\ k \in Nat /\ chain \in Seq(Seq(Txs)) /\ Len(chain) \in Nat
  BY WalletFields DEF WalletNow, TypeOK
<1>2. Missed \in Nat /\ (Missed > 0 => k + Missed = Len(chain))
  BY <1>1, WalletAssumption DEF Missed
<1>3. [WalletNow EXCEPT !.coins = Purged(coins)] \in V[0]
  <2>1. [WalletNow EXCEPT !.coins = Purged(coins)] = [coins |-> Purged(coins), undo |-> undo, scanned |-> scanned]
    BY DEF WalletNow
  <2>2. WalletTyped([coins |-> Purged(coins), undo |-> undo, scanned |-> scanned])
    BY <1>1, PurgedTyped, WalletMade
  <2>3. 0 \in 0..Missed /\ k + 0 = k
    BY <1>1, <1>2
  <2>4. QED
    BY <2>1, <2>2, <2>3 DEF WalletTyped
<1>4. ASSUME NEW i \in 1..Missed, NEW w \in V[i - 1]
      PROVE  IndexBlock(w, chain[k + i], k + i) \in V[i]
  <2>1. i - 1 \in 0..Missed /\ i \in 0..Missed /\ k + (i - 1) + 1 = k + i /\ k + i \in Nat
        /\ k + i \in 1..Len(chain)
    BY <1>1, <1>2
  <2>2. WalletTyped(w) /\ k + i = Len(w.scanned) + 1 /\ Len(w.scanned) \in Nat
    BY <2>1
  <2>3. chain[k + i] \in Seq(Txs)
    BY <1>1, <2>1
  <2> DEFINE v == IndexBlock(w, chain[k + i], k + i)
  <2>4. WalletTyped(v) /\ v.scanned = Append(w.scanned, chain[k + i])
    BY <2>1, <2>2, <2>3, IndexBlockFields
  <2> HIDE DEF v
  <2>5. Len(v.scanned) = k + i
    BY <2>2, <2>3, <2>4, WalletFields
  <2>6. v \in V[i]
    BY <2>1, <2>4, <2>5 DEF WalletTyped
  <2>7. QED
    BY <2>6 DEF v
<1> HIDE DEF V
<1>5. PICK w \in V[Missed] : WalletBecomes(w)
  BY <1>2, <1>3, <1>4, CatchUpStays
<1>6. WalletTyped(w)
  BY <1>2, <1>5 DEF V
<1>7. coins' = w.coins /\ undo' = w.undo /\ scanned' = w.scanned
  BY <1>5 DEF WalletBecomes
<1>8. WalletTyped([coins |-> coins', undo |-> undo', scanned |-> scanned'])
  BY <1>6, <1>7, WalletFields, WalletMade
<1>9. QED
  BY <1>8 DEF WalletNow

\* What a step makes of a wallet that has the right type.
LEMMA WalletStepTyped ==
    ASSUME TypeOK, IsFiniteSet(pool.map), WalletTyped(WalletNow), astray \in BOOLEAN,
           [WalletNext]_allVars
    PROVE  WalletTyped(WalletNow)' /\ astray' \in BOOLEAN
<1>1. /\ coins \in CoinMaps /\ undo \in Undos /\ scanned \in Seq(Seq(Txs))
      /\ DOMAIN undo \subseteq 1..Len(scanned) /\ Len(scanned) \in Nat
  BY WalletFields DEF WalletNow
<1>2. CASE UNCHANGED walletVars
  BY <1>2 DEF walletVars, WalletNow
<1>3. ASSUME UNCHANGED <<undo, scanned, astray>>, coins' \in CoinMaps
      PROVE  WalletTyped(WalletNow)' /\ astray' \in BOOLEAN
  <2>1. WalletTyped([coins |-> coins', undo |-> undo', scanned |-> scanned'])
    BY <1>1, <1>3, WalletMade
  <2>2. QED
    BY <1>3, <2>1 DEF WalletNow
<1>4. ASSUME NEW V \in SUBSET pool.map, NEW t PROVE Indexed(Evicted(V), t) \in CoinMaps
  <2>1. IsFiniteSet(V)
    BY FS_Subset
  <2>2. Evicted(V) \in CoinMaps
    BY <1>1, <2>1, UnindexedTyped, EvictedStays
  <2>3. QED
    BY <2>2, IndexedTyped
<1>5. ASSUME NEW R PROVE Unindexed(coins, R) \in CoinMaps
  BY <1>1, UnindexedTyped
<1>6. ASSUME NEW th \in Threads, WalletDelivered(th)
      PROVE  WalletTyped(WalletNow)' /\ astray' \in BOOLEAN
  <2> DEFINE note == Head(todo[th])
             w == IF note.op = "connect" THEN IndexBlock(WalletNow, note.block, note.height)
                  ELSE UnindexBlock(WalletNow, note.block, note.height)
  <2>1. todo[th] # << >> /\ WalletBecomes(w) /\ UNCHANGED astray
    BY <1>6 DEF WalletDelivered, Delivered
  <2>2. note.block \in Seq(Txs) /\ note.height \in Nat
    BY <2>1, HeadNote DEF Notes
  <2> HIDE DEF note
  <2>3. WalletTyped(IndexBlock(WalletNow, note.block, note.height))
    <3>1. CASE note.height = Len(WalletNow.scanned) + 1
      BY <2>2, <3>1, IndexBlockFields
    <3>2. CASE note.height # Len(WalletNow.scanned) + 1
      BY <3>2 DEF IndexBlock
    <3>3. QED
      BY <3>1, <3>2
  <2>4. WalletTyped(UnindexBlock(WalletNow, note.block, note.height))
    <3>1. CASE note.height = Len(WalletNow.scanned)
      BY <2>2, <3>1, UnindexBlockFields
    <3>2. CASE note.height # Len(WalletNow.scanned)
      BY <3>2 DEF UnindexBlock
    <3>3. QED
      BY <3>1, <3>2
  <2>5. WalletTyped(w)
    BY <2>3, <2>4
  <2> HIDE DEF w
  <2>6. coins' = w.coins /\ undo' = w.undo /\ scanned' = w.scanned
    BY <2>1 DEF WalletBecomes
  <2>7. WalletTyped([coins |-> coins', undo |-> undo', scanned |-> scanned'])
    BY <2>5, <2>6, WalletFields, WalletMade
  <2>8. QED
    BY <2>1, <2>7 DEF WalletNow
<1>7. ASSUME WalletRestart PROVE WalletTyped(WalletNow)' /\ astray' \in BOOLEAN
  <2>1. astray' \in BOOLEAN
    BY <1>7 DEF WalletRestart
  <2>2. QED
    BY <1>7, <2>1, RestartTyped
<1>8. QED
  BY <1>1, <1>2, <1>3, <1>4, <1>5, <1>6, <1>7, CoinStep

WalletShape == WalletTyped(WalletNow) /\ astray \in BOOLEAN /\ IsFiniteSet(pool.map)

LEMMA ShapeAtFirst == WalletInit => WalletShape
<1> SUFFICES ASSUME WalletInit PROVE WalletShape
  OBVIOUS
<1>1. coins = [o \in OutputsOf({Genesis}) \cap Mine |-> 0] /\ undo = [h \in {} |-> coins]
      /\ scanned = << >> /\ astray = FALSE /\ pool = EmptyPool
  BY DEF WalletInit, Init
<1>2. coins \in CoinMaps
  <2> DEFINE D == OutputsOf({Genesis}) \cap Mine
  <2>1. D \in SUBSET Mine
    OBVIOUS
  <2> HIDE DEF D
  <2>2. coins \in [D -> Int]
    BY <1>1 DEF D
  <2>3. QED
    BY <2>1, <2>2, CoinMapMade
<1>3. undo \in Undos /\ DOMAIN undo = {}
  <2>1. undo \in [{} -> CoinMaps]
    BY <1>1
  <2>2. QED
    BY <2>1, UndoMade
<1>4. scanned \in Seq(Seq(Txs))
  BY <1>1
<1>5. WalletTyped(WalletNow)
  BY <1>2, <1>3, <1>4, WalletMade DEF WalletNow
<1>6. IsFiniteSet(pool.map)
  BY <1>1, FS_EmptySet DEF EmptyPool
<1>7. QED
  BY <1>1, <1>5, <1>6 DEF WalletShape

LEMMA ShapeStays ==
    ASSUME TypeOK, WalletShape, [WalletNext]_allVars PROVE WalletShape'
<1>1. [Next]_vars
  BY WalletStep DEF allVars
<1>2. QED
  BY <1>1, PoolFinite, WalletStepTyped DEF WalletShape

LEMMA ShapeCorrect == WalletSpec => []WalletShape
<1>1. TypeOK /\ WalletShape /\ [WalletNext]_allVars => WalletShape'
  BY ShapeStays
<1>2. QED
  BY <1>1, ShapeAtFirst, WalletListens, TypeCorrect, PTL DEF WalletSpec

\* The databases of the wallet keep their shape whatever it is told: coins are its own
\* outputs with a height or a mark, and undo data is only kept of blocks it has indexed.
THEOREM WalletTypeCorrect == WalletSpec => []WalletTypeOK
<1>1. TypeOK /\ WalletShape => WalletTypeOK
  <2> SUFFICES ASSUME TypeOK, WalletShape PROVE WalletTypeOK
    OBVIOUS
  <2>1. /\ coins \in CoinMaps /\ undo \in Undos /\ scanned \in Seq(Seq(Txs))
        /\ DOMAIN undo \subseteq 1..Len(scanned)
    BY WalletFields DEF WalletShape, WalletNow
  <2>2. DOMAIN coins \subseteq Mine /\ \A o \in DOMAIN coins : coins[o] \in Int
    BY <2>1, CoinMapFacts
  <2>3. QED
    BY <2>1, <2>2 DEF WalletTypeOK, WalletShape
<1>2. QED
  BY <1>1, ShapeCorrect, WalletListens, TypeCorrect, PTL

-----------------------------------------------------------------------------
(* The outputs that a chain of blocks leaves unspent *)

LEMMA OutputOwner ==
    ASSUME NEW ts, NEW o
    PROVE  o \in OutputsOf(ts) <=> o[1] \in ts /\ o \in OutputsOf({o[1]})
BY DEF OutputsOf

LEMMA InTxs ==
    ASSUME NEW c, NEW t PROVE t \in TxsOf(c) <=> \E h \in DOMAIN c : t \in BlockTxs(c[h])
BY DEF TxsOf

LEMMA TxsAppended ==
    ASSUME NEW r \in Seq(Seq(Txs)), NEW b \in Seq(Txs)
    PROVE  TxsOf(Append(r, b)) = TxsOf(r) \cup BlockTxs(b)
<1> DEFINE s == Append(r, b)
<1>1. /\ DOMAIN s = 1..(Len(r) + 1) /\ s[Len(r) + 1] = b /\ Len(r) \in Nat /\ DOMAIN r = 1..Len(r)
      /\ \A h \in DOMAIN r : h \in DOMAIN s /\ s[h] = r[h]
      /\ \A h \in DOMAIN s : h = Len(r) + 1 \/ h \in DOMAIN r
  OBVIOUS
<1>2. Len(r) + 1 \in DOMAIN s
  BY <1>1
<1> HIDE DEF s
<1>3. \A t : t \in TxsOf(s) <=> t \in TxsOf(r) \/ t \in BlockTxs(b)
  BY <1>1, <1>2, InTxs
<1>4. QED
  BY <1>3 DEF s

LEMMA BlockOfTxs == ASSUME NEW b \in Seq(Txs) PROVE BlockTxs(b) \subseteq Txs /\ Genesis \notin BlockTxs(b)
BY TxsAssumption DEF BlockTxs

\* The height of an output is that of the only block that has its transaction.
LEMMA HeightUnique ==
    ASSUME NEW c, ChainOK(c), NEW o, o[1] # Genesis, NEW g \in DOMAIN c, o[1] \in BlockTxs(c[g])
    PROVE  HeightIn(c, o) = g
<1> DEFINE h == CHOOSE k \in DOMAIN c : o[1] \in BlockTxs(c[k])
<1>1. h \in DOMAIN c /\ o[1] \in BlockTxs(c[h])
  OBVIOUS
<1>2. HeightIn(c, o) = h
  BY DEF HeightIn
<1> HIDE DEF h
<1>3. QED
  BY <1>1, <1>2 DEF ChainOK

LEMMA HeightBounds ==
    ASSUME NEW c \in Seq(Seq(Txs)), NEW o \in Unspent(c)
    PROVE  HeightIn(c, o) \in 0..Len(c)
<1>1. Len(c) \in Nat /\ DOMAIN c = 1..Len(c)
  OBVIOUS
<1>2. CASE o[1] = Genesis
  BY <1>1, <1>2 DEF HeightIn
<1>3. CASE o[1] # Genesis
  <2>1. o \in OutputsOf(TxsOf(c) \cup {Genesis})
    BY DEF Unspent
  <2>2. o[1] \in TxsOf(c)
    <3>1. o[1] \in TxsOf(c) \cup {Genesis}
      BY <2>1, OutputOwner, Zenon
    <3>2. QED
      BY <3>1, <1>3
  <2> DEFINE h == CHOOSE k \in DOMAIN c : o[1] \in BlockTxs(c[k])
  <2>3. h \in DOMAIN c
    BY <2>2, InTxs
  <2>4. HeightIn(c, o) = h
    BY <1>3 DEF HeightIn
  <2> HIDE DEF h
  <2>5. QED
    BY <1>1, <2>3, <2>4
<1>4. QED
  BY <1>2, <1>3

\* A block on top changes the height of no output below, and creates none of them again.
LEMMA HeightBelow ==
    ASSUME NEW r \in Seq(Seq(Txs)), NEW b \in Seq(Txs), ChainOK(Append(r, b)),
           NEW o \in OutputsOf(TxsOf(r) \cup {Genesis})
    PROVE  HeightIn(Append(r, b), o) = HeightIn(r, o) /\ o \notin OutputsOf(BlockTxs(b))
<1> DEFINE s == Append(r, b)
<1>1. /\ DOMAIN s = 1..(Len(r) + 1) /\ s[Len(r) + 1] = b /\ Len(r) \in Nat /\ DOMAIN r = 1..Len(r)
      /\ \A h \in DOMAIN r : h \in DOMAIN s /\ s[h] = r[h] /\ h # Len(r) + 1
  OBVIOUS
<1>2. Len(r) + 1 \in DOMAIN s
  BY <1>1
<1> HIDE DEF s
<1>3. CASE o[1] = Genesis
  BY <1>3, OutputOwner, BlockOfTxs DEF HeightIn
<1>4. CASE o[1] # Genesis
  <2>1. o[1] \in TxsOf(r)
    <3>1. o[1] \in TxsOf(r) \cup {Genesis}
      BY OutputOwner, Zenon
    <3>2. QED
      BY <3>1, <1>4
  <2> DEFINE h == CHOOSE k \in DOMAIN r : o[1] \in BlockTxs(r[k])
  <2>2. h \in DOMAIN r /\ o[1] \in BlockTxs(r[h])
    BY <2>1, InTxs
  <2>3. HeightIn(r, o) = h
    BY <1>4 DEF HeightIn
  <2> HIDE DEF h
  <2>4. h \in DOMAIN s /\ o[1] \in BlockTxs(s[h]) /\ h # Len(r) + 1 /\ ChainOK(s)
    BY <1>1, <2>2 DEF s
  <2>5. HeightIn(s, o) = h
    BY <1>4, <2>4, HeightUnique
  <2>6. o[1] \notin BlockTxs(b)
    BY <1>1, <1>2, <2>4 DEF ChainOK
  <2>7. QED
    BY <2>3, <2>5, <2>6, OutputOwner DEF s
<1>5. QED
  BY <1>3, <1>4

\* What is unspent above a block is one of its outputs, or unspent below it.
LEMMA UnspentAbove ==
    ASSUME NEW r \in Seq(Seq(Txs)), NEW b \in Seq(Txs), NEW o
    PROVE  /\ o \in Unspent(Append(r, b)) =>
                 o \notin InputsOf(BlockTxs(b)) /\ (o \in OutputsOf(BlockTxs(b)) \/ o \in Unspent(r))
           /\ o \in Unspent(r) /\ o \notin InputsOf(BlockTxs(b)) => o \in Unspent(Append(r, b))
<1>1. TxsOf(Append(r, b)) = TxsOf(r) \cup BlockTxs(b)
  BY TxsAppended
<1>2. o \in InputsOf(TxsOf(r) \cup BlockTxs(b)) <=> o \in InputsOf(TxsOf(r)) \/ o \in InputsOf(BlockTxs(b))
  BY DEF InputsOf
<1>3. o \in OutputsOf(TxsOf(r) \cup BlockTxs(b) \cup {Genesis}) <=>
        o \in OutputsOf(BlockTxs(b)) \/ o \in OutputsOf(TxsOf(r) \cup {Genesis})
  BY OutputOwner
<1>4. o \in Unspent(Append(r, b)) <=>
        /\ o \in OutputsOf(BlockTxs(b)) \/ o \in OutputsOf(TxsOf(r) \cup {Genesis})
        /\ o \notin InputsOf(TxsOf(r)) /\ o \notin InputsOf(BlockTxs(b))
  <2>1. o \in Unspent(Append(r, b)) <=>
          /\ o \in OutputsOf(TxsOf(r) \cup BlockTxs(b) \cup {Genesis})
          /\ o \notin InputsOf(TxsOf(r) \cup BlockTxs(b))
    BY <1>1 DEF Unspent
  <2>2. QED
    BY <2>1, <1>2, <1>3, Zenon
<1>5. o \in Unspent(r) <=> o \in OutputsOf(TxsOf(r) \cup {Genesis}) /\ o \notin InputsOf(TxsOf(r))
  BY DEF Unspent
<1>6. QED
  BY <1>4, <1>5

-----------------------------------------------------------------------------
(* The coins of a wallet that has indexed the blocks of c *)

\* The coin is free or spent by the mempool, at its height.
At(c, o) == {HeightIn(c, o), Mark(HeightIn(c, o))}

HasCoins(cs, c) == \A o \in Mine \cap Unspent(c) : o \in DOMAIN cs /\ cs[o] \in At(c, o)

LEMMA MarkFacts ==
    ASSUME NEW h \in 0..MaxHeight, NEW v \in {h, Mark(h)}
    PROVE  /\ v # -1 /\ v # Int32Min /\ Mark(v) \in {h, Mark(h)}
           /\ IsMarked(v) => Unmark(v) \in {h, Mark(h)}
<1>1. h \in Int /\ 0 <= h /\ h <= 2147483645
  BY WalletAssumption, LimitsAssumption
<1>2. Mark(h) = -2 - h
  BY <1>1 DEF Mark
<1>3. CASE v = h
  BY <1>1, <1>3 DEF Mark, Unmark, Int32Min, IsMarked
<1>4. CASE v = -2 - h
  BY <1>1, <1>2, <1>4 DEF Mark, Unmark, Int32Min, IsMarked
<1>5. QED
  BY <1>2, <1>3, <1>4

LEMMA HeldFacts ==
    ASSUME NEW c \in Seq(Seq(Txs)), Len(c) <= MaxHeight, NEW cs, HasCoins(cs, c),
           NEW o \in Mine \cap Unspent(c)
    PROVE  /\ o \in DOMAIN cs /\ cs[o] \in At(c, o) /\ cs[o] # -1 /\ cs[o] # Int32Min
           /\ Mark(cs[o]) \in At(c, o)
           /\ IsMarked(cs[o]) => Unmark(cs[o]) \in At(c, o)
<1>1. o \in DOMAIN cs /\ cs[o] \in At(c, o)
  BY DEF HasCoins
<1>2. Len(c) \in Nat /\ MaxHeight \in Nat
  BY LimitsAssumption
<1>3. HeightIn(c, o) \in 0..Len(c)
  BY HeightBounds
<1>4. HeightIn(c, o) \in 0..MaxHeight
  BY <1>2, <1>3
<1>5. QED
  BY <1>1, <1>4, MarkFacts DEF At

LEMMA IndexedHas ==
    ASSUME NEW c \in Seq(Seq(Txs)), Len(c) <= MaxHeight, NEW cs, HasCoins(cs, c), NEW t
    PROVE  HasCoins(Indexed(cs, t), c)
<1> SUFFICES ASSUME NEW o \in Mine \cap Unspent(c)
             PROVE  o \in DOMAIN Indexed(cs, t) /\ Indexed(cs, t)[o] \in At(c, o)
  BY DEF HasCoins
<1>1. o \in DOMAIN cs /\ cs[o] \in At(c, o) /\ Mark(cs[o]) \in At(c, o)
  BY HeldFacts
<1>2. QED
  BY <1>1 DEF Indexed

LEMMA UnindexedHas ==
    ASSUME NEW c \in Seq(Seq(Txs)), Len(c) <= MaxHeight, NEW cs, HasCoins(cs, c), NEW R
    PROVE  HasCoins(Unindexed(cs, R), c)
<1> SUFFICES ASSUME NEW o \in Mine \cap Unspent(c)
             PROVE  o \in DOMAIN Unindexed(cs, R) /\ Unindexed(cs, R)[o] \in At(c, o)
  BY DEF HasCoins
<1>1. o \in DOMAIN cs /\ cs[o] \in At(c, o) /\ cs[o] # -1
      /\ (IsMarked(cs[o]) => Unmark(cs[o]) \in At(c, o))
  BY HeldFacts
<1>2. QED
  BY <1>1 DEF Unindexed

LEMMA PurgedHas ==
    ASSUME NEW c \in Seq(Seq(Txs)), Len(c) <= MaxHeight, NEW cs, HasCoins(cs, c)
    PROVE  HasCoins(Purged(cs), c)
<1> SUFFICES ASSUME NEW o \in Mine \cap Unspent(c)
             PROVE  o \in DOMAIN Purged(cs) /\ Purged(cs)[o] \in At(c, o)
  BY DEF HasCoins
<1>1. o \in DOMAIN cs /\ cs[o] \in At(c, o) /\ cs[o] # -1 /\ cs[o] # Int32Min
      /\ (IsMarked(cs[o]) => Unmark(cs[o]) \in At(c, o))
  BY HeldFacts
<1>2. QED
  BY <1>1 DEF Purged

-----------------------------------------------------------------------------
(* Blocks that a wallet indexes and gives back *)

\* The undo data of each block has the coins that it spent, as they were below it.
UndoOK(u, c) ==
    \A h \in 1..Len(c) :
        /\ h \in DOMAIN u => DOMAIN u[h] \subseteq InputsOf(BlockTxs(c[h]))
        /\ \A o \in Mine \cap Unspent(SubSeq(c, 1, h - 1)) \cap InputsOf(BlockTxs(c[h])) :
              h \in DOMAIN u /\ o \in DOMAIN u[h] /\ u[h][o] \in At(SubSeq(c, 1, h - 1), o)

Good(w) ==
    /\ WalletTyped(w) /\ ChainOK(w.scanned) /\ Len(w.scanned) <= MaxHeight
    /\ HasCoins(w.coins, w.scanned) /\ UndoOK(w.undo, w.scanned)

LEMMA Appending ==
    ASSUME NEW S, NEW r \in Seq(S), NEW b \in S, NEW s, s = Append(r, b)
    PROVE  /\ s \in Seq(S) /\ Len(s) = Len(r) + 1 /\ Len(r) \in Nat /\ s[Len(r) + 1] = b
           /\ SubSeq(s, 1, Len(r)) = r
           /\ \A h \in 1..Len(r) : s[h] = r[h] /\ SubSeq(s, 1, h - 1) = SubSeq(r, 1, h - 1)
           /\ \A h \in 1..Len(s) : h = Len(r) + 1 \/ h \in 1..Len(r)
OBVIOUS

\* indexBlock of the block after those of the history.
LEMMA IndexGood ==
    ASSUME NEW w, Good(w), NEW b \in Seq(Txs), NEW h, h = Len(w.scanned) + 1, h <= MaxHeight,
           ChainOK(Append(w.scanned, b))
    PROVE  Good(IndexBlock(w, b, h)) /\ IndexBlock(w, b, h).scanned = Append(w.scanned, b)
<1> DEFINE v == IndexBlock(w, b, h)
           r == w.scanned
           s == Append(r, b)
           created == OutputsOf(BlockTxs(b)) \cap Mine
<1>1. WalletTyped(w) /\ r \in Seq(Seq(Txs)) /\ Len(r) \in Nat /\ h \in Nat
  BY WalletFields DEF Good
<1>2. /\ WalletTyped(v) /\ v.scanned = s
      /\ DOMAIN v.coins = (DOMAIN w.coins \cup created) \ SpentBy(w, b)
      /\ \A o \in DOMAIN v.coins : v.coins[o] = IF o \in created THEN h ELSE w.coins[o]
      /\ \A k \in 1..Len(r) : /\ k \in DOMAIN w.undo <=> k \in DOMAIN v.undo
                              /\ k \in DOMAIN w.undo => v.undo[k] = w.undo[k]
      /\ \A o \in SpentBy(w, b) : /\ h \in DOMAIN v.undo /\ o \in DOMAIN v.undo[h]
                                  /\ o \in DOMAIN w.coins => v.undo[h][o] = w.coins[o]
      /\ h \in DOMAIN v.undo => DOMAIN v.undo[h] = SpentBy(w, b)
  BY <1>1, IndexBlockFields
<1> HIDE DEF v
<1>3. /\ s \in Seq(Seq(Txs)) /\ Len(s) = h /\ s[h] = b /\ SubSeq(s, 1, h - 1) = r
      /\ \A k \in 1..Len(r) : s[k] = r[k] /\ SubSeq(s, 1, k - 1) = SubSeq(r, 1, k - 1)
      /\ \A k \in 1..Len(s) : k = h \/ k \in 1..Len(r)
  <2>1. h - 1 = Len(r)
    BY <1>1
  <2>2. QED
    BY <1>1, <2>1, Appending
<1>4. HasCoins(w.coins, r) /\ UndoOK(w.undo, r) /\ ChainOK(s)
  BY DEF Good
<1>5. \A o \in SpentBy(w, b) : o \in InputsOf(BlockTxs(b))
  BY DEF SpentBy
<1>6. HasCoins(v.coins, s)
  <2> SUFFICES ASSUME NEW o \in Mine, o \in Unspent(s)
               PROVE  o \in DOMAIN v.coins /\ v.coins[o] \in At(s, o)
    BY DEF HasCoins
  <2>1. o \notin InputsOf(BlockTxs(b)) /\ (o \in OutputsOf(BlockTxs(b)) \/ o \in Unspent(r))
    BY <1>1, UnspentAbove
  <2>2. o \notin SpentBy(w, b)
    BY <1>5, <2>1
  <2>3. CASE o \in OutputsOf(BlockTxs(b))
    <3>1. o \in DOMAIN v.coins /\ v.coins[o] = h
      BY <1>2, <2>2, <2>3
    <3>2. o[1] \in BlockTxs(s[h]) /\ h \in DOMAIN s
      <4>1. o[1] \in BlockTxs(b)
        BY <2>3, OutputOwner
      <4>2. h \in 1..Len(s) /\ DOMAIN s = 1..Len(s)
        BY <1>1, <1>3
      <4>3. QED
        BY <1>3, <4>1, <4>2
    <3>3. o[1] # Genesis
      BY <1>3, <3>2, BlockOfTxs
    <3>4. HeightIn(s, o) = h
      BY <1>4, <3>2, <3>3, HeightUnique
    <3>5. QED
      BY <3>1, <3>4 DEF At
  <2>4. CASE o \in Unspent(r)
    <3>1. o \in OutputsOf(TxsOf(r) \cup {Genesis})
      BY <2>4 DEF Unspent
    <3>2. HeightIn(s, o) = HeightIn(r, o) /\ o \notin OutputsOf(BlockTxs(b))
      BY <1>1, <1>4, <3>1, HeightBelow
    <3>3. o \in DOMAIN w.coins /\ w.coins[o] \in At(r, o)
      BY <1>4, <2>4 DEF HasCoins
    <3>4. o \in DOMAIN v.coins /\ v.coins[o] = w.coins[o]
      BY <1>2, <2>2, <3>2, <3>3
    <3>5. QED
      BY <3>2, <3>3, <3>4 DEF At
  <2>5. QED
    BY <2>1, <2>3, <2>4
<1>7. UndoOK(v.undo, s)
  <2> SUFFICES ASSUME NEW k \in 1..Len(s)
               PROVE  /\ k \in DOMAIN v.undo => DOMAIN v.undo[k] \subseteq InputsOf(BlockTxs(s[k]))
                      /\ \A o \in Mine \cap Unspent(SubSeq(s, 1, k - 1)) \cap InputsOf(BlockTxs(s[k])) :
                            /\ k \in DOMAIN v.undo /\ o \in DOMAIN v.undo[k]
                            /\ v.undo[k][o] \in At(SubSeq(s, 1, k - 1), o)
    BY DEF UndoOK
  <2>1. CASE k \in 1..Len(r)
    BY <1>2, <1>3, <1>4, <2>1 DEF UndoOK
  <2>2. CASE k = h
    <3>1. SubSeq(s, 1, k - 1) = r /\ s[k] = b
      BY <1>3, <2>2
    <3>2. ASSUME NEW o \in Mine \cap Unspent(r) \cap InputsOf(BlockTxs(b))
          PROVE  o \in DOMAIN w.coins /\ w.coins[o] \in At(r, o) /\ o \in SpentBy(w, b)
      <4>1. o \in DOMAIN w.coins /\ w.coins[o] \in At(r, o)
        BY <1>4 DEF HasCoins
      <4>2. QED
        BY <4>1 DEF SpentBy
    <3> HIDE DEF s
    <3>3. QED
      BY <1>2, <1>5, <2>2, <3>1, <3>2
  <2>3. QED
    BY <1>3, <2>1, <2>2
<1>8. Good(v)
  BY <1>2, <1>3, <1>4, <1>6, <1>7 DEF Good
<1>9. QED
  BY <1>2, <1>8 DEF v

\* unindexBlock of the last block of the history.
LEMMA UnindexGood ==
    ASSUME NEW w, Good(w), NEW b, NEW h, h = Len(w.scanned), h > 0, b = w.scanned[h]
    PROVE  /\ Good(UnindexBlock(w, b, h))
           /\ UnindexBlock(w, b, h).scanned = SubSeq(w.scanned, 1, h - 1)
<1> DEFINE v == UnindexBlock(w, b, h)
           s == w.scanned
           r == SubSeq(s, 1, h - 1)
<1>1. WalletTyped(w) /\ s \in Seq(Seq(Txs)) /\ h \in Nat /\ Len(s) = h /\ b \in Seq(Txs)
  BY WalletFields DEF Good
<1>2. /\ WalletTyped(v) /\ v.scanned = r
      /\ \A o \in DOMAIN w.coins :
            o \notin OutputsOf(BlockTxs(b)) /\ (h \in DOMAIN w.undo => o \notin DOMAIN w.undo[h]) =>
                o \in DOMAIN v.coins /\ v.coins[o] = w.coins[o]
      /\ h \in DOMAIN w.undo => \A o \in DOMAIN w.undo[h] :
                o \in DOMAIN v.coins /\ v.coins[o] = w.undo[h][o]
      /\ \A k \in 1..(h - 1) : /\ k \in DOMAIN w.undo <=> k \in DOMAIN v.undo
                               /\ k \in DOMAIN w.undo => v.undo[k] = w.undo[k]
  BY <1>1, UnindexBlockFields
<1> HIDE DEF v
<1>3. /\ r \in Seq(Seq(Txs)) /\ Len(r) = h - 1 /\ s = Append(r, b)
      /\ \A k \in 1..Len(r) : k \in 1..(h - 1) /\ k \in 1..Len(s) /\ s[k] = r[k]
                              /\ SubSeq(s, 1, k - 1) = SubSeq(r, 1, k - 1)
  BY <1>1
<1>4. HasCoins(w.coins, s) /\ UndoOK(w.undo, s) /\ ChainOK(s) /\ Len(s) <= MaxHeight
  BY DEF Good
<1>5. ChainOK(r)
  <2>1. h - 1 \in 0..Len(s)
    BY <1>1
  <2>2. QED
    BY <1>1, <1>4, <2>1, RewoundOK
<1> HIDE DEF r
<1>6. /\ h \in DOMAIN w.undo => DOMAIN w.undo[h] \subseteq InputsOf(BlockTxs(b))
      /\ \A o \in Mine \cap Unspent(r) \cap InputsOf(BlockTxs(b)) :
            h \in DOMAIN w.undo /\ o \in DOMAIN w.undo[h] /\ w.undo[h][o] \in At(r, o)
  <2>1. h \in 1..Len(s)
    BY <1>1
  <2>2. QED
    BY <1>1, <1>4, <2>1 DEF UndoOK, r
<1>7. HasCoins(v.coins, r)
  <2> SUFFICES ASSUME NEW o \in Mine, o \in Unspent(r)
               PROVE  o \in DOMAIN v.coins /\ v.coins[o] \in At(r, o)
    BY DEF HasCoins
  <2>1. CASE o \in InputsOf(BlockTxs(b))
    BY <1>2, <1>6, <2>1
  <2>2. CASE o \notin InputsOf(BlockTxs(b))
    <3>1. o \in Unspent(s)
      BY <1>1, <1>3, <2>2, UnspentAbove
    <3>2. o \in OutputsOf(TxsOf(r) \cup {Genesis})
      BY DEF Unspent
    <3>3. HeightIn(s, o) = HeightIn(r, o) /\ o \notin OutputsOf(BlockTxs(b))
      <4>1. ChainOK(Append(r, b)) /\ r \in Seq(Seq(Txs)) /\ b \in Seq(Txs)
        BY <1>1, <1>3, <1>4
      <4>2. HeightIn(Append(r, b), o) = HeightIn(r, o) /\ o \notin OutputsOf(BlockTxs(b))
        BY <3>2, <4>1, HeightBelow
      <4>3. QED
        BY <1>3, <4>2
    <3>4. o \in DOMAIN w.coins /\ w.coins[o] \in At(r, o)
      BY <1>4, <3>1, <3>3 DEF HasCoins, At
    <3>5. QED
      BY <1>2, <1>6, <2>2, <3>3, <3>4
  <2>3. QED
    BY <2>1, <2>2
<1>8. UndoOK(v.undo, r)
  <2> SUFFICES ASSUME NEW k \in 1..Len(r)
               PROVE  /\ k \in DOMAIN v.undo => DOMAIN v.undo[k] \subseteq InputsOf(BlockTxs(r[k]))
                      /\ \A o \in Mine \cap Unspent(SubSeq(r, 1, k - 1)) \cap InputsOf(BlockTxs(r[k])) :
                            /\ k \in DOMAIN v.undo /\ o \in DOMAIN v.undo[k]
                            /\ v.undo[k][o] \in At(SubSeq(r, 1, k - 1), o)
    BY DEF UndoOK
  <2>1. k \in 1..(h - 1) /\ k \in 1..Len(s) /\ s[k] = r[k] /\ SubSeq(s, 1, k - 1) = SubSeq(r, 1, k - 1)
    BY <1>3
  <2> HIDE DEF s
  <2>2. QED
    BY <1>2, <1>4, <2>1 DEF UndoOK
<1>9. Good(v)
  <2>1. Len(r) <= MaxHeight
    BY <1>1, <1>3, <1>4, LimitsAssumption
  <2>2. QED
    BY <1>2, <1>5, <1>7, <1>8, <2>1 DEF Good
<1>10. QED
  BY <1>2, <1>9 DEF v, r

-----------------------------------------------------------------------------
(* The wallet of the only caller of the chain *)

\* Every step of the mempool keeps the coins of the blocks indexed.
LEMMA CoinsGood ==
    ASSUME Good(WalletNow), IsFiniteSet(pool.map), UNCHANGED <<undo, scanned>>,
           \/ coins' = coins
           \/ \E V \in SUBSET pool.map : \E t \in Txs : coins' = Indexed(Evicted(V), t)
           \/ \E R : coins' = Unindexed(coins, R)
    PROVE  Good(WalletNow)'
<1> DEFINE C == {cs \in CoinMaps : HasCoins(cs, scanned)}
<1>1. /\ coins \in CoinMaps /\ undo \in Undos /\ scanned \in Seq(Seq(Txs))
      /\ DOMAIN undo \subseteq 1..Len(scanned)
      /\ ChainOK(scanned) /\ Len(scanned) <= MaxHeight /\ HasCoins(coins, scanned)
      /\ UndoOK(undo, scanned)
  BY WalletFields DEF Good, WalletNow
<1>2. coins \in C /\ \A cs \in C : \A R : Unindexed(cs, R) \in C
  BY <1>1, UnindexedTyped, UnindexedHas
<1>3. ASSUME NEW V \in SUBSET pool.map, NEW t PROVE Indexed(Evicted(V), t) \in C
  <2>1. IsFiniteSet(V)
    BY FS_Subset
  <2> HIDE DEF C
  <2>2. Evicted(V) \in C
    BY <1>2, <2>1, EvictedStays
  <2>3. QED
    BY <1>1, <2>2, IndexedTyped, IndexedHas DEF C
<1>4. coins' \in C
  <2> HIDE DEF C
  <2>1. QED
    BY <1>2, <1>3
<1>5. WalletTyped([coins |-> coins', undo |-> undo, scanned |-> scanned])
  BY <1>1, <1>4, WalletMade
<1>6. Good([coins |-> coins', undo |-> undo, scanned |-> scanned])
  BY <1>1, <1>4, <1>5 DEF Good
<1>7. QED
  BY <1>6 DEF WalletNow

\* The wallet that starts with blocks of the chain only has indexed blocks of the chain.
LEMMA RestartGood ==
    ASSUME TypeOK, Good(WalletNow), IsPrefix(scanned, chain), ChainOK(chain),
           Len(chain) <= MaxHeight, WalletRestart
    PROVE  /\ Good(WalletNow)' /\ Len(scanned') <= Len(chain)
           /\ \A i \in 1..Len(scanned') : scanned'[i] = chain[i]
<1> DEFINE k == Len(scanned)
           V == [i \in 0..Missed |-> {w \in Wallets : Good(w) /\ w.scanned = SubSeq(chain, 1, k + i)}]
<1>1. /\ coins \in CoinMaps /\ undo \in Undos /\ scanned \in Seq(Seq(Txs))
      /\ DOMAIN undo \subseteq 1..k /\ k \in Nat /\ chain \in Seq(Seq(Txs)) /\ Len(chain) \in Nat
      /\ ChainOK(scanned) /\ k <= MaxHeight /\ HasCoins(coins, scanned) /\ UndoOK(undo, scanned)
  BY WalletFields DEF Good, WalletNow, TypeOK
<1>2. k <= Len(chain) /\ scanned = SubSeq(chain, 1, k)
  <2>1. k <= Len(chain) /\ SubSeq(scanned, 1, k) = SubSeq(chain, 1, k)
    BY DEF IsPrefix
  <2>2. SubSeq(scanned, 1, k) = scanned
    BY <1>1
  <2>3. QED
    BY <2>1, <2>2
<1>3. Missed \in Nat /\ k + Missed <= Len(chain)
  BY <1>1, <1>2, WalletAssumption DEF Missed
<1> HIDE DEF k
<1>4. [WalletNow EXCEPT !.coins = Purged(coins)] \in V[0]
  <2> DEFINE w == [coins |-> Purged(coins), undo |-> undo, scanned |-> scanned]
  <2>1. [WalletNow EXCEPT !.coins = Purged(coins)] = w
    BY DEF WalletNow
  <2>2. WalletTyped(w)
    BY <1>1, PurgedTyped, WalletMade DEF k
  <2>3. HasCoins(Purged(coins), scanned)
    BY <1>1, PurgedHas DEF k
  <2>4. Good(w)
    BY <1>1, <2>2, <2>3 DEF Good, k
  <2>5. 0 \in 0..Missed /\ k + 0 = k /\ w.scanned = SubSeq(chain, 1, k)
    BY <1>1, <1>2, <1>3
  <2> HIDE DEF w
  <2>6. w \in Wallets
    BY <2>2 DEF WalletTyped
  <2>7. QED
    BY <2>1, <2>4, <2>5, <2>6
<1>5. ASSUME NEW i \in 1..Missed, NEW w \in V[i - 1]
      PROVE  IndexBlock(w, chain[k + i], k + i) \in V[i]
  <2> DEFINE m == k + i
  <2>1. /\ i - 1 \in 0..Missed /\ i \in 0..Missed /\ k + (i - 1) = m - 1 /\ m \in Nat
        /\ m \in 1..Len(chain) /\ m <= MaxHeight
    BY <1>1, <1>3, LimitsAssumption
  <2>2. Good(w) /\ w.scanned = SubSeq(chain, 1, m - 1)
    BY <2>1
  <2> HIDE DEF m
  <2>3. chain[m] \in Seq(Txs) /\ m = Len(w.scanned) + 1
        /\ Append(w.scanned, chain[m]) = SubSeq(chain, 1, m)
    BY <1>1, <2>1, <2>2
  <2>4. ChainOK(SubSeq(chain, 1, m))
    <3>1. m \in 0..Len(chain)
      BY <1>1, <2>1
    <3>2. QED
      BY <1>1, <3>1, RewoundOK
  <2> DEFINE v == IndexBlock(w, chain[m], m)
  <2>5. Good(v) /\ v.scanned = SubSeq(chain, 1, m)
    BY <2>1, <2>2, <2>3, <2>4, IndexGood
  <2> HIDE DEF v
  <2>6. v \in Wallets
    BY <2>5 DEF Good, WalletTyped
  <2>7. v \in V[i]
    BY <2>1, <2>5, <2>6 DEF m
  <2>8. QED
    BY <2>7 DEF v, m
<1> HIDE DEF V
<1>6. PICK w \in V[Missed] : WalletBecomes(w)
  BY <1>3, <1>4, <1>5, CatchUpStays DEF k
<1>7. w \in Wallets /\ Good(w) /\ w.scanned = SubSeq(chain, 1, k + Missed)
  BY <1>3, <1>6 DEF V
<1>8. coins' = w.coins /\ undo' = w.undo /\ scanned' = w.scanned
  BY <1>6 DEF WalletBecomes
<1>9. w = [coins |-> coins', undo |-> undo', scanned |-> scanned']
  BY <1>7, <1>8 DEF Wallets
<1>10. Good(WalletNow)'
  BY <1>7, <1>9 DEF WalletNow
<1>11. QED
  BY <1>1, <1>3, <1>7, <1>8, <1>10

Connecting(notes) == \E i \in 1..Len(notes) : notes[i].op = "connect"

\* The notifications of a rewind go down to the height of the chain.
Announced(notes, c) ==
    \A i \in 1..Len(notes) :
        notes[i].height = IF notes[i].op = "connect" THEN Len(c) ELSE (Len(c) + Len(notes) + 1) - i

\* The block at a height, in the chain or in a notification that it has left the chain.
BlockAt(notes, c, h) ==
    IF h <= Len(c) THEN c[h] ELSE notes[(Len(c) + Len(notes) + 1) - h].block

\* The blocks of the history s are those that its notifications have left it.
Following(s, notes, c) ==
    /\ Len(s) <= IF Connecting(notes) THEN Len(c) - 1 ELSE Len(c) + Len(notes)
    /\ \A h \in 1..Len(s) : s[h] = BlockAt(notes, c, h)

SameNotes(notes, moved) ==
    /\ Len(moved) = Len(notes)
    /\ \A i \in 1..Len(notes) : /\ moved[i].op = notes[i].op /\ moved[i].block = notes[i].block
                                /\ moved[i].height = notes[i].height

LEMMA SameFollowing ==
    ASSUME NEW notes \in Seq(Notes), NEW moved, SameNotes(notes, moved),
           NEW c \in Seq(Seq(Txs)), Announced(notes, c)
    PROVE  /\ Announced(moved, c)
           /\ \A s \in Seq(Seq(Txs)) : Following(s, notes, c) => Following(s, moved, c)
<1>1. Announced(moved, c)
  BY DEF SameNotes, Announced
<1>2. Len(moved) = Len(notes) /\ Len(notes) \in Nat /\ Len(c) \in Nat
  BY DEF SameNotes
<1>3. Connecting(moved) <=> Connecting(notes)
  BY DEF SameNotes, Connecting
<1>4. ASSUME NEW s \in Seq(Seq(Txs)), Following(s, notes, c) PROVE Following(s, moved, c)
  <2>1. Len(s) <= IF Connecting(moved) THEN Len(c) - 1 ELSE Len(c) + Len(moved)
    BY <1>2, <1>3, <1>4 DEF Following
  <2>2. ASSUME NEW h \in 1..Len(s) PROVE BlockAt(moved, c, h) = BlockAt(notes, c, h)
    <3>1. Len(s) <= Len(c) + Len(notes) /\ Len(s) \in Nat
      BY <1>2, <1>4 DEF Following
    <3>2. CASE h <= Len(c)
      BY <3>2 DEF BlockAt
    <3>3. CASE ~(h <= Len(c))
      <4>1. (Len(c) + Len(notes) + 1) - h \in 1..Len(notes)
        BY <1>2, <3>1, <3>3
      <4>2. QED
        BY <1>2, <3>3, <4>1 DEF BlockAt, SameNotes
    <3>4. QED
      BY <3>2, <3>3
  <2>3. QED
    BY <1>4, <2>1, <2>2 DEF Following
<1>5. QED
  BY <1>1, <1>4

LEMMA ProceedSame ==
    ASSUME TypeOK, NEW th \in Threads, \E u \in Threads : \E op, n : Proceed(u, op, n)
    PROVE  SameNotes(todo[th], todo'[th])
<1>1. PICK u \in Threads : \E op, n : Proceed(u, op, n)
  OBVIOUS
<1> DEFINE notes == todo[u]
<1>2. PICK n : /\ notes # << >>
               /\ todo' = [todo EXCEPT ![u] = <<[Head(notes) EXCEPT !.next = n]>> \o Tail(notes)]
  BY <1>1 DEF Proceed
<1>3. CASE u = th
  <2>1. notes \in Seq(Notes) /\ todo'[th] = <<[Head(notes) EXCEPT !.next = n]>> \o Tail(notes)
    BY <1>2, <1>3 DEF TypeOK
  <2>2. /\ Head(notes) = notes[1] /\ notes[1] \in Notes /\ Tail(notes) \in Seq(Notes)
        /\ Len(notes) \in Nat \ {0} /\ Len(Tail(notes)) = Len(notes) - 1
        /\ \A i \in 1..Len(Tail(notes)) : Tail(notes)[i] = notes[i + 1]
    BY <1>2, <2>1
  <2>3. /\ [notes[1] EXCEPT !.next = n].op = notes[1].op
        /\ [notes[1] EXCEPT !.next = n].block = notes[1].block
        /\ [notes[1] EXCEPT !.next = n].height = notes[1].height
    BY <2>2 DEF Notes
  <2>4. /\ Len(todo'[th]) = Len(notes) /\ todo'[th][1] = [notes[1] EXCEPT !.next = n]
        /\ \A i \in 2..Len(notes) : todo'[th][i] = notes[i]
    BY <2>1, <2>2
  <2>5. \A i \in 1..Len(notes) : i = 1 \/ i \in 2..Len(notes)
    BY <2>2
  <2> HIDE DEF notes
  <2>6. SameNotes(notes, todo'[th])
    BY <2>3, <2>4, <2>5 DEF SameNotes
  <2>7. QED
    BY <1>3, <2>6 DEF notes
<1>4. CASE u # th
  <2>1. todo'[th] = todo[th]
    BY <1>2, <1>4 DEF TypeOK
  <2>2. QED
    BY <2>1 DEF SameNotes
<1>5. QED
  BY <1>3, <1>4

\* A block is connected: the wallet is still behind.
LEMMA ConnectFollowing ==
    ASSUME TypeOK, NEW th \in Threads, NEW b \in Blocks, Connect(th, b),
           scanned \in Seq(Seq(Txs))
    PROVE  /\ Announced(todo'[th], chain') /\ Len(chain') <= MaxHeight
           /\ Following(scanned, todo[th], chain) => Following(scanned, todo'[th], chain')
<1> DEFINE note == Note("connect", b, Len(chain) + 1)
           notes == todo'[th]
<1>1. /\ todo[th] = << >> /\ Len(chain) < MaxHeight /\ chain' = Append(chain, b)
      /\ notes = <<note>>
  BY DEF Connect, TypeOK
<1>2. b \in Seq(Txs)
  BY LimitsAssumption DEF Blocks
<1>3. /\ Len(chain') = Len(chain) + 1 /\ Len(chain) \in Nat
      /\ \A h \in 1..Len(chain) : chain'[h] = chain[h] /\ h <= Len(chain')
  <2>1. chain \in Seq(Seq(Txs))
    BY DEF TypeOK
  <2>2. /\ Len(chain') = Len(chain) + 1 /\ Len(chain) \in Nat
        /\ \A h \in 1..Len(chain) : chain'[h] = chain[h]
    BY <1>1, <1>2, <2>1, Appending
  <2>3. QED
    BY <2>2
<1>4. Len(notes) = 1 /\ notes[1].op = "connect" /\ notes[1].height = Len(chain')
  BY <1>1, <1>3 DEF Note
<1> HIDE DEF notes
<1>5. Announced(notes, chain')
  BY <1>4 DEF Announced
<1>6. Connecting(notes)
  BY <1>4 DEF Connecting
<1>7. ASSUME Following(scanned, << >>, chain) PROVE Following(scanned, notes, chain')
  <2>1. Len(scanned) <= Len(chain) /\ Len(scanned) \in Nat
    BY <1>3, <1>7 DEF Following, Connecting
  <2>2. ASSUME NEW h \in 1..Len(scanned) PROVE scanned[h] = BlockAt(notes, chain', h)
    <3>1. h \in 1..Len(chain) /\ scanned[h] = BlockAt(<< >>, chain, h)
      BY <1>3, <1>7, <2>1 DEF Following
    <3>2. QED
      BY <1>3, <3>1 DEF BlockAt
  <2>3. QED
    BY <1>3, <1>6, <2>1, <2>2 DEF Following
<1>8. QED
  BY <1>1, <1>3, <1>5, <1>7, LimitsAssumption DEF notes

\* The highest blocks are disconnected: their notifications have what the chain had.
LEMMA RewindFollowing ==
    ASSUME TypeOK, NEW th \in Threads, NEW m \in 0..(Len(chain) - 1), Rewind(th, m),
           scanned \in Seq(Seq(Txs)), Len(chain) <= MaxHeight
    PROVE  /\ Announced(todo'[th], chain') /\ Len(chain') <= MaxHeight
           /\ Following(scanned, todo[th], chain) => Following(scanned, todo'[th], chain')
<1> DEFINE n == Len(chain) - m
           noteAt(i) == Note("disconnect", chain[Len(chain) + 1 - i], Len(chain) + 1 - i)
           notes == todo'[th]
<1>1. /\ todo[th] = << >> /\ chain' = SubSeq(chain, 1, m)
      /\ notes = [i \in 1..n |-> noteAt(i)]
  BY DEF Rewind, TypeOK
<1>2. /\ n \in Nat /\ m \in Nat /\ Len(chain) \in Nat /\ Len(chain') = m /\ m + n = Len(chain)
      /\ \A h \in 1..m : chain'[h] = chain[h]
  <2>1. chain \in Seq(Seq(Txs)) /\ chain' = SubSeq(chain, 1, m)
    BY <1>1 DEF TypeOK
  <2>2. n \in Nat /\ m \in Nat /\ Len(chain) \in Nat /\ m + n = Len(chain)
    BY <2>1
  <2>3. Len(chain') = m /\ \A h \in 1..m : chain'[h] = chain[h]
    BY <2>1, <2>2
  <2>4. QED
    BY <2>2, <2>3
<1> HIDE DEF n
<1>3. \A i \in 1..n : /\ noteAt(i).op = "disconnect" /\ noteAt(i).height = Len(chain) + 1 - i
                      /\ noteAt(i).block = chain[Len(chain) + 1 - i]
  BY DEF Note
<1> HIDE DEF noteAt
<1>4. Len(notes) = n /\ \A i \in 1..n : notes[i] = noteAt(i)
  BY <1>1, <1>2
<1> HIDE DEF notes
<1>5. Announced(notes, chain')
  <2>1. \A i \in 1..n : (m + n + 1) - i = Len(chain) + 1 - i
    BY <1>2
  <2>2. \A i \in 1..n : notes[i].op = "disconnect" /\ notes[i].height = (m + n + 1) - i
    BY <1>3, <1>4, <2>1
  <2>3. QED
    BY <1>2, <1>4, <2>2 DEF Announced
<1>6. ~Connecting(notes)
  BY <1>3, <1>4 DEF Connecting
<1>7. ASSUME Following(scanned, << >>, chain) PROVE Following(scanned, notes, chain')
  <2>1. Len(scanned) <= Len(chain) /\ Len(scanned) \in Nat
    BY <1>2, <1>7 DEF Following, Connecting
  <2>2. ASSUME NEW h \in 1..Len(scanned) PROVE scanned[h] = BlockAt(notes, chain', h)
    <3>1. h \in 1..Len(chain) /\ scanned[h] = chain[h]
      BY <1>2, <1>7, <2>1 DEF Following, BlockAt
    <3>2. CASE h <= m
      BY <1>2, <3>1, <3>2 DEF BlockAt
    <3>3. CASE ~(h <= m)
      <4>1. /\ (m + n + 1) - h \in 1..n /\ Len(chain) + 1 - ((m + n + 1) - h) = h
        BY <1>2, <3>1, <3>3
      <4>2. notes[(m + n + 1) - h].block = chain[h]
        BY <1>3, <1>4, <4>1
      <4>3. QED
        BY <1>2, <1>4, <3>1, <3>3, <4>2 DEF BlockAt
    <3>4. QED
      BY <3>2, <3>3
  <2>3. QED
    BY <1>2, <1>4, <1>6, <2>1, <2>2 DEF Following
<1>8. QED
  BY <1>1, <1>2, <1>5, <1>7, LimitsAssumption DEF notes

LEMMA SameSequence ==
    ASSUME NEW S, NEW s \in Seq(S), NEW t \in Seq(S), Len(s) = Len(t),
           \A i \in 1..Len(s) : s[i] = t[i]
    PROVE  s = t
OBVIOUS

\* A notification is delivered: the wallet has indexed the block, has given it back, or
\* has never had it.
LEMMA DeliveredGood ==
    ASSUME NEW th \in Threads, TypeOK, OneThread(th), Announced(todo[th], chain),
           Len(chain) <= MaxHeight, WalletDelivered(th), Good(WalletNow),
           Following(scanned, todo[th], chain)
    PROVE  /\ Good(WalletNow)'
           /\ Following(scanned', todo'[th], chain)
<1> DEFINE notes == todo[th]
           note == Head(notes)
           rest == Tail(notes)
           w == IF note.op = "connect" THEN IndexBlock(WalletNow, note.block, note.height)
                ELSE UnindexBlock(WalletNow, note.block, note.height)
           n == Len(notes)
           c == Len(chain)
           k == Len(scanned)
<1>1. notes # << >> /\ WalletBecomes(w) /\ todo'[th] = rest
  BY DEF WalletDelivered, Delivered, TypeOK
<1>2. /\ notes \in Seq(Notes) /\ rest \in Seq(Notes) /\ note = notes[1] /\ note.block \in Seq(Txs)
      /\ n \in Nat \ {0} /\ Len(rest) = n - 1 /\ \A i \in 1..Len(rest) : rest[i] = notes[i + 1]
      /\ chain \in Seq(Seq(Txs)) /\ c \in Nat
  <2>1. notes \in Seq(Notes) /\ rest \in Seq(Notes) /\ note.block \in Seq(Txs)
    BY <1>1, HeadNote DEF TypeOK
  <2>2. QED
    BY <1>1, <2>1 DEF TypeOK
<1>3. /\ scanned \in Seq(Seq(Txs)) /\ k \in Nat /\ WalletNow.scanned = scanned
      /\ WalletTyped(WalletNow)
  BY WalletFields DEF Good, WalletNow
<1>4. 1 \in 1..n
  BY <1>2
<1> HIDE DEF notes, note, rest, w, n, c, k
\* What is left to show of the wallet that results.
<1>5. ASSUME Good(w), Following(w.scanned, rest, chain)
      PROVE  Good(WalletNow)' /\ Following(scanned', todo'[th], chain)
  <2>1. coins' = w.coins /\ undo' = w.undo /\ scanned' = w.scanned
    BY <1>1 DEF WalletBecomes
  <2>2. w \in Wallets
    BY <1>5 DEF Good, WalletTyped
  <2>3. w = [coins |-> coins', undo |-> undo', scanned |-> scanned']
    BY <2>1, <2>2 DEF Wallets
  <2>4. Good(WalletNow)'
    BY <1>5, <2>3 DEF WalletNow
  <2>5. QED
    BY <1>1, <1>5, <2>1, <2>4
<1>6. CASE note.op = "connect"
  <2>1. n = 1 /\ chain # << >> /\ note.block = chain[c]
    BY <1>2, <1>4, <1>6 DEF OneThread, LastConnected, n, c, notes
  <2>2. note.height = c
    BY <1>2, <1>4, <1>6 DEF Announced, n, c, notes
  <2>3. Connecting(notes)
    BY <1>2, <1>4, <1>6 DEF Connecting, n
  <2>4. k <= c - 1 /\ \A h \in 1..k : scanned[h] = chain[h]
    <3>1. k <= c - 1 /\ \A h \in 1..k : scanned[h] = BlockAt(notes, chain, h)
      BY <2>3 DEF Following, k, c, notes
    <3>2. \A h \in 1..k : h <= c
      BY <1>2, <1>3, <3>1
    <3>3. QED
      BY <3>1, <3>2 DEF BlockAt, c
  <2>5. Len(rest) = 0 /\ ~Connecting(rest)
    BY <1>2, <2>1 DEF Connecting
  <2>6. w = IndexBlock(WalletNow, note.block, c)
    BY <1>6, <2>2 DEF w
  <2>7. CASE c = k + 1
    <3>1. c \in 1..c /\ chain[c] = note.block
      BY <1>2, <2>1, <2>7, <1>3
    <3>2. Append(scanned, note.block) = chain
      <4> DEFINE s == Append(scanned, note.block)
      <4>1. /\ s \in Seq(Seq(Txs)) /\ Len(s) = c /\ s[c] = note.block
            /\ \A h \in 1..k : s[h] = scanned[h]
        BY <1>2, <1>3, <2>7, Appending DEF k
      <4>2. \A h \in 1..c : h = c \/ h \in 1..k
        BY <1>2, <1>3, <2>7
      <4> HIDE DEF s
      <4>3. \A h \in 1..c : s[h] = chain[h]
        BY <2>1, <2>4, <4>1, <4>2
      <4>4. s = chain
        BY <1>2, <4>1, <4>3, SameSequence DEF c
      <4>5. QED
        BY <4>4 DEF s
    <3>3. ChainOK(Append(WalletNow.scanned, note.block)) /\ c = Len(WalletNow.scanned) + 1
          /\ c <= MaxHeight
      BY <1>3, <2>7, <3>2 DEF OneThread, c, k
    <3>4. Good(w) /\ w.scanned = chain
      BY <1>2, <1>3, <2>6, <3>2, <3>3, IndexGood
    <3>5. Following(chain, rest, chain)
      <4>1. \A h \in 1..c : h <= c
        BY <1>2
      <4>2. QED
        BY <1>2, <2>5, <4>1 DEF Following, BlockAt, c
    <3>6. QED
      BY <1>5, <3>4, <3>5
  <2>8. CASE c # k + 1
    <3>1. w = WalletNow
      BY <1>3, <2>6, <2>8 DEF IndexBlock, k
    <3>2. Following(scanned, rest, chain)
      <4>1. k <= c + Len(rest) /\ \A h \in 1..k : h <= c
        BY <1>2, <1>3, <2>4, <2>5
      <4>2. QED
        BY <2>4, <2>5, <4>1 DEF Following, BlockAt, c, k
    <3>3. QED
      BY <1>3, <1>5, <3>1, <3>2
  <2>9. QED
    BY <2>7, <2>8
<1>7. CASE note.op # "connect"
  <2>1. ASSUME NEW i \in 1..n, notes[i].op = "connect" PROVE FALSE
    <3>1. n = 1
      BY <2>1 DEF OneThread, LastConnected, n, notes
    <3>2. i = 1
      BY <3>1
    <3>3. QED
      BY <1>2, <1>7, <2>1, <3>2
  <2>2. ~Connecting(notes) /\ ~Connecting(rest)
    <3>1. \A i \in 1..Len(rest) : i + 1 \in 1..n
      BY <1>2
    <3>2. QED
      BY <1>2, <2>1, <3>1 DEF Connecting, n
  <2>3. note.height = c + n
    <3>1. note.height = (c + n + 1) - 1
      BY <1>2, <1>4, <2>1 DEF Announced, n, c, notes
    <3>2. QED
      BY <1>2, <3>1
  <2>4. k <= c + n /\ \A h \in 1..k : scanned[h] = BlockAt(notes, chain, h)
    BY <2>2 DEF Following, k, c, n, notes
  <2>5. w = UnindexBlock(WalletNow, note.block, c + n)
    BY <1>7, <2>3 DEF w
  \* What is below the block follows the notifications that are left.
  <2>6. ASSUME NEW s \in Seq(Seq(Txs)), Len(s) <= (c + n) - 1,
               \A h \in 1..Len(s) : h \in 1..k /\ s[h] = scanned[h]
        PROVE  Following(s, rest, chain)
    <3>1. ASSUME NEW h \in 1..Len(s) PROVE s[h] = BlockAt(rest, chain, h)
      <4>1. s[h] = BlockAt(notes, chain, h)
        BY <2>4, <2>6
      <4>2. CASE h <= c
        BY <4>1, <4>2 DEF BlockAt, c
      <4>3. CASE ~(h <= c)
        <5>1. /\ (c + Len(rest) + 1) - h \in 1..Len(rest)
              /\ (c + n + 1) - h = ((c + Len(rest) + 1) - h) + 1
          BY <1>2, <2>6, <4>3
        <5>2. rest[(c + Len(rest) + 1) - h] = notes[(c + n + 1) - h]
          <6>1. PICK j \in 1..Len(rest) : j = (c + Len(rest) + 1) - h
            BY <5>1
          <6>2. (c + n + 1) - h = j + 1 /\ rest[j] = notes[j + 1]
            BY <1>2, <5>1, <6>1
          <6>3. QED
            BY <6>1, <6>2
        <5>3. QED
          BY <4>1, <4>3, <5>2 DEF BlockAt, c, n
      <4>4. QED
        BY <4>2, <4>3
    <3>2. Len(s) <= c + Len(rest)
      BY <1>2, <2>6
    <3>3. QED
      BY <2>2, <3>1, <3>2 DEF Following, c
  <2>7. CASE k = c + n
    <3>1. k > 0 /\ k \in 1..k /\ ~(k <= c) /\ (c + n + 1) - k = 1
      <4>1. c \in Nat /\ n \in Nat /\ n >= 1
        BY <1>2
      <4>2. QED
        BY <2>7, <4>1
    <3>2. note.block = scanned[k]
      BY <1>2, <2>4, <3>1 DEF BlockAt, c, n
    <3>3. Good(w) /\ w.scanned = SubSeq(scanned, 1, k - 1)
      BY <1>3, <2>5, <2>7, <3>1, <3>2, UnindexGood DEF k
    <3>4. /\ SubSeq(scanned, 1, k - 1) \in Seq(Seq(Txs))
          /\ Len(SubSeq(scanned, 1, k - 1)) = k - 1
          /\ \A h \in 1..(k - 1) : h \in 1..k /\ SubSeq(scanned, 1, k - 1)[h] = scanned[h]
      <4>1. k \in Nat /\ k = Len(scanned) /\ k > 0 /\ scanned \in Seq(Seq(Txs))
        BY <1>3, <3>1 DEF k
      <4>2. QED
        BY <4>1
    <3>5. Following(SubSeq(scanned, 1, k - 1), rest, chain)
      <4> DEFINE s == SubSeq(scanned, 1, k - 1)
      <4>1. /\ s \in Seq(Seq(Txs)) /\ Len(s) = (c + n) - 1
            /\ \A h \in 1..Len(s) : h \in 1..k /\ s[h] = scanned[h]
        BY <2>7, <3>4
      <4>2. Len(s) <= (c + n) - 1
        BY <1>2, <4>1
      <4> HIDE DEF s
      <4>3. Following(s, rest, chain)
        BY <2>6, <4>1, <4>2
      <4>4. QED
        BY <4>3 DEF s
    <3>6. QED
      BY <1>5, <3>3, <3>5
  <2>8. CASE k # c + n
    <3>1. w = WalletNow
      BY <1>3, <2>5, <2>8 DEF UnindexBlock, k
    <3>2. Len(scanned) <= (c + n) - 1 /\ Len(scanned) = k
      BY <1>2, <1>3, <2>4, <2>8 DEF k
    <3>3. Following(scanned, rest, chain)
      BY <1>3, <2>6, <3>2
    <3>4. QED
      BY <1>3, <1>5, <3>1, <3>3
  <2>9. QED
    BY <2>7, <2>8
<1>8. QED
  BY <1>6, <1>7

LEMMA DeliveredAnnounced ==
    ASSUME NEW th \in Threads, TypeOK, OneThread(th), Announced(todo[th], chain), Delivered(th)
    PROVE  Announced(todo[th], chain)'
<1> DEFINE notes == todo[th]
           rest == Tail(notes)
<1>1. notes # << >> /\ todo'[th] = rest /\ chain' = chain /\ notes \in Seq(Notes)
  BY DEF Delivered, TypeOK
<1>2. /\ Len(notes) \in Nat \ {0} /\ Len(rest) = Len(notes) - 1 /\ Len(chain) \in Nat
      /\ \A i \in 1..Len(rest) : i + 1 \in 1..Len(notes) /\ rest[i] = notes[i + 1]
  BY <1>1 DEF TypeOK
<1>3. /\ \A i \in 1..Len(notes) : notes[i].op = "connect" => Len(notes) = 1
      /\ \A i \in 1..Len(notes) : notes[i].op # "connect" =>
            notes[i].height = (Len(chain) + Len(notes) + 1) - i
  BY DEF OneThread, LastConnected, Announced
<1> HIDE DEF notes, rest
<1>4. ASSUME NEW i \in 1..Len(rest)
      PROVE  rest[i].op # "connect" /\ rest[i].height = (Len(chain) + Len(rest) + 1) - i
  <2>1. i + 1 \in 1..Len(notes) /\ rest[i] = notes[i + 1] /\ Len(notes) # 1
    BY <1>2
  <2>2. rest[i].op # "connect" /\ rest[i].height = (Len(chain) + Len(notes) + 1) - (i + 1)
    BY <1>3, <2>1
  <2>3. QED
    BY <1>2, <2>2
<1>5. Announced(rest, chain)
  BY <1>4 DEF Announced
<1>6. QED
  BY <1>1, <1>5

\* The invariant of the wallet, which a start that finds it on another branch gives up.
WalletFollows(th) ==
    /\ Len(chain) <= MaxHeight /\ Announced(todo[th], chain)
    /\ ~astray => Good(WalletNow) /\ Following(scanned, todo[th], chain)

LEMMA FollowsAtFirst ==
    ASSUME WalletInit, NEW th \in Threads PROVE WalletFollows(th)
<1>1. /\ chain = << >> /\ todo[th] = << >> /\ scanned = << >>
      /\ coins = [o \in OutputsOf({Genesis}) \cap Mine |-> 0]
  BY DEF WalletInit, Init
<1>2. Len(chain) <= MaxHeight /\ Len(scanned) <= MaxHeight
  BY <1>1, LimitsAssumption
<1>3. Announced(todo[th], chain) /\ Following(scanned, todo[th], chain)
  BY <1>1 DEF Announced, Following, Connecting
<1>4. TxsOf(scanned) = {}
  BY <1>1 DEF TxsOf
<1>5. ASSUME NEW o \in Mine, o \in Unspent(scanned)
      PROVE  o \in DOMAIN coins /\ coins[o] \in At(scanned, o)
  <2>1. o \in OutputsOf({Genesis})
    BY <1>4, <1>5 DEF Unspent
  <2>2. o[1] = Genesis
    <3>1. o[1] \in {Genesis}
      BY <2>1, OutputOwner, Zenon
    <3>2. QED
      BY <3>1
  <2>3. HeightIn(scanned, o) = 0
    BY <2>2 DEF HeightIn
  <2>4. QED
    BY <1>1, <2>1, <2>3 DEF At
<1>6. HasCoins(coins, scanned)
  BY <1>5 DEF HasCoins
<1>7. ChainOK(scanned) /\ UndoOK(undo, scanned)
  BY <1>1 DEF ChainOK, UndoOK
<1>8. WalletTyped(WalletNow)
  BY ShapeAtFirst DEF WalletShape
<1>9. Good(WalletNow)
  <2>1. /\ WalletNow.coins = coins /\ WalletNow.undo = undo /\ WalletNow.scanned = scanned
    BY DEF WalletNow
  <2>2. QED
    BY <1>2, <1>6, <1>7, <1>8, <2>1 DEF Good
<1>10. QED
  BY <1>2, <1>3, <1>9 DEF WalletFollows

LEMMA FollowsStays ==
    ASSUME NEW th, Threads = {th}, TypeOK, TypeOK', OneThread(th), WalletShape, WalletFollows(th),
           [WalletNext]_allVars
    PROVE  WalletFollows(th)'
<1>1. /\ th \in Threads /\ todo[th] \in Seq(Notes) /\ chain \in Seq(Seq(Txs))
      /\ Len(chain) <= MaxHeight /\ Announced(todo[th], chain) /\ IsFiniteSet(pool.map)
      /\ scanned \in Seq(Seq(Txs)) /\ astray \in BOOLEAN
  BY WalletFields DEF TypeOK, WalletFollows, WalletShape, WalletNow
<1>2. ASSUME UNCHANGED <<chain, undo, scanned, astray>>,
             todo' = todo \/ \E u \in Threads : \E op, n : Proceed(u, op, n),
             \/ coins' = coins
             \/ \E V \in SUBSET pool.map : \E t \in Txs : coins' = Indexed(Evicted(V), t)
             \/ \E R : coins' = Unindexed(coins, R)
      PROVE  WalletFollows(th)'
  <2>1. SameNotes(todo[th], todo'[th])
    <3>1. CASE todo' = todo
      BY <3>1 DEF SameNotes
    <3>2. QED
      BY <1>1, <1>2, <3>1, ProceedSame
  <2>2. /\ Announced(todo'[th], chain)
        /\ Following(scanned, todo[th], chain) => Following(scanned, todo'[th], chain)
    BY <1>1, <2>1, SameFollowing
  <2>3. Good(WalletNow) => Good(WalletNow)'
    BY <1>1, <1>2, CoinsGood
  <2>4. (Announced(todo[th], chain) /\ Len(chain) <= MaxHeight)'
    BY <1>1, <1>2, <2>2
  <2>5. ASSUME ~astray' PROVE (Good(WalletNow) /\ Following(scanned, todo[th], chain))'
    BY <1>2, <2>2, <2>3, <2>5 DEF WalletFollows
  <2>6. QED
    BY <2>4, <2>5 DEF WalletFollows
<1>3. ASSUME UNCHANGED walletVars,
             \/ \E b \in Blocks : Connect(th, b)
             \/ \E h \in 0..(Len(chain) - 1) : Rewind(th, h)
      PROVE  WalletFollows(th)'
  <2>1. /\ Announced(todo'[th], chain') /\ Len(chain') <= MaxHeight
        /\ Following(scanned, todo[th], chain) => Following(scanned, todo'[th], chain')
    BY <1>1, <1>3, ConnectFollowing, RewindFollowing
  <2>2. UNCHANGED <<scanned, astray>> /\ WalletNow' = WalletNow
    BY <1>3 DEF walletVars, WalletNow
  <2>3. ASSUME ~astray' PROVE (Good(WalletNow) /\ Following(scanned, todo[th], chain))'
    BY <2>1, <2>2, <2>3 DEF WalletFollows
  <2>4. QED
    BY <2>1, <2>3 DEF WalletFollows
<1>4. ASSUME WalletDelivered(th) PROVE WalletFollows(th)'
  <2>1. Delivered(th) /\ UNCHANGED <<chain, astray>>
    BY <1>4 DEF WalletDelivered, Delivered
  <2>2. Announced(todo[th], chain)' /\ (Len(chain) <= MaxHeight)'
    BY <1>1, <2>1, DeliveredAnnounced
  <2>3. ASSUME ~astray' PROVE (Good(WalletNow) /\ Following(scanned, todo[th], chain))'
    <3>1. Good(WalletNow) /\ Following(scanned, todo[th], chain)
      BY <2>1, <2>3 DEF WalletFollows
    <3>2. Good(WalletNow)' /\ Following(scanned', todo'[th], chain)
      BY <1>1, <1>4, <3>1, DeliveredGood
    <3>3. QED
      BY <2>1, <3>2
  <2>4. QED
    BY <2>2, <2>3 DEF WalletFollows
<1>5. ASSUME WalletRestart PROVE WalletFollows(th)'
  <2>1. todo'[th] = << >> /\ UNCHANGED chain /\ astray' = (astray \/ ~IsPrefix(scanned, chain))
    BY <1>1, <1>5 DEF WalletRestart, Restart
  <2>2. Announced(todo'[th], chain)
    BY <2>1 DEF Announced
  <2>3. ASSUME ~astray' PROVE (Good(WalletNow) /\ Following(scanned, todo[th], chain))'
    <3>1. Good(WalletNow) /\ IsPrefix(scanned, chain)
      BY <2>1, <2>3 DEF WalletFollows
    <3>2. /\ Good(WalletNow)' /\ Len(scanned') <= Len(chain)
          /\ \A i \in 1..Len(scanned') : scanned'[i] = chain[i]
      BY <1>1, <1>5, <3>1, RestartGood DEF OneThread
    <3>3. Len(scanned') \in Nat /\ Len(chain) \in Nat
      <4>1. scanned' \in Seq(Seq(Txs))
        BY <3>2, WalletFields DEF Good, WalletNow
      <4>2. QED
        BY <1>1, <4>1
    <3>4. \A i \in 1..Len(scanned') : i <= Len(chain)
      BY <3>2, <3>3
    <3>5. Following(scanned', << >>, chain)
      BY <3>2, <3>3, <3>4 DEF Following, Connecting, BlockAt
    <3>6. QED
      BY <2>1, <3>2, <3>5
  <2>4. (Announced(todo[th], chain) /\ Len(chain) <= MaxHeight)'
    BY <1>1, <2>1, <2>2
  <2>5. QED
    BY <2>3, <2>4 DEF WalletFollows
<1>6. QED
  BY <1>1, <1>2, <1>3, <1>4, <1>5, CoinStep

\* With one caller of the chain, a wallet has every output of its own that is unspent in
\* the blocks it has indexed, at its height, free or spent by the mempool, whatever the
\* mempool takes in, evicts and forgets, the chain connects and disconnects, and restarts
\* interrupt - until one finds that it has stopped on a branch which was disconnected.
THEOREM NothingLostCorrect ==
    ASSUME NEW th, Threads = {th}
    PROVE  WalletSpec => []NothingLost
<1>1. WalletInit => OneThread(th) /\ WalletFollows(th)
  <2>1. Init => OneThread(th)
    BY DEF Init, OneThread, ChainOK, LastConnected, EmptyPool
  <2>2. QED
    BY <2>1, FollowsAtFirst DEF WalletInit
<1>2. /\ TypeOK /\ TypeOK' /\ WalletShape /\ OneThread(th) /\ WalletFollows(th)
      /\ [WalletNext]_allVars
      => (OneThread(th) /\ WalletFollows(th))'
  <2>1. [WalletNext]_allVars => [Next]_vars
    BY WalletStep DEF allVars
  <2>2. QED
    BY <2>1, OneThreadStep, FollowsStays
<1>3. WalletFollows(th) => NothingLost
  <2> SUFFICES ASSUME WalletFollows(th), ~astray,
                      NEW o \in Mine \cap Unspent(scanned)
               PROVE  /\ o \in DOMAIN coins
                      /\ coins[o] \in {HeightIn(scanned, o), Mark(HeightIn(scanned, o))}
    BY DEF NothingLost
  <2>1. HasCoins(coins, scanned)
    BY DEF WalletFollows, Good, WalletNow
  <2>2. QED
    BY <2>1 DEF HasCoins, At
<1>4. QED
  BY <1>1, <1>2, <1>3, ShapeCorrect, WalletListens, TypeCorrect, PTL DEF WalletSpec
================================================================================
