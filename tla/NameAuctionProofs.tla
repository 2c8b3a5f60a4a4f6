-------------------------- MODULE NameAuctionProofs ---------------------------
(***************************************************************************)
(* Theorems about module NameAuction, for all names, periods and values.   *)
(***************************************************************************)
EXTENDS NameAuction, TLAPS, SequenceTheorems

-----------------------------------------------------------------------------
(* The inductive invariant *)

\* The owner of a name is one of the outputs made for this name.
OwnerMade ==
    \A n \in DOMAIN names : names[n].owner # NoOwner =>
        \E k \in 1..made[n] : names[n].owner = <<n, k>>

\* No height in a name state is ahead of the block, and the auction is the
\* oldest of them: a name that is expired starts again at a new height.
HeightsInOrder ==
    \A n \in DOMAIN names :
        /\ names[n].height <= height /\ names[n].height <= names[n].renewal
        /\ names[n].revoked # 0 => names[n].height <= names[n].revoked

\* What only the registration of a name brings about, and its first reveal.
AuctionFirst ==
    \A n \in DOMAIN names :
        /\ names[n].registered => names[n].owner # NoOwner
        /\ ~names[n].registered =>
            /\ names[n].transfer = 0 /\ names[n].revoked = 0
            /\ names[n].owner # NoOwner => RevealStart(names[n]) <= height

\* The owner's output is a REVEAL until the name is registered.
OwnerType ==
    \A n \in DOMAIN names : names[n].owner \in DOMAIN coins =>
        IF names[n].registered
        THEN coins[names[n].owner].type \in OwnerTypes
        ELSE coins[names[n].owner].type = "reveal"

\* The outputs of earlier auctions are older than the current one.
CoinsInOrder ==
    \A c \in DOMAIN coins : coins[c].type \in OwnerTypes =>
        c[1] \in DOMAIN names /\ coins[c].auction <= names[c[1]].height

IInv ==
    /\ TypeOK /\ ReplayAgrees
    /\ OwnerMade /\ HeightsInOrder /\ AuctionFirst /\ OwnerType /\ CoinsInOrder
    /\ OneOwner /\ TransferClock /\ SecondPrice
    /\ NoDelegation /\ SubdomainsHaveParents

-----------------------------------------------------------------------------
(* Lemmas about the operators *)

\* An outpoint is not the missing owner.
LEMMA OutpointIsNotNoOwner ==
    ASSUME NEW n, NEW k
    PROVE  <<n, k>> # NoOwner
  BY DEF NoOwner

LEMMA NewNameTyped ==
    ASSUME NEW h \in Nat
    PROVE  NewName(h) \in NameState
  BY NamesAssumption DEF NewName, NameState, NoOwner

\* What an expiry keeps, and that it never yields a name that is closed.
LEMMA MaybeExpireFacts ==
    ASSUME NEW ns \in NameState, NEW h \in Nat
    PROVE  /\ MaybeExpire(ns, h) \in NameState
           /\ MaybeExpire(ns, h).flag = ns.flag /\ MaybeExpire(ns, h).data = ns.data
           /\ \/ MaybeExpire(ns, h) = ns
              \/ /\ IsExpired(ns, h)
                 /\ MaybeExpire(ns, h) = [NewName(h) EXCEPT !.data = ns.data, !.flag = ns.flag]
                 /\ State(MaybeExpire(ns, h), h) = "opening"
<1>1. CASE ~IsExpired(ns, h)
  BY <1>1 DEF MaybeExpire
<1>2. CASE IsExpired(ns, h)
  <2> DEFINE m == [NewName(h) EXCEPT !.data = ns.data, !.flag = ns.flag]
  <2>1. MaybeExpire(ns, h) = m
    BY <1>2 DEF MaybeExpire
  <2>2. m \in NameState /\ m.flag = ns.flag /\ m.data = ns.data
    BY NewNameTyped DEF NewName, NameState
  <2>3. m.revoked = 0 /\ ~m.registered /\ m.height = h
    BY DEF NewName
  <2>4. h < h + OpenPeriod /\ h < h + OpenPeriod + BiddingPeriod + RevealPeriod
    BY PeriodsAssumption
  <2> HIDE DEF m
  <2>5. State(m, h) = "opening"
    BY <2>3, <2>4, PeriodsAssumption DEF State, BidStart, RevealStart, RevealEnd
  <2> QED
    BY <1>2, <2>1, <2>2, <2>5 DEF m
<1> QED
  BY <1>1, <1>2

LEMMA PeriodFacts ==
    ASSUME NEW ns \in NameState
    PROVE  /\ ns.height \in Nat
           /\ BidStart(ns) \in Nat /\ BidStart(ns) > ns.height
           /\ RevealStart(ns) \in Nat /\ RevealStart(ns) > BidStart(ns)
           /\ RevealEnd(ns) \in Nat /\ RevealEnd(ns) > RevealStart(ns)
           /\ RegisterBy(ns) \in Nat /\ RegisterBy(ns) > RevealEnd(ns)
<1>1. ns.height \in Nat
  BY DEF NameState
<1>2. /\ OpenPeriod \in Nat \ {0} /\ BiddingPeriod \in Nat \ {0}
      /\ RevealPeriod \in Nat \ {0} /\ RegisterDeadline \in Nat \ {0}
  BY PeriodsAssumption
<1> QED
  BY <1>1, <1>2 DEF BidStart, RevealStart, RevealEnd, RegisterBy

LEMMA StateFacts ==
    ASSUME NEW ns \in NameState, NEW h \in Nat
    PROVE  /\ State(ns, h) = "closed" =>
                ns.revoked = 0 /\ (ns.registered \/ h >= RevealEnd(ns))
           /\ State(ns, h) = "opening" =>
                ns.revoked = 0 /\ ~ns.registered /\ h < BidStart(ns)
           /\ State(ns, h) \in {"bidding", "reveal"} => ns.revoked = 0 /\ ~ns.registered
           /\ State(ns, h) = "reveal" => h >= RevealStart(ns)
  BY PeriodFacts DEF State

\* A name that is not opening is not expired either: it is taken as it is stored.
LEMMA InStateFacts ==
    ASSUME TypeOK, NEW n \in Names, NEW S, "opening" \notin S, InState(n, S)
    PROVE  /\ n \in DOMAIN names /\ names[n] \in NameState
           /\ Current(n) = names[n]
           /\ State(names[n], height) \in S
<1>1. n \in DOMAIN names /\ names[n] \in NameState /\ height \in Nat
  BY DEF InState, TypeOK
<1>2. Current(n) = names[n]
  BY <1>1, MaybeExpireFacts DEF InState, Current
<1> QED
  BY <1>1, <1>2 DEF InState

\* The new output is new, the other coins stay what they are.
LEMMA MoveFacts ==
    ASSUME TypeOK, NEW n \in Names, NEW c, NEW coin, Move(n, c, coin)
    PROVE  /\ NextOutpoint(n) \notin DOMAIN coins
           /\ DOMAIN coins' = (DOMAIN coins \ {c}) \cup {NextOutpoint(n)}
           /\ coins'[NextOutpoint(n)] = coin
           /\ \A d \in DOMAIN coins \ {c} : coins'[d] = coins[d]
           /\ made' \in [Names -> Nat]
           /\ made'[n] = made[n] + 1
           /\ \A m \in Names : m # n => made'[m] = made[m]
<1>1. NextOutpoint(n) \notin DOMAIN coins
  <2> SUFFICES ASSUME NextOutpoint(n) \in DOMAIN coins PROVE FALSE
    OBVIOUS
  <2>1. PICK m \in Names : \E k \in 1..made[m] : NextOutpoint(n) = <<m, k>>
    BY DEF TypeOK
  <2>2. made[n] + 1 \in 1..made[n]
    BY <2>1 DEF NextOutpoint
  <2> QED
    BY <2>1, <2>2 DEF TypeOK
<1> DEFINE kept == [d \in DOMAIN coins \ {c} |-> coins[d]]
<1>2. coins' = With(kept, NextOutpoint(n), coin)
  BY DEF Move
<1>3. DOMAIN kept = DOMAIN coins \ {c} /\ \A d \in DOMAIN coins \ {c} : kept[d] = coins[d]
  OBVIOUS
<1> HIDE DEF kept
<1>6. \A x : /\ DOMAIN With(kept, x, coin) = DOMAIN kept \cup {x}
             /\ With(kept, x, coin)[x] = coin
             /\ \A d \in DOMAIN kept : d # x => With(kept, x, coin)[d] = kept[d]
  BY DEF With
<1>4. /\ DOMAIN coins' = DOMAIN kept \cup {NextOutpoint(n)}
      /\ coins'[NextOutpoint(n)] = coin
      /\ \A d \in DOMAIN kept : d # NextOutpoint(n) => coins'[d] = kept[d]
  BY <1>2, <1>6
<1>5. /\ made' \in [Names -> Nat] /\ made'[n] = made[n] + 1
      /\ \A m \in Names : m # n => made'[m] = made[m]
  BY DEF Move, TypeOK
<1> QED
  BY <1>1, <1>3, <1>4, <1>5

LEMMA PutFacts ==
    ASSUME NEW n, NEW ns, NEW cov, Put(n, ns, cov)
    PROVE  /\ DOMAIN names' = DOMAIN names \cup {n}
           /\ names'[n] = ns
           /\ \A m \in DOMAIN names : m # n => names'[m] = names[m]
           /\ height' = height
<1>1. names' = With(names, n, ns) /\ height' = height
  BY DEF Put
<1>2. /\ DOMAIN With(names, n, ns) = DOMAIN names \cup {n}
      /\ With(names, n, ns)[n] = ns
      /\ \A m \in DOMAIN names : m # n => With(names, n, ns)[m] = names[m]
  BY DEF With
<1> QED
  BY <1>1, <1>2

\* What replayCovenants starts from is what processCovenants starts from.
LEMMA ReplayStart ==
    ASSUME ReplayAgrees, NEW n \in DOMAIN names
    PROVE  ReplayFrom(n) = Current(n)
  BY DEF ReplayAgrees, ReplayFrom, Current

-----------------------------------------------------------------------------
(* The covenants of an owner *)

\* What the covenants that spend the owner's output have in common: the name
\* keeps its auction, becomes or stays registered, and points to the new output,
\* except that of a REVOKE.
OwnerStep(n, c, ns, coin) ==
    /\ n \in DOMAIN names /\ c \in DOMAIN coins
    /\ names[n].owner = c /\ names[n].revoked = 0
    /\ ns \in NameState /\ coin \in CoinEntry
    /\ ns.height = names[n].height /\ ns.height <= ns.renewal /\ ns.registered
    /\ (names[n].flag => ns.flag) /\ (ns.flag => ns.data # "delegation")
    /\ coin.type \in OwnerTypes \cup {"revoke"} /\ coin.auction = ns.height
    /\ IF coin.type = "revoke"
       THEN ns.owner = c /\ ns.revoked = height
       ELSE /\ ns.owner = NextOutpoint(n) /\ ns.revoked = 0
            /\ ns.transfer = IF coin.type = "transfer" THEN coin.at ELSE 0
    /\ \E cov : Put(n, ns, cov)
    /\ Move(n, c, coin)
    /\ replayed' = names' /\ reveals' = reveals

\* A replay that computes what processCovenants puts leaves the two equal.
LEMMA ReplayedPut ==
    ASSUME ReplayAgrees, NEW n, NEW ns, NEW cov, Put(n, ns, cov),
           Replay(n, cov, NextOutpoint(n)) = ns
    PROVE  replayed' = names'
  BY DEF Put, ReplayAgrees

LEMMA OwnerFacts ==
    ASSUME IInv, NEW n \in Names, NEW c \in DOMAIN coins, NEW types \in SUBSET OwnerTypes,
           ByOwner(n, c, types)
    PROVE  /\ n \in DOMAIN names /\ names[n] \in NameState /\ Current(n) = names[n]
           /\ names[n].owner = c /\ names[n].revoked = 0 /\ names[n].registered
           /\ names[n].height <= names[n].renewal /\ names[n].height <= height
           /\ names[n].height \in Nat /\ height \in Nat
           /\ names[n].flag => names[n].data # "delegation"
           /\ coins[c].type \in types
           /\ coins[c].addr \in Addresses /\ coins[c].target \in Addresses
           /\ ReplayFrom(n) = names[n]
           /\ NextOutpoint(n) \in Outpoints
<1>1. TypeOK /\ ReplayAgrees /\ HeightsInOrder /\ OwnerType /\ NoDelegation
  BY DEF IInv
<1>2. InState(n, {"closed"}) /\ coins[c].type \in types /\ Current(n).owner = c
  BY DEF ByOwner
<1>3. /\ n \in DOMAIN names /\ names[n] \in NameState /\ Current(n) = names[n]
      /\ State(names[n], height) = "closed"
  BY <1>1, <1>2, InStateFacts
<1>4. names[n].owner = c /\ height \in Nat
  BY <1>1, <1>2, <1>3 DEF TypeOK
<1>5. names[n].revoked = 0
  BY <1>3, <1>4, StateFacts
<1>6. names[n].registered
  BY <1>1, <1>2, <1>3, <1>4 DEF OwnerType, OwnerTypes
<1>7. coins[c].addr \in Addresses /\ coins[c].target \in Addresses
  BY <1>1, <1>2 DEF TypeOK, CoinEntry, OwnerTypes
<1>8. ReplayFrom(n) = names[n]
  BY <1>1, <1>3, ReplayStart
<1>9. names[n].height \in Nat
  BY <1>3 DEF NameState
<1>10. NextOutpoint(n) \in Outpoints
  BY <1>1 DEF TypeOK, NextOutpoint, Outpoints
<1> QED
  BY <1>1, <1>2, <1>3, <1>4, <1>5, <1>6, <1>7, <1>8, <1>9, <1>10
     DEF HeightsInOrder, NoDelegation

LEMMA OwnerCoinTyped ==
    ASSUME NEW type \in OwnerTypes \cup {"revoke"}, NEW auction \in Nat,
           NEW addr \in Addresses, NEW target \in Addresses, height \in Nat
    PROVE  /\ OwnerCoin(type, auction, addr, target) \in CoinEntry
           /\ OwnerCoin(type, auction, addr, target).type = type
           /\ OwnerCoin(type, auction, addr, target).auction = auction
           /\ OwnerCoin(type, auction, addr, target).at = height
  BY DEF OwnerCoin, CoinEntry

LEMMA RenewStep ==
    ASSUME IInv, NEW n \in Names, NEW c \in DOMAIN coins, Renew(n, c)
    PROVE  \E ns, coin : OwnerStep(n, c, ns, coin)
<1> DEFINE ns == [names[n] EXCEPT !.owner = NextOutpoint(n), !.transfer = 0, !.renewal = height]
           coin == OwnerCoin("renew", names[n].height, coins[c].addr, coins[c].addr)
           cov == [type |-> "renew"]
<1>1. ByOwner(n, c, OwnerTypes)
  BY DEF Renew
<1>2. /\ n \in DOMAIN names /\ names[n] \in NameState /\ Current(n) = names[n]
      /\ names[n].owner = c /\ names[n].revoked = 0 /\ names[n].registered
      /\ names[n].height <= height
      /\ names[n].height \in Nat /\ height \in Nat
      /\ names[n].flag => names[n].data # "delegation"
      /\ coins[c].addr \in Addresses
      /\ ReplayFrom(n) = names[n] /\ NextOutpoint(n) \in Outpoints
  BY <1>1, OwnerFacts
<1>3. Put(n, ns, cov) /\ Move(n, c, coin) /\ reveals' = reveals
  BY <1>2 DEF Renew
<1>4. Replay(n, cov, NextOutpoint(n)) = ns
  BY <1>2 DEF Replay
<1>5. replayed' = names'
  BY <1>3, <1>4, ReplayedPut DEF IInv
<1>6. /\ ns \in NameState /\ ns.height = names[n].height /\ ns.renewal = height
      /\ ns.owner = NextOutpoint(n) /\ ns.revoked = 0 /\ ns.transfer = 0
      /\ ns.data = names[n].data
  BY <1>2 DEF NameState
<1>7. (ns.flag <=> names[n].flag) /\ ns.registered
  BY <1>2 DEF NameState
<1>8. coin \in CoinEntry /\ coin.type = "renew" /\ coin.auction = names[n].height
  BY <1>2, OwnerCoinTyped DEF OwnerTypes
<1> HIDE DEF ns, coin, cov
<1> QED
  BY <1>2, <1>3, <1>5, <1>6, <1>7, <1>8 DEF OwnerStep, OwnerTypes

LEMMA UpdateStep ==
    ASSUME IInv, NEW n \in Names, NEW c \in DOMAIN coins, NEW data \in Resources,
           NEW flag \in FlagItems,
           Update(n, c, data, flag)
    PROVE  \E ns, coin : OwnerStep(n, c, ns, coin)
<1> DEFINE ns == [names[n] EXCEPT !.flag = FlagAfter(names[n], flag), !.data = data,
                            !.owner = NextOutpoint(n), !.transfer = 0]
           coin == OwnerCoin("update", names[n].height, coins[c].addr, coins[c].addr)
           cov == [type |-> "update", data |-> data, flag |-> flag]
<1>1. ByOwner(n, c, OwnerTypes) /\ ResourceAllowed(Current(n), data, flag)
  BY DEF Update
<1>2. /\ n \in DOMAIN names /\ names[n] \in NameState /\ Current(n) = names[n]
      /\ names[n].owner = c /\ names[n].revoked = 0 /\ names[n].registered
      /\ names[n].height <= names[n].renewal /\ names[n].height <= height
      /\ names[n].height \in Nat /\ height \in Nat
      /\ names[n].flag => names[n].data # "delegation"
      /\ coins[c].addr \in Addresses /\ coins[c].target \in Addresses
      /\ ReplayFrom(n) = names[n] /\ NextOutpoint(n) \in Outpoints
  BY <1>1, OwnerFacts
<1>3. Put(n, ns, cov) /\ Move(n, c, coin) /\ reveals' = reveals
  BY <1>2 DEF Update
<1>4. Replay(n, cov, NextOutpoint(n)) = ns
  BY <1>2 DEF Replay
<1>5. replayed' = names'
  BY <1>3, <1>4, ReplayedPut DEF IInv
<1>6. /\ ns \in NameState /\ ns.height = names[n].height /\ ns.height <= ns.renewal
      /\ ns.owner = NextOutpoint(n) /\ ns.revoked = 0 /\ ns.transfer = 0
  BY <1>1, <1>2 DEF NameState, ResourceAllowed, FlagAfter, FlagItems
<1>7. ns.registered /\ (names[n].flag => ns.flag) /\ (ns.flag => ns.data # "delegation")
  BY <1>1, <1>2 DEF NameState, ResourceAllowed, FlagAfter, FlagItems
<1>8. /\ coin \in CoinEntry /\ coin.type = "update" /\ coin.auction = names[n].height
      /\ coin.at = height
  BY <1>2, OwnerCoinTyped DEF OwnerTypes
<1> HIDE DEF ns, coin, cov
<1> QED
  BY <1>2, <1>3, <1>5, <1>6, <1>7, <1>8 DEF OwnerStep, OwnerTypes

LEMMA TransferStep ==
    ASSUME IInv, NEW n \in Names, NEW c \in DOMAIN coins, NEW addr \in Addresses,
           NEW target \in Addresses,
           Transfer(n, c, addr, target)
    PROVE  \E ns, coin : OwnerStep(n, c, ns, coin)
<1> DEFINE ns == [names[n] EXCEPT !.owner = NextOutpoint(n), !.transfer = height]
           coin == OwnerCoin("transfer", names[n].height, addr, target)
           cov == [type |-> "transfer"]
<1>1. ByOwner(n, c, OwnerTypes \ {"transfer"})
  BY DEF Transfer
<1>2. /\ n \in DOMAIN names /\ names[n] \in NameState /\ Current(n) = names[n]
      /\ names[n].owner = c /\ names[n].revoked = 0 /\ names[n].registered
      /\ names[n].height <= names[n].renewal /\ names[n].height <= height
      /\ names[n].height \in Nat /\ height \in Nat
      /\ names[n].flag => names[n].data # "delegation"
      /\ coins[c].addr \in Addresses /\ coins[c].target \in Addresses
      /\ ReplayFrom(n) = names[n] /\ NextOutpoint(n) \in Outpoints
  BY <1>1, OwnerFacts
<1>3. Put(n, ns, cov) /\ Move(n, c, coin) /\ reveals' = reveals
  BY <1>2 DEF Transfer
<1>4. Replay(n, cov, NextOutpoint(n)) = ns
  BY <1>2 DEF Replay
<1>5. replayed' = names'
  BY <1>3, <1>4, ReplayedPut DEF IInv
<1>6. /\ ns \in NameState /\ ns.height = names[n].height /\ ns.height <= ns.renewal
      /\ ns.owner = NextOutpoint(n) /\ ns.revoked = 0 /\ ns.transfer = height
  BY <1>1, <1>2 DEF NameState
<1>7. ns.registered /\ (names[n].flag => ns.flag) /\ (ns.flag => ns.data # "delegation")
  BY <1>1, <1>2 DEF NameState
<1>8. /\ coin \in CoinEntry /\ coin.type = "transfer" /\ coin.auction = names[n].height
      /\ coin.at = height
  BY <1>2, OwnerCoinTyped DEF OwnerTypes
<1> HIDE DEF ns, coin, cov
<1> QED
  BY <1>2, <1>3, <1>5, <1>6, <1>7, <1>8 DEF OwnerStep, OwnerTypes

LEMMA FinalizeStep ==
    ASSUME IInv, NEW n \in Names, NEW c \in DOMAIN coins,
           Finalize(n, c)
    PROVE  \E ns, coin : OwnerStep(n, c, ns, coin)
<1> DEFINE ns == [names[n] EXCEPT !.owner = NextOutpoint(n), !.transfer = 0]
           coin == OwnerCoin("finalize", names[n].height, coins[c].target, coins[c].target)
           cov == [type |-> "finalize"]
<1>1. ByOwner(n, c, {"transfer"})
  BY DEF Finalize
<1>2. /\ n \in DOMAIN names /\ names[n] \in NameState /\ Current(n) = names[n]
      /\ names[n].owner = c /\ names[n].revoked = 0 /\ names[n].registered
      /\ names[n].height <= names[n].renewal /\ names[n].height <= height
      /\ names[n].height \in Nat /\ height \in Nat
      /\ names[n].flag => names[n].data # "delegation"
      /\ coins[c].addr \in Addresses /\ coins[c].target \in Addresses
      /\ ReplayFrom(n) = names[n] /\ NextOutpoint(n) \in Outpoints
  BY <1>1, OwnerFacts DEF OwnerTypes
<1>3. Put(n, ns, cov) /\ Move(n, c, coin) /\ reveals' = reveals
  BY <1>2 DEF Finalize
<1>4. Replay(n, cov, NextOutpoint(n)) = ns
  BY <1>2 DEF Replay
<1>5. replayed' = names'
  BY <1>3, <1>4, ReplayedPut DEF IInv
<1>6. /\ ns \in NameState /\ ns.height = names[n].height /\ ns.height <= ns.renewal
      /\ ns.owner = NextOutpoint(n) /\ ns.revoked = 0 /\ ns.transfer = 0
  BY <1>1, <1>2 DEF NameState
<1>7. ns.registered /\ (names[n].flag => ns.flag) /\ (ns.flag => ns.data # "delegation")
  BY <1>1, <1>2 DEF NameState
<1>8. /\ coin \in CoinEntry /\ coin.type = "finalize" /\ coin.auction = names[n].height
      /\ coin.at = height
  BY <1>2, OwnerCoinTyped DEF OwnerTypes
<1> HIDE DEF ns, coin, cov
<1> QED
  BY <1>2, <1>3, <1>5, <1>6, <1>7, <1>8 DEF OwnerStep, OwnerTypes

LEMMA RevokeStep ==
    ASSUME IInv, NEW n \in Names, NEW c \in DOMAIN coins,
           Revoke(n, c)
    PROVE  \E ns, coin : OwnerStep(n, c, ns, coin)
<1> DEFINE ns == [names[n] EXCEPT !.revoked = height, !.transfer = 0, !.data = "empty"]
           coin == OwnerCoin("revoke", names[n].height, coins[c].addr, coins[c].addr)
           cov == [type |-> "revoke"]
<1>1. ByOwner(n, c, OwnerTypes)
  BY DEF Revoke
<1>2. /\ n \in DOMAIN names /\ names[n] \in NameState /\ Current(n) = names[n]
      /\ names[n].owner = c /\ names[n].revoked = 0 /\ names[n].registered
      /\ names[n].height <= names[n].renewal /\ names[n].height <= height
      /\ names[n].height \in Nat /\ height \in Nat
      /\ names[n].flag => names[n].data # "delegation"
      /\ coins[c].addr \in Addresses /\ coins[c].target \in Addresses
      /\ ReplayFrom(n) = names[n] /\ NextOutpoint(n) \in Outpoints
  BY <1>1, OwnerFacts
<1>3. Put(n, ns, cov) /\ Move(n, c, coin) /\ reveals' = reveals
  BY <1>2 DEF Revoke
<1>4. Replay(n, cov, NextOutpoint(n)) = ns
  BY <1>2 DEF Replay
<1>5. replayed' = names'
  BY <1>3, <1>4, ReplayedPut DEF IInv
<1>6. /\ ns \in NameState /\ ns.height = names[n].height /\ ns.height <= ns.renewal
      /\ ns.owner = c /\ ns.revoked = height /\ ns.transfer = 0
  BY <1>1, <1>2, NamesAssumption DEF NameState
<1>7. ns.registered /\ (names[n].flag => ns.flag) /\ (ns.flag => ns.data # "delegation")
  BY <1>1, <1>2 DEF NameState
<1>8. /\ coin \in CoinEntry /\ coin.type = "revoke" /\ coin.auction = names[n].height
      /\ coin.at = height
  BY <1>2, OwnerCoinTyped DEF OwnerTypes
<1> HIDE DEF ns, coin, cov
<1> QED
  BY <1>2, <1>3, <1>5, <1>6, <1>7, <1>8 DEF OwnerStep, OwnerTypes

\* REGISTER: the first output that proves ownership.
LEMMA RegisterStep ==
    ASSUME IInv, NEW n \in Names, NEW c \in DOMAIN coins, NEW addr \in Addresses,
           NEW data \in Resources, NEW flag \in FlagItems,
           Register(n, c, addr, data, flag)
    PROVE  \E ns, coin : OwnerStep(n, c, ns, coin)
<1> DEFINE ns == [names[n] EXCEPT !.registered = TRUE, !.value = Price(names[n]),
                            !.owner = NextOutpoint(n), !.data = data,
                            !.renewal = height, !.flag = FlagAfter(names[n], flag)]
           coin == OwnerCoin("register", names[n].height, addr, addr)
           cov == [type |-> "register", data |-> data, flag |-> flag]
<1>1. TypeOK /\ ReplayAgrees /\ HeightsInOrder /\ OwnerType /\ TransferClock
  BY DEF IInv
<1>2. InState(n, {"closed"}) /\ IsWinner(n, c) /\ ResourceAllowed(Current(n), data, flag)
  BY DEF Register
<1>3. /\ n \in DOMAIN names /\ names[n] \in NameState /\ Current(n) = names[n]
      /\ State(names[n], height) = "closed" /\ height \in Nat
  BY <1>1, <1>2, InStateFacts DEF TypeOK
<1>4. names[n].owner = c /\ coins[c].type = "reveal" /\ names[n].revoked = 0
  BY <1>2, <1>3, StateFacts DEF IsWinner
<1>5. names[n].transfer = 0
  BY <1>1, <1>3, <1>4 DEF TransferClock
<1>6. NextOutpoint(n) \in Outpoints
  BY <1>1 DEF TypeOK, NextOutpoint, Outpoints
<1>7. Put(n, ns, cov) /\ Move(n, c, coin) /\ reveals' = reveals
  BY <1>3 DEF Register
<1>8. Replay(n, cov, NextOutpoint(n)) = ns
  BY <1>1, <1>3, ReplayStart DEF Replay
<1>9. replayed' = names'
  BY <1>1, <1>7, <1>8, ReplayedPut
<1>10. names[n].height \in Nat /\ names[n].height <= height /\ Price(names[n]) \in Nat
  BY <1>1, <1>3, PeriodsAssumption DEF HeightsInOrder, NameState, Price
<1>11. FlagAfter(names[n], flag) \in BOOLEAN
  BY <1>3 DEF FlagAfter, NameState, FlagItems
<1>12. /\ ns \in NameState /\ ns.height = names[n].height /\ ns.height <= ns.renewal
       /\ ns.owner = NextOutpoint(n) /\ ns.revoked = 0 /\ ns.transfer = 0
       /\ ns.data = data
  BY <1>3, <1>4, <1>5, <1>6, <1>10, <1>11 DEF NameState
<1>13. ns.registered /\ (names[n].flag => ns.flag) /\ (ns.flag => ns.data # "delegation")
  BY <1>2, <1>3, <1>12 DEF NameState, ResourceAllowed, FlagAfter, FlagItems
<1>14. coin \in CoinEntry /\ coin.type = "register" /\ coin.auction = names[n].height
  BY <1>3, <1>10, OwnerCoinTyped DEF OwnerTypes
<1> HIDE DEF ns, coin, cov
<1> QED
  BY <1>3, <1>4, <1>7, <1>9, <1>12, <1>13, <1>14 DEF OwnerStep, OwnerTypes

-----------------------------------------------------------------------------
(* The steps preserve the invariant *)

\* What a new output does to the coins, whatever becomes of the names.
LEMMA MoveKeepsCoins ==
    ASSUME TypeOK, NEW n \in Names, NEW c, NEW coin \in CoinEntry, Move(n, c, coin)
    PROVE  \A d \in DOMAIN coins' :
                coins'[d] \in CoinEntry /\ \E m \in Names : \E k \in 1..made'[m] : d = <<m, k>>
<1>1. /\ DOMAIN coins' = (DOMAIN coins \ {c}) \cup {NextOutpoint(n)}
      /\ coins'[NextOutpoint(n)] = coin
      /\ \A d \in DOMAIN coins \ {c} : coins'[d] = coins[d]
      /\ made'[n] = made[n] + 1
      /\ \A m \in Names : m # n => made'[m] = made[m]
  BY MoveFacts
<1>2. made \in [Names -> Nat]
  BY DEF TypeOK
<1>3. ASSUME NEW d \in DOMAIN coins, d # c
      PROVE  coins'[d] \in CoinEntry /\ \E m \in Names : \E k \in 1..made'[m] : d = <<m, k>>
  <2>1. coins'[d] \in CoinEntry
    BY <1>1, <1>3 DEF TypeOK
  <2>2. PICK m \in Names : \E k \in 1..made[m] : d = <<m, k>>
    BY <1>3 DEF TypeOK
  <2>3. 1..made[m] \subseteq 1..made'[m]
    BY <1>1, <1>2
  <2> QED
    BY <2>1, <2>2, <2>3
<1>4. NextOutpoint(n) = <<n, made'[n]>> /\ made'[n] \in 1..made'[n]
  BY <1>1, <1>2 DEF NextOutpoint
<1> QED
  BY <1>1, <1>3, <1>4

\* The outputs of other names are not touched by a new output of name n.
LEMMA OtherOwners ==
    ASSUME TypeOK, OwnerMade, NEW n \in Names, NEW m \in DOMAIN names, m # n
    PROVE  names[m].owner # NextOutpoint(n)
<1> SUFFICES ASSUME names[m].owner = NextOutpoint(n) PROVE FALSE
  OBVIOUS
<1>1. names[m].owner = <<n, made[n] + 1>>
  BY DEF NextOutpoint
<1>2. names[m].owner # NoOwner
  BY <1>1, OutpointIsNotNoOwner
<1>3. PICK k \in 1..made[m] : names[m].owner = <<m, k>>
  BY <1>2 DEF OwnerMade
<1> QED
  BY <1>1, <1>3

LEMMA OwnerStepKeeps ==
    ASSUME IInv, NEW n \in Names, NEW c, NEW ns, NEW coin, OwnerStep(n, c, ns, coin)
    PROVE  IInv'
<1>1. /\ n \in DOMAIN names /\ c \in DOMAIN coins
      /\ names[n].owner = c /\ names[n].revoked = 0
      /\ ns \in NameState /\ coin \in CoinEntry
      /\ ns.height = names[n].height /\ ns.height <= ns.renewal /\ ns.registered
      /\ (names[n].flag => ns.flag) /\ (ns.flag => ns.data # "delegation")
      /\ coin.type \in OwnerTypes \cup {"revoke"} /\ coin.auction = ns.height
      /\ coin.type = "revoke" => ns.owner = c /\ ns.revoked = height
      /\ coin.type # "revoke" =>
            /\ ns.owner = NextOutpoint(n) /\ ns.revoked = 0
            /\ ns.transfer = IF coin.type = "transfer" THEN coin.at ELSE 0
      /\ Move(n, c, coin)
      /\ replayed' = names' /\ reveals' = reveals
  BY DEF OwnerStep
<1>2. /\ DOMAIN names' = DOMAIN names /\ names'[n] = ns /\ height' = height
      /\ \A m \in DOMAIN names : m # n => names'[m] = names[m]
  <2>1. PICK cov : Put(n, ns, cov)
    BY DEF OwnerStep
  <2> QED
    BY <1>1, <2>1, PutFacts
<1>3. TypeOK
  BY DEF IInv
<1>4. /\ NextOutpoint(n) \notin DOMAIN coins
      /\ DOMAIN coins' = (DOMAIN coins \ {c}) \cup {NextOutpoint(n)}
      /\ coins'[NextOutpoint(n)] = coin
      /\ \A d \in DOMAIN coins \ {c} : coins'[d] = coins[d]
      /\ made' \in [Names -> Nat] /\ made'[n] = made[n] + 1
      /\ \A m \in Names : m # n => made'[m] = made[m]
  BY <1>1, <1>3, MoveFacts
<1>5. \A m \in DOMAIN names : m # n => names'[m].owner # NextOutpoint(n)
  BY <1>2, <1>3, OtherOwners DEF IInv
<1>6. TypeOK'
  <2>1. height' \in Nat /\ reveals' \in [Names -> Seq(Nat)]
    BY <1>1, <1>2, <1>3 DEF TypeOK
  <2>2. DOMAIN names' \subseteq Names /\ \A m \in DOMAIN names' : names'[m] \in NameState
    BY <1>1, <1>2, <1>3 DEF TypeOK
  <2>3. \A d \in DOMAIN coins' :
            coins'[d] \in CoinEntry /\ \E m \in Names : \E k \in 1..made'[m] : d = <<m, k>>
    BY <1>1, <1>3, MoveKeepsCoins
  <2> QED
    BY <1>1, <1>4, <2>1, <2>2, <2>3 DEF TypeOK
<1>7. ReplayAgrees'
  BY <1>1 DEF ReplayAgrees
<1>8. OwnerMade'
  <2> SUFFICES ASSUME NEW m \in DOMAIN names', names'[m].owner # NoOwner
               PROVE  \E k \in 1..made'[m] : names'[m].owner = <<m, k>>
    BY DEF OwnerMade
  <2>1. m \in Names /\ made \in [Names -> Nat]
    BY <1>2, <1>3 DEF TypeOK
  <2>2. 1..made[m] \subseteq 1..made'[m]
    BY <1>4, <2>1
  <2>3. CASE names'[m].owner = names[m].owner
    BY <1>2, <2>2, <2>3 DEF IInv, OwnerMade
  <2>4. CASE m = n /\ ns.owner = NextOutpoint(n)
    <3>1. made'[n] \in 1..made'[n] /\ NextOutpoint(n) = <<n, made'[n]>>
      BY <1>4, <2>1 DEF NextOutpoint
    <3> QED
      BY <1>2, <2>4, <3>1
  <2> QED
    BY <1>1, <1>2, <2>3, <2>4
<1>9. HeightsInOrder'
  <2>1. ns.height <= height /\ (ns.revoked # 0 => ns.height <= ns.revoked)
    BY <1>1 DEF IInv, HeightsInOrder
  <2> QED
    BY <1>1, <1>2, <2>1 DEF IInv, HeightsInOrder
<1>10. AuctionFirst'
  <2>1. ns.owner # NoOwner
    <3>1. c # NoOwner
      BY <1>1, <1>3, OutpointIsNotNoOwner DEF TypeOK
    <3>2. NextOutpoint(n) # NoOwner
      BY OutpointIsNotNoOwner DEF NextOutpoint
    <3> QED
      BY <1>1, <3>1, <3>2
  <2> QED
    BY <1>1, <1>2, <2>1 DEF IInv, AuctionFirst, RevealStart, BidStart
<1>11. OwnerType'
  BY <1>1, <1>2, <1>4, <1>5 DEF IInv, OwnerType
<1>12. CoinsInOrder'
  <2>1. NextOutpoint(n)[1] = n
    BY DEF NextOutpoint
  <2>2. ns.height \in Nat
    BY <1>1 DEF NameState
  <2> QED
    BY <1>1, <1>2, <1>4, <2>1, <2>2 DEF IInv, CoinsInOrder
<1>13. OneOwner'
  <2>1. NextOutpoint(n)[1] = n
    BY DEF NextOutpoint
  <2> QED
    BY <1>1, <1>2, <1>4, <2>1 DEF IInv, OneOwner, OwnerTypes
<1>14. TransferClock'
  BY <1>1, <1>2, <1>4, <1>5 DEF IInv, TransferClock
<1>15. SecondPrice'
  BY <1>1, <1>2, <1>4, <1>5 DEF IInv, SecondPrice, SecondPriceOutcome
<1>16. NoDelegation'
  BY <1>1, <1>2 DEF IInv, NoDelegation
<1>17. SubdomainsHaveParents'
  BY <1>1, <1>2 DEF IInv, SubdomainsHaveParents
<1> QED
  BY <1>6, <1>7, <1>8, <1>9, <1>10, <1>11, <1>12, <1>13, <1>14, <1>15, <1>16, <1>17 DEF IInv

\* A coin that is spent without a new output for a name.
LEMMA SpendKeeps ==
    ASSUME IInv, NEW c, coins' = [d \in DOMAIN coins \ {c} |-> coins[d]],
           UNCHANGED <<height, names, replayed, made, reveals>>
    PROVE  IInv'
<1>1. DOMAIN coins' = DOMAIN coins \ {c} /\ \A d \in DOMAIN coins \ {c} : coins'[d] = coins[d]
  OBVIOUS
<1>2. /\ height' = height /\ names' = names /\ replayed' = replayed
      /\ made' = made /\ reveals' = reveals
  OBVIOUS
<1>3. TypeOK' /\ ReplayAgrees' /\ OwnerMade' /\ HeightsInOrder'
  BY <1>1, <1>2 DEF IInv, TypeOK, ReplayAgrees, OwnerMade, HeightsInOrder
<1>4. AuctionFirst' /\ NoDelegation' /\ SubdomainsHaveParents'
  BY <1>2 DEF IInv, AuctionFirst, NoDelegation, SubdomainsHaveParents, RevealStart, BidStart
<1>5. OwnerType' /\ CoinsInOrder'
  BY <1>1, <1>2 DEF IInv, OwnerType, CoinsInOrder
<1>6. OneOwner' /\ TransferClock'
  BY <1>1, <1>2 DEF IInv, OneOwner, TransferClock
<1>7. SecondPrice'
  BY <1>1, <1>2 DEF IInv, SecondPrice, SecondPriceOutcome
<1> QED
  BY <1>3, <1>4, <1>5, <1>6, <1>7 DEF IInv

\* NextBlock
LEMMA NextBlockKeeps ==
    ASSUME IInv, NextBlock
    PROVE  IInv'
<1>1. /\ height \in Nat /\ height' = height + 1 /\ names' = names /\ replayed' = replayed
      /\ made' = made /\ coins' = coins /\ reveals' = reveals
  BY DEF NextBlock, IInv, TypeOK
<1>2. \A n \in DOMAIN names :
        names[n] \in NameState /\ names[n].height \in Nat /\ RevealStart(names[n]) \in Nat
  BY PeriodFacts DEF IInv, TypeOK
<1>3. TypeOK' /\ ReplayAgrees' /\ OwnerMade' /\ NoDelegation' /\ SubdomainsHaveParents'
  BY <1>1 DEF IInv, TypeOK, ReplayAgrees, OwnerMade, NoDelegation, SubdomainsHaveParents
<1>4. HeightsInOrder'
  BY <1>1, <1>2 DEF IInv, HeightsInOrder
<1>5. AuctionFirst'
  <2>1. \A n \in DOMAIN names : RevealStart(names[n]) <= height => RevealStart(names[n]) <= height'
    BY <1>1, <1>2
  <2>2. \A n \in DOMAIN names' : RevealStart(names'[n]) = RevealStart(names[n])
    BY <1>1
  <2> QED
    BY <1>1, <2>1, <2>2 DEF IInv, AuctionFirst
<1>6. OwnerType' /\ CoinsInOrder'
  BY <1>1 DEF IInv, OwnerType, CoinsInOrder
<1>7. OneOwner' /\ TransferClock'
  BY <1>1 DEF IInv, OneOwner, TransferClock
<1>8. SecondPrice'
  BY <1>1 DEF IInv, SecondPrice, SecondPriceOutcome
<1> QED
  BY <1>3, <1>4, <1>5, <1>6, <1>7, <1>8 DEF IInv

\* BID
LEMMA BidKeeps ==
    ASSUME IInv, NEW n \in Names, NEW value \in BidValues, Bid(n, value)
    PROVE  IInv'
<1> DEFINE coin == BidCoin("bid", value)
<1>1. /\ Move(n, NoOwner, coin)
      /\ height' = height /\ names' = names /\ replayed' = replayed /\ reveals' = reveals
  BY DEF Bid
<1>2. coin \in CoinEntry /\ coin.type = "bid"
  BY NamesAssumption DEF BidCoin, CoinEntry
<1>3. TypeOK /\ OwnerMade
  BY DEF IInv
<1> HIDE DEF coin
<1>4. /\ NextOutpoint(n) \notin DOMAIN coins
      /\ DOMAIN coins' = (DOMAIN coins \ {NoOwner}) \cup {NextOutpoint(n)}
      /\ coins'[NextOutpoint(n)] = coin
      /\ \A d \in DOMAIN coins \ {NoOwner} : coins'[d] = coins[d]
      /\ made' \in [Names -> Nat] /\ made'[n] = made[n] + 1
      /\ \A m \in Names : m # n => made'[m] = made[m]
  BY <1>1, <1>3, MoveFacts
<1>5. \A m \in DOMAIN names : names[m].owner # NextOutpoint(n)
  <2>1. ASSUME n \in DOMAIN names, names[n].owner = NextOutpoint(n) PROVE FALSE
    <3>1. names[n].owner = <<n, made[n] + 1>> /\ made[n] \in Nat
      BY <1>3, <2>1 DEF NextOutpoint, TypeOK
    <3>2. names[n].owner # NoOwner
      BY <3>1, OutpointIsNotNoOwner
    <3>3. PICK k \in 1..made[n] : names[n].owner = <<n, k>>
      BY <1>3, <2>1, <3>2 DEF OwnerMade
    <3> QED
      BY <3>1, <3>3
  <2> QED
    BY <1>3, <2>1, OtherOwners
<1>6. TypeOK'
  <2>1. \A d \in DOMAIN coins' :
            coins'[d] \in CoinEntry /\ \E m \in Names : \E k \in 1..made'[m] : d = <<m, k>>
    BY <1>1, <1>2, <1>3, MoveKeepsCoins
  <2> QED
    BY <1>1, <1>3, <1>4, <2>1 DEF TypeOK
<1>7. OwnerMade'
  <2> SUFFICES ASSUME NEW m \in DOMAIN names, names[m].owner # NoOwner
               PROVE  \E k \in 1..made'[m] : names[m].owner = <<m, k>>
    BY <1>1 DEF OwnerMade
  <2>1. m \in Names /\ made \in [Names -> Nat]
    BY <1>3 DEF TypeOK
  <2>2. 1..made[m] \subseteq 1..made'[m]
    BY <1>4, <2>1
  <2> QED
    BY <1>3, <2>2 DEF OwnerMade
<1>8. ReplayAgrees' /\ HeightsInOrder' /\ NoDelegation' /\ SubdomainsHaveParents'
  BY <1>1 DEF IInv, ReplayAgrees, HeightsInOrder, NoDelegation, SubdomainsHaveParents
<1>9. AuctionFirst'
  BY <1>1 DEF IInv, AuctionFirst, RevealStart, BidStart
<1>10. OwnerType' /\ TransferClock'
  BY <1>1, <1>4, <1>5 DEF IInv, OwnerType, TransferClock
<1>11. CoinsInOrder' /\ OneOwner'
  BY <1>1, <1>2, <1>4 DEF IInv, CoinsInOrder, OneOwner, OwnerTypes
<1>12. SecondPrice'
  BY <1>1, <1>4, <1>5 DEF IInv, SecondPrice, SecondPriceOutcome
<1> QED
  BY <1>6, <1>7, <1>8, <1>9, <1>10, <1>11, <1>12 DEF IInv

\* A REVEAL touches the owner, the price and the highest value only.
LEMMA RevealedFacts ==
    ASSUME NEW ns \in NameState, NEW id \in Outpoints, NEW v \in Nat
    PROVE  /\ Revealed(ns, id, v) \in NameState
           /\ Revealed(ns, id, v).height = ns.height
           /\ Revealed(ns, id, v).renewal = ns.renewal
           /\ Revealed(ns, id, v).transfer = ns.transfer
           /\ Revealed(ns, id, v).revoked = ns.revoked
           /\ Revealed(ns, id, v).data = ns.data
           /\ Revealed(ns, id, v).registered <=> ns.registered
           /\ Revealed(ns, id, v).flag <=> ns.flag
           /\ \/ Revealed(ns, id, v).owner = id /\ Revealed(ns, id, v).highest = v
              \/ /\ Revealed(ns, id, v).owner = ns.owner /\ ns.owner # NoOwner
                 /\ Revealed(ns, id, v).highest = ns.highest
<1>1. ns.highest \in Nat /\ ns.value \in Nat
  BY DEF NameState
<1>2. CASE ns.owner = NoOwner \/ v > ns.highest
  <2>1. Revealed(ns, id, v) = [ns EXCEPT !.value = ns.highest, !.owner = id, !.highest = v]
    BY <1>2, <1>1 DEF Revealed
  <2> QED
    BY <1>1, <2>1 DEF NameState
<1>3. CASE ns.owner # NoOwner /\ v <= ns.highest /\ v > ns.value
  <2>1. Revealed(ns, id, v) = [ns EXCEPT !.value = v]
    BY <1>3, <1>1 DEF Revealed
  <2> QED
    BY <1>1, <1>3, <2>1 DEF NameState
<1>4. CASE ns.owner # NoOwner /\ v <= ns.highest /\ v <= ns.value
  <2>1. Revealed(ns, id, v) = ns
    BY <1>4, <1>1 DEF Revealed
  <2> QED
    BY <1>4, <2>1
<1> QED
  BY <1>1, <1>2, <1>3, <1>4

\* One more value revealed: the outcome stays that of a second-price auction.
LEMMA OneMoreReveal ==
    ASSUME NEW ns \in NameState, NEW id \in Outpoints, id # NoOwner,
           NEW r \in Seq(Nat), NEW v \in Nat, SecondPriceOutcome(ns, r)
    PROVE  SecondPriceOutcome(Revealed(ns, id, v), Append(r, v))
<1> DEFINE rr == Append(r, v)
           n == Len(r)
           new == Revealed(ns, id, v)
<1>1. /\ n \in Nat /\ DOMAIN r = 1..n /\ DOMAIN rr = 1..(n + 1) /\ Len(rr) = n + 1
      /\ rr[n + 1] = v /\ \A i \in 1..n : rr[i] = r[i]
      /\ \A i \in 1..n : r[i] \in Nat
  OBVIOUS
<1>2. ns.highest \in Nat /\ ns.value \in Nat
  BY DEF NameState
<1>3. rr # << >> /\ (r = << >> <=> n = 0)
  BY <1>1
<1>4. CASE ns.owner = NoOwner
  <2>1. r = << >> /\ n = 0 /\ ns.highest = 0
    BY <1>3, <1>4 DEF SecondPriceOutcome
  <2>2. new.owner = id /\ new.highest = v /\ new.value = 0
    BY <1>4, <2>1 DEF Revealed, NameState
  <2> HIDE DEF rr, n, new
  <2>3. SecondPriceOutcome(new, rr)
    BY <1>1, <1>3, <2>1, <2>2 DEF SecondPriceOutcome
  <2> QED
    BY <2>3 DEF new, rr
<1>5. CASE ns.owner # NoOwner
  <2>8. r # << >> /\ n > 0 /\ n + 1 \in 1..(n + 1) /\ 1..n \subseteq 1..(n + 1)
    BY <1>1, <1>3, <1>5 DEF SecondPriceOutcome
  <2>9. /\ \A i \in DOMAIN r : r[i] <= ns.highest
        /\ \A i, j \in DOMAIN r : i # j => r[i] <= ns.value \/ r[j] <= ns.value
        /\ \/ ns.value = 0 /\ Len(r) = 1
           \/ \E i, j \in DOMAIN r : i # j /\ r[i] = ns.value /\ r[j] >= ns.value
    BY <2>8 DEF SecondPriceOutcome
  <2>1. /\ n > 0 /\ n + 1 \in 1..(n + 1) /\ 1..n \subseteq 1..(n + 1)
        /\ \A i \in 1..n : r[i] <= ns.highest
        /\ \A i, j \in 1..n : i # j => r[i] <= ns.value \/ r[j] <= ns.value
        /\ \/ ns.value = 0 /\ n = 1
           \/ \E i, j \in 1..n : i # j /\ r[i] = ns.value /\ r[j] >= ns.value
    BY <1>1, <2>8, <2>9
  <2>2. PICK top \in 1..n : r[top] = ns.highest
    BY <1>1, <1>3, <1>5 DEF SecondPriceOutcome
  <2>3. CASE v > ns.highest
    <3>1. new.owner = id /\ new.highest = v /\ new.value = ns.highest
      BY <2>3 DEF Revealed, NameState
    <3> HIDE DEF rr, n, new
    <3>2. \A i \in 1..(n + 1) : rr[i] <= v
      BY <1>1, <1>2, <2>1, <2>3
    <3>3. \A i, j \in 1..(n + 1) : i # j => rr[i] <= ns.highest \/ rr[j] <= ns.highest
      BY <1>1, <1>2, <2>1
    <3>4. top # n + 1 /\ top \in 1..(n + 1) /\ rr[top] = ns.highest /\ rr[n + 1] >= ns.highest
      BY <1>1, <1>2, <2>1, <2>2, <2>3
    <3>5. SecondPriceOutcome(new, rr)
      BY <1>1, <1>3, <2>1, <3>1, <3>2, <3>3, <3>4 DEF SecondPriceOutcome
    <3> QED
      BY <3>5 DEF new, rr
  <2>4. CASE v <= ns.highest /\ v > ns.value
    <3>1. new.owner = ns.owner /\ new.highest = ns.highest /\ new.value = v
      BY <1>2, <1>5, <2>4 DEF Revealed, NameState
    <3> HIDE DEF rr, n, new
    <3>2. \A i \in 1..(n + 1) : rr[i] <= ns.highest
      BY <1>1, <1>2, <2>1, <2>4
    <3>3. \A i, j \in 1..(n + 1) : i # j => rr[i] <= v \/ rr[j] <= v
      <4> SUFFICES ASSUME NEW i \in 1..(n + 1), NEW j \in 1..(n + 1), i # j
                   PROVE  rr[i] <= v \/ rr[j] <= v
        OBVIOUS
      <4>1. CASE i = n + 1 \/ j = n + 1
        BY <1>1, <1>2, <2>4, <4>1
      <4>2. CASE i \in 1..n /\ j \in 1..n
        <5>1. r[i] \in Nat /\ r[j] \in Nat /\ rr[i] = r[i] /\ rr[j] = r[j]
          BY <1>1, <4>2
        <5>2. r[i] <= ns.value \/ r[j] <= ns.value
          BY <2>1, <4>2
        <5> QED
          BY <1>2, <2>4, <5>1, <5>2
      <4> QED
        BY <1>1, <4>1, <4>2
    <3>4. top # n + 1 /\ top \in 1..(n + 1) /\ rr[top] = ns.highest /\ rr[top] >= rr[n + 1]
      BY <1>1, <1>2, <2>1, <2>2, <2>4
    <3>5. SecondPriceOutcome(new, rr)
      BY <1>1, <1>3, <1>5, <2>1, <3>1, <3>2, <3>3, <3>4 DEF SecondPriceOutcome
    <3> QED
      BY <3>5 DEF new, rr
  <2>5. CASE v <= ns.highest /\ v <= ns.value
    <3>1. new = ns
      BY <1>2, <1>5, <2>5 DEF Revealed
    <3> HIDE DEF rr, n, new
    <3>2. \A i \in 1..(n + 1) : rr[i] <= ns.highest
      BY <1>1, <1>2, <2>1, <2>5
    <3>3. \A i, j \in 1..(n + 1) : i # j => rr[i] <= ns.value \/ rr[j] <= ns.value
      <4> SUFFICES ASSUME NEW i \in 1..(n + 1), NEW j \in 1..(n + 1), i # j
                   PROVE  rr[i] <= ns.value \/ rr[j] <= ns.value
        OBVIOUS
      <4>1. CASE i = n + 1 \/ j = n + 1
        BY <1>1, <1>2, <2>5, <4>1
      <4>2. CASE i \in 1..n /\ j \in 1..n
        <5>1. r[i] \in Nat /\ r[j] \in Nat /\ rr[i] = r[i] /\ rr[j] = r[j]
          BY <1>1, <4>2
        <5>2. r[i] <= ns.value \/ r[j] <= ns.value
          BY <2>1, <4>2
        <5> QED
          BY <1>2, <2>5, <5>1, <5>2
      <4> QED
        BY <1>1, <4>1, <4>2
    <3>4. top # n + 1 /\ top \in 1..(n + 1) /\ rr[top] = ns.highest
      BY <1>1, <1>2, <2>1, <2>2
    <3>6. \E i, j \in 1..(n + 1) : i # j /\ rr[i] = ns.value /\ rr[j] >= ns.value
      <4>1. CASE ns.value = 0 /\ n = 1
        <5>1. rr[n + 1] = 0 /\ rr[top] >= 0
          BY <1>1, <1>2, <2>2, <2>5, <3>4, <4>1
        <5> QED
          BY <2>1, <3>4, <4>1, <5>1
      <4>2. CASE \E i, j \in 1..n : i # j /\ r[i] = ns.value /\ r[j] >= ns.value
        BY <1>1, <2>1, <4>2
      <4> QED
        BY <2>1, <4>1, <4>2
    <3>5. SecondPriceOutcome(new, rr)
      BY <1>1, <1>3, <1>5, <2>1, <3>1, <3>2, <3>3, <3>4, <3>6 DEF SecondPriceOutcome
    <3> QED
      BY <3>5 DEF new, rr
  <2>6. v <= ns.highest \/ v > ns.highest
    BY <1>2
  <2>7. v <= ns.value \/ v > ns.value
    BY <1>2
  <2> HIDE DEF rr, n, new
  <2> QED
    BY <2>3, <2>4, <2>5, <2>6, <2>7 DEF new, rr
<1> QED
  BY <1>4, <1>5

\* REVEAL
LEMMA RevealKeeps ==
    ASSUME IInv, NEW n \in Names, NEW c \in DOMAIN coins, Reveal(n, c)
    PROVE  IInv'
<1> DEFINE v == coins[c].value
           ns == Revealed(names[n], NextOutpoint(n), v)
           coin == BidCoin("reveal", v)
           cov == [type |-> "reveal", value |-> v]
<1>1. TypeOK /\ OwnerMade
  BY DEF IInv
<1>2. InState(n, {"reveal"}) /\ coins[c].type = "bid"
  BY DEF Reveal
<1>3. /\ n \in DOMAIN names /\ names[n] \in NameState /\ Current(n) = names[n]
      /\ State(names[n], height) = "reveal" /\ height \in Nat
  BY <1>1, <1>2, InStateFacts DEF TypeOK
<1>4. /\ ~names[n].registered /\ names[n].revoked = 0
      /\ RevealStart(names[n]) \in Nat /\ RevealStart(names[n]) <= height
  BY <1>3, StateFacts, PeriodFacts
<1>5. v \in Nat
  BY <1>1, <1>2 DEF TypeOK, CoinEntry, OwnerTypes
<1>6. NextOutpoint(n) \in Outpoints /\ NextOutpoint(n) # NoOwner
  BY <1>1, OutpointIsNotNoOwner DEF TypeOK, NextOutpoint, Outpoints
<1>7. Put(n, ns, cov) /\ Move(n, c, coin) /\ reveals' = [reveals EXCEPT ![n] = Append(@, v)]
  BY <1>3 DEF Reveal
<1>8. Replay(n, cov, NextOutpoint(n)) = ns
  BY <1>3, ReplayStart DEF IInv, Replay
<1>9. replayed' = names'
  BY <1>7, <1>8, ReplayedPut DEF IInv
<1>10. coin \in CoinEntry /\ coin.type = "reveal" /\ coin.value = v
  BY <1>5 DEF BidCoin, CoinEntry
<1>11. /\ ns \in NameState /\ ns.height = names[n].height /\ ns.renewal = names[n].renewal
       /\ ns.transfer = names[n].transfer /\ ns.revoked = 0 /\ ns.data = names[n].data
       /\ ~ns.registered /\ (ns.flag <=> names[n].flag)
       /\ \/ ns.owner = NextOutpoint(n) /\ ns.highest = v
          \/ /\ ns.owner = names[n].owner /\ ns.owner # NoOwner
             /\ ns.highest = names[n].highest
  BY <1>3, <1>4, <1>5, <1>6, RevealedFacts
<1>12. SecondPriceOutcome(ns, Append(reveals[n], v))
  BY <1>1, <1>3, <1>4, <1>5, <1>6, OneMoreReveal DEF IInv, SecondPrice, TypeOK
<1> HIDE DEF v, ns, coin, cov
<1>13. /\ DOMAIN names' = DOMAIN names /\ names'[n] = ns /\ height' = height
       /\ \A m \in DOMAIN names : m # n => names'[m] = names[m]
  BY <1>3, <1>7, PutFacts
<1>14. /\ NextOutpoint(n) \notin DOMAIN coins
       /\ DOMAIN coins' = (DOMAIN coins \ {c}) \cup {NextOutpoint(n)}
       /\ coins'[NextOutpoint(n)] = coin
       /\ \A d \in DOMAIN coins \ {c} : coins'[d] = coins[d]
       /\ made' \in [Names -> Nat] /\ made'[n] = made[n] + 1
       /\ \A m \in Names : m # n => made'[m] = made[m]
  BY <1>1, <1>7, MoveFacts
<1>15. \A m \in DOMAIN names : m # n => names'[m].owner # NextOutpoint(n)
  BY <1>13, <1>1, OtherOwners
<1>16. names[n].owner # NoOwner => names[n].owner # NextOutpoint(n)
  <2> SUFFICES ASSUME names[n].owner # NoOwner, names[n].owner = NextOutpoint(n) PROVE FALSE
    OBVIOUS
  <2>1. PICK k \in 1..made[n] : names[n].owner = <<n, k>>
    BY <1>1, <1>3 DEF OwnerMade
  <2>2. k = made[n] + 1 /\ made[n] \in Nat
    BY <1>1, <2>1 DEF NextOutpoint, TypeOK
  <2> QED
    BY <2>1, <2>2
<1>17. /\ reveals' \in [Names -> Seq(Nat)] /\ reveals'[n] = Append(reveals[n], v)
       /\ \A m \in Names : m # n => reveals'[m] = reveals[m]
  BY <1>1, <1>5, <1>7 DEF TypeOK
<1>18. TypeOK'
  <2>1. DOMAIN names' \subseteq Names /\ \A m \in DOMAIN names' : names'[m] \in NameState
    BY <1>1, <1>11, <1>13 DEF TypeOK
  <2>2. \A d \in DOMAIN coins' :
            coins'[d] \in CoinEntry /\ \E m \in Names : \E k \in 1..made'[m] : d = <<m, k>>
    BY <1>1, <1>7, <1>10, MoveKeepsCoins
  <2> QED
    BY <1>3, <1>9, <1>13, <1>14, <1>17, <2>1, <2>2 DEF TypeOK
<1>19. ReplayAgrees'
  BY <1>9 DEF ReplayAgrees
<1>20. OwnerMade'
  <2> SUFFICES ASSUME NEW m \in DOMAIN names', names'[m].owner # NoOwner
               PROVE  \E k \in 1..made'[m] : names'[m].owner = <<m, k>>
    BY DEF OwnerMade
  <2>1. m \in Names /\ made \in [Names -> Nat]
    BY <1>1, <1>13 DEF TypeOK
  <2>2. 1..made[m] \subseteq 1..made'[m]
    BY <1>14, <2>1
  <2>3. CASE names'[m].owner = names[m].owner
    BY <1>1, <1>13, <2>2, <2>3 DEF OwnerMade
  <2>4. CASE m = n /\ ns.owner = NextOutpoint(n)
    <3>1. made'[n] \in 1..made'[n] /\ NextOutpoint(n) = <<n, made'[n]>>
      BY <1>14, <2>1, <2>4 DEF NextOutpoint
    <3> QED
      BY <1>13, <2>4, <3>1
  <2> QED
    BY <1>11, <1>13, <2>3, <2>4
<1>21. HeightsInOrder'
  BY <1>11, <1>13 DEF IInv, HeightsInOrder
<1>22. AuctionFirst'
  <2>1. RevealStart(ns) = RevealStart(names[n])
    BY <1>11 DEF RevealStart, BidStart
  <2>2. \A m \in DOMAIN names : m # n => RevealStart(names'[m]) = RevealStart(names[m])
    BY <1>13
  <2> QED
    BY <1>3, <1>4, <1>11, <1>13, <2>1, <2>2 DEF IInv, AuctionFirst
<1>23. OwnerType'
  BY <1>2, <1>4, <1>10, <1>11, <1>13, <1>14, <1>15, <1>16 DEF IInv, OwnerType
<1>24. TransferClock'
  <2>1. names[n].transfer = 0
    BY <1>3, <1>4 DEF IInv, AuctionFirst
  <2>2. names[n].owner \in DOMAIN coins => coins[names[n].owner].type = "reveal"
    BY <1>3, <1>4 DEF IInv, OwnerType
  <2> QED
    BY <1>10, <1>11, <1>13, <1>14, <1>15, <1>16, <2>1, <2>2 DEF IInv, TransferClock
<1>25. CoinsInOrder' /\ OneOwner'
  BY <1>3, <1>4, <1>10, <1>11, <1>13, <1>14 DEF IInv, CoinsInOrder, OneOwner, OwnerTypes
<1>26. SecondPrice'
  <2> SUFFICES ASSUME NEW m \in DOMAIN names', ~names'[m].registered
               PROVE  /\ SecondPriceOutcome(names'[m], reveals'[m])
                      /\ names'[m].owner \in DOMAIN coins' =>
                            coins'[names'[m].owner].value = names'[m].highest
    BY DEF SecondPrice
  <2>1. CASE m = n
    <3>1. SecondPriceOutcome(names'[m], reveals'[m])
      BY <1>12, <1>13, <1>17, <2>1
    <3>2. names'[n].owner \in DOMAIN coins' => coins'[names'[n].owner].value = names'[n].highest
      BY <1>3, <1>4, <1>10, <1>11, <1>13, <1>14, <1>16 DEF IInv, SecondPrice
    <3> QED
      BY <2>1, <3>1, <3>2
  <2>2. CASE m # n
    <3>1. names'[m] = names[m] /\ m \in Names /\ reveals'[m] = reveals[m]
      BY <1>1, <1>13, <1>17, <2>2 DEF TypeOK
    <3> QED
      BY <1>13, <1>14, <1>15, <2>2, <3>1 DEF IInv, SecondPrice
  <2> QED
    BY <2>1, <2>2
<1>27. NoDelegation' /\ SubdomainsHaveParents'
  BY <1>3, <1>11, <1>13 DEF IInv, NoDelegation, SubdomainsHaveParents
<1> QED
  BY <1>18, <1>19, <1>20, <1>21, <1>22, <1>23, <1>24, <1>25, <1>26, <1>27 DEF IInv

\* A name that is expired was opened before this block.
LEMMA ExpiredBefore ==
    ASSUME IInv, NEW n \in DOMAIN names, IsExpired(names[n], height)
    PROVE  names[n].height < height
<1>1. /\ names[n] \in NameState /\ height \in Nat
      /\ names[n].height <= names[n].renewal
      /\ names[n].revoked # 0 => names[n].height <= names[n].revoked
      /\ names[n].registered => names[n].owner # NoOwner
  BY DEF IInv, TypeOK, HeightsInOrder, AuctionFirst
<1>2. names[n].height \in Nat /\ names[n].renewal \in Nat /\ names[n].revoked \in Nat
  BY <1>1 DEF NameState
<1>3. AuctionMaturity \in Nat \ {0} /\ RenewalWindow \in Nat /\ RenewalWindow > 0
  <2>1. /\ AuctionMaturity \in Nat \ {0} /\ OpenPeriod \in Nat \ {0}
        /\ BiddingPeriod \in Nat \ {0} /\ RevealPeriod \in Nat \ {0}
        /\ RegisterDeadline \in Nat \ {0}
    BY PeriodsAssumption
  <2> QED
    BY <2>1, PeriodsAssumption
<1>4. CASE names[n].revoked # 0
  <2>1. height >= names[n].revoked + AuctionMaturity
    BY <1>4 DEF IsExpired
  <2> QED
    BY <1>1, <1>2, <1>3, <1>4, <2>1
<1>5. CASE names[n].revoked = 0
  <2>1. /\ State(names[n], height) = "closed"
        /\ \/ height >= names[n].renewal + RenewalWindow
           \/ names[n].owner = NoOwner
           \/ ~names[n].registered
    BY <1>5 DEF IsExpired
  <2>2. CASE height >= names[n].renewal + RenewalWindow
    BY <1>1, <1>2, <1>3, <2>2
  <2>3. CASE ~names[n].registered
    <3>1. height >= RevealEnd(names[n])
      BY <1>1, <2>1, <2>3, StateFacts
    <3> QED
      BY <1>1, <3>1, PeriodFacts
  <2> QED
    BY <1>1, <2>1, <2>2, <2>3
<1> QED
  BY <1>4, <1>5

\* An auction that begins in this block.
Fresh(ns) ==
    /\ ns \in NameState
    /\ ns.height = height /\ ns.renewal >= height
    /\ ns.owner = NoOwner /\ ns.value = 0 /\ ns.highest = 0
    /\ ns.transfer = 0 /\ ns.revoked = 0 /\ ~ns.registered

\* OPEN finds or makes a name whose auction begins in this block, the second of
\* two OPENs in one block included.
LEMMA OpenFresh ==
    ASSUME IInv, NEW n \in Names, NEW ns,
           ns = IF n \in DOMAIN names THEN Current(n) ELSE NewName(height),
           State(ns, height) = "opening", ns.height = height
    PROVE  /\ Fresh(ns)
           /\ n \in DOMAIN names => (ns.flag <=> names[n].flag) /\ ns.data = names[n].data
           /\ n \notin DOMAIN names => ~ns.flag
           /\ \A c \in DOMAIN coins : coins[c].type \in OwnerTypes /\ c[1] = n =>
                coins[c].auction # height
<1>1. TypeOK /\ height \in Nat
  BY DEF IInv, TypeOK
<1>2. CASE n \notin DOMAIN names
  <2>1. ns = NewName(height) /\ ns \in NameState
    BY <1>1, <1>2, NewNameTyped
  <2>2. Fresh(ns) /\ ~ns.flag
    BY <1>1, <2>1 DEF Fresh, NewName
  <2>3. \A c \in DOMAIN coins : coins[c].type \in OwnerTypes => c[1] # n
    BY <1>2 DEF IInv, CoinsInOrder
  <2> QED
    BY <1>2, <2>2, <2>3
<1>3. CASE n \in DOMAIN names /\ IsExpired(names[n], height)
  <2>1. names[n] \in NameState /\ ns = MaybeExpire(names[n], height)
    BY <1>1, <1>3 DEF Current, TypeOK
  <2>7. /\ MaybeExpire(names[n], height) \in NameState
        /\ MaybeExpire(names[n], height).flag = names[n].flag
        /\ MaybeExpire(names[n], height).data = names[n].data
    BY <1>1, <2>1, MaybeExpireFacts, Zenon
  <2>2. ns \in NameState /\ ns.flag = names[n].flag /\ ns.data = names[n].data
    BY <2>1, <2>7, Zenon
  <2>3. ns = [NewName(height) EXCEPT !.data = names[n].data, !.flag = names[n].flag]
    BY <1>3, <2>1 DEF MaybeExpire
  <2>8. /\ ns.height = height /\ ns.renewal = height /\ ns.owner = NoOwner /\ ns.value = 0
        /\ ns.highest = 0 /\ ns.transfer = 0 /\ ns.revoked = 0
    BY <2>3 DEF NewName
  <2>9. ~ns.registered
    BY <2>3 DEF NewName
  <2>4. Fresh(ns)
    BY <1>1, <2>2, <2>8, <2>9 DEF Fresh
  <2>5. names[n].height < height /\ names[n].height \in Nat
    BY <1>3, <2>1, ExpiredBefore DEF NameState
  <2>6. ASSUME NEW c \in DOMAIN coins, coins[c].type \in OwnerTypes, c[1] = n
        PROVE  coins[c].auction # height
    <3>1. coins[c].auction <= names[n].height
      BY <2>6 DEF IInv, CoinsInOrder
    <3>2. coins[c].auction \in Nat
      BY <1>1, <2>6 DEF TypeOK, CoinEntry, OwnerTypes
    <3> QED
      BY <1>1, <2>5, <3>1, <3>2
  <2> QED
    BY <1>3, <2>2, <2>4, <2>6
<1>4. CASE n \in DOMAIN names /\ ~IsExpired(names[n], height)
  <2>1. names[n] \in NameState /\ ns = names[n]
    BY <1>1, <1>4 DEF Current, MaybeExpire, TypeOK
  <2>2. ns.revoked = 0 /\ ~ns.registered /\ height < BidStart(ns)
    BY <1>1, <2>1, StateFacts
  <2>3. ns.transfer = 0 /\ ns.owner = NoOwner /\ ns.renewal >= height
    <3>1. ns.owner # NoOwner => RevealStart(ns) <= height
      BY <1>4, <2>1, <2>2 DEF IInv, AuctionFirst
    <3>2. ns.transfer = 0 /\ ns.height <= ns.renewal /\ ns.renewal \in Nat
      BY <1>4, <2>1, <2>2 DEF IInv, AuctionFirst, HeightsInOrder, NameState
    <3> QED
      BY <1>1, <2>1, <2>2, <3>1, <3>2, PeriodFacts
  <2>4. ns.value = 0 /\ ns.highest = 0
    BY <1>4, <2>1, <2>2, <2>3 DEF IInv, SecondPrice, SecondPriceOutcome
  <2>5. \A c \in DOMAIN coins : coins[c].type \in OwnerTypes /\ c[1] = n =>
            coins[c].auction # height
    BY <1>4, <2>1, <2>2 DEF IInv, OneOwner
  <2> QED
    BY <1>4, <2>1, <2>2, <2>3, <2>4, <2>5 DEF Fresh
<1> QED
  BY <1>2, <1>3, <1>4

\* OPEN
LEMMA OpenKeeps ==
    ASSUME IInv, NEW n \in Names, Open(n)
    PROVE  IInv'
<1> DEFINE ns == IF n \in DOMAIN names THEN Current(n) ELSE NewName(height)
           cov == [type |-> "open"]
<1>1. /\ State(ns, height) = "opening" /\ ns.height = height
      /\ n \in Subdomains => ParentOf[n] \in DOMAIN names /\ names[ParentOf[n]].flag
      /\ Put(n, ns, cov)
      /\ reveals' = [reveals EXCEPT ![n] = << >>]
      /\ coins' = coins /\ made' = made
  BY DEF Open
<1>2. Replay(n, cov, NextOutpoint(n)) = ns
  <2>1. ReplayFrom(n) = ns
    BY DEF IInv, ReplayAgrees, ReplayFrom, Current
  <2> QED
    BY <2>1 DEF Replay
<1>3. replayed' = names'
  BY <1>1, <1>2, ReplayedPut DEF IInv
<1> HIDE DEF ns, cov
<1>4. /\ Fresh(ns)
      /\ n \in DOMAIN names => (ns.flag <=> names[n].flag) /\ ns.data = names[n].data
      /\ n \notin DOMAIN names => ~ns.flag
      /\ \A c \in DOMAIN coins : coins[c].type \in OwnerTypes /\ c[1] = n =>
            coins[c].auction # height
  BY <1>1, OpenFresh DEF ns
<1>5. /\ DOMAIN names' = DOMAIN names \cup {n} /\ names'[n] = ns /\ height' = height
      /\ \A m \in DOMAIN names : m # n => names'[m] = names[m]
  BY <1>1, PutFacts
<1>6. TypeOK /\ height \in Nat
  BY DEF IInv, TypeOK
<1>7. ns \in NameState /\ ns.owner = NoOwner
  BY <1>4 DEF Fresh
<1>8. NoOwner \notin DOMAIN coins
  BY <1>6, OutpointIsNotNoOwner DEF TypeOK
<1>9. /\ reveals' \in [Names -> Seq(Nat)] /\ reveals'[n] = << >>
      /\ \A m \in Names : m # n => reveals'[m] = reveals[m]
  <2>1. << >> \in Seq(Nat)
    OBVIOUS
  <2> QED
    BY <1>1, <1>6, <2>1 DEF TypeOK
<1>10. TypeOK'
  <2>1. DOMAIN names' \subseteq Names /\ \A m \in DOMAIN names' : names'[m] \in NameState
    BY <1>5, <1>6, <1>7 DEF TypeOK
  <2> QED
    BY <1>1, <1>3, <1>5, <1>6, <1>9, <2>1 DEF TypeOK
<1>11. ReplayAgrees' /\ OwnerMade'
  BY <1>1, <1>3, <1>5, <1>7 DEF IInv, ReplayAgrees, OwnerMade
<1>12. HeightsInOrder'
  BY <1>4, <1>5, <1>6 DEF IInv, HeightsInOrder, Fresh
<1>13. AuctionFirst'
  BY <1>4, <1>5, <1>7 DEF IInv, AuctionFirst, Fresh, RevealStart, BidStart
<1>14. OwnerType' /\ TransferClock'
  BY <1>1, <1>5, <1>7, <1>8 DEF IInv, OwnerType, TransferClock
<1>15. CoinsInOrder'
  <2> SUFFICES ASSUME NEW c \in DOMAIN coins, coins[c].type \in OwnerTypes
               PROVE  c[1] \in DOMAIN names' /\ coins[c].auction <= names'[c[1]].height
    BY <1>1 DEF CoinsInOrder
  <2>1. c[1] \in DOMAIN names /\ coins[c].auction <= names[c[1]].height
    BY DEF IInv, CoinsInOrder
  <2>2. CASE c[1] = n
    <3>1. names[n].height <= height /\ names[n].height \in Nat
      BY <1>6, <2>1, <2>2 DEF IInv, HeightsInOrder, TypeOK, NameState
    <3>2. coins[c].auction \in Nat
      BY <1>6 DEF TypeOK, CoinEntry, OwnerTypes
    <3> QED
      BY <1>4, <1>5, <1>6, <2>1, <2>2, <3>1, <3>2 DEF Fresh
  <2>3. CASE c[1] # n
    BY <1>5, <2>1, <2>3
  <2> QED
    BY <2>2, <2>3
<1>16. OneOwner'
  BY <1>1, <1>4, <1>5 DEF IInv, OneOwner, Fresh
<1>17. SecondPrice'
  <2> SUFFICES ASSUME NEW m \in DOMAIN names', ~names'[m].registered
               PROVE  /\ SecondPriceOutcome(names'[m], reveals'[m])
                      /\ names'[m].owner \in DOMAIN coins' =>
                            coins'[names'[m].owner].value = names'[m].highest
    BY DEF SecondPrice
  <2>1. CASE m = n
    BY <1>1, <1>4, <1>5, <1>7, <1>8, <1>9, <2>1 DEF Fresh, SecondPriceOutcome
  <2>2. CASE m # n
    <3>1. m \in DOMAIN names /\ names'[m] = names[m] /\ reveals'[m] = reveals[m]
      BY <1>5, <1>6, <1>9, <2>2 DEF TypeOK
    <3> QED
      BY <1>1, <3>1 DEF IInv, SecondPrice
  <2> QED
    BY <2>1, <2>2
<1>18. NoDelegation'
  BY <1>4, <1>5 DEF IInv, NoDelegation
<1>19. SubdomainsHaveParents'
  BY <1>1, <1>4, <1>5 DEF IInv, SubdomainsHaveParents
<1> QED
  BY <1>10, <1>11, <1>12, <1>13, <1>14, <1>15, <1>16, <1>17, <1>18, <1>19 DEF IInv

\* The genesis names.
LEMMA InitHolds ==
    ASSUME Init
    PROVE  IInv
<1>1. /\ height = 1 /\ replayed = names /\ DOMAIN names = GenesisNames
      /\ made = [n \in Names |-> IF n \in GenesisNames THEN 1 ELSE 0]
      /\ reveals = [n \in Names |-> << >>]
      /\ \A n \in GenesisNames :
            names[n] = [NewName(0) EXCEPT !.registered = TRUE, !.owner = <<n, 1>>,
                                          !.flag = n \in GenesisParents]
  BY DEF Init
<1>2. PICK addr \in Addresses :
        coins = [c \in {<<n, 1>> : n \in GenesisNames} |->
                    [type |-> "register", auction |-> 0, addr |-> addr, target |-> addr, at |-> 0]]
  BY DEF Init
<1>3. \A n \in GenesisNames :
        /\ names[n] \in NameState
        /\ names[n].height = 0 /\ names[n].renewal = 0 /\ names[n].owner = <<n, 1>>
        /\ names[n].transfer = 0 /\ names[n].revoked = 0 /\ names[n].data = "empty"
        /\ names[n].registered
  <2> SUFFICES ASSUME NEW n \in GenesisNames
               PROVE  /\ names[n] \in NameState
                      /\ names[n].height = 0 /\ names[n].renewal = 0
                      /\ names[n].owner = <<n, 1>>
                      /\ names[n].transfer = 0 /\ names[n].revoked = 0
                      /\ names[n].data = "empty" /\ names[n].registered
    OBVIOUS
  <2>1. n \in Names /\ <<n, 1>> \in Outpoints
    BY NamesAssumption DEF Outpoints
  <2>2. names[n] = [NewName(0) EXCEPT !.registered = TRUE, !.owner = <<n, 1>>,
                                      !.flag = n \in GenesisParents]
    BY <1>1
  <2>3. names[n] \in NameState
    <3>1. NewName(0) \in NameState
      BY NewNameTyped
    <3>2. (n \in GenesisParents) \in BOOLEAN
      OBVIOUS
    <3> QED
      BY <2>1, <2>2, <3>1, <3>2 DEF NameState
  <2>4. /\ names[n].height = 0 /\ names[n].renewal = 0 /\ names[n].owner = <<n, 1>>
        /\ names[n].transfer = 0 /\ names[n].revoked = 0 /\ names[n].data = "empty"
    BY <2>2 DEF NewName
  <2>5. names[n].registered
    BY <2>2 DEF NewName
  <2> QED
    BY <2>3, <2>4, <2>5
<1>4. /\ DOMAIN coins = {<<n, 1>> : n \in GenesisNames}
      /\ \A c \in DOMAIN coins :
            /\ coins[c] \in CoinEntry /\ coins[c].type = "register" /\ coins[c].auction = 0
            /\ c[1] \in GenesisNames /\ c = <<c[1], 1>>
  BY <1>2 DEF CoinEntry, OwnerTypes
<1>5. GenesisNames \subseteq Names /\ \A n \in GenesisNames : n \notin Subdomains
  BY NamesAssumption
<1>6. made \in [Names -> Nat] /\ \A n \in GenesisNames : made[n] = 1 /\ 1 \in 1..made[n]
  <2>1. made = [n \in Names |-> IF n \in GenesisNames THEN 1 ELSE 0]
    BY <1>1
  <2>2. \A n \in Names : (IF n \in GenesisNames THEN 1 ELSE 0) \in Nat
    OBVIOUS
  <2>3. made \in [Names -> Nat]
    BY <2>1, <2>2
  <2>4. \A n \in GenesisNames : n \in Names
    BY <1>5
  <2>5. ASSUME NEW n \in GenesisNames PROVE made[n] = 1
    BY <2>1, <2>4
  <2>6. 1 \in 1..1
    OBVIOUS
  <2> QED
    BY <2>3, <2>5, <2>6
<1>7. TypeOK
  <2>2. \A c \in DOMAIN coins : \E n \in Names : \E k \in 1..made[n] : c = <<n, k>>
    BY <1>4, <1>5, <1>6
  <2>3. << >> \in Seq(Nat)
    OBVIOUS
  <2> QED
    BY <1>1, <1>3, <1>4, <1>5, <1>6, <2>2, <2>3 DEF TypeOK
<1>14. height = 1 /\ replayed = names /\ DOMAIN names = GenesisNames
  BY <1>1
<1>8. ReplayAgrees /\ HeightsInOrder
  BY <1>3, <1>14 DEF ReplayAgrees, HeightsInOrder
<1>9. OwnerMade
  BY <1>3, <1>6, <1>14 DEF OwnerMade
<1>10. AuctionFirst
  <2>1. \A n \in GenesisNames : <<n, 1>> # NoOwner
    BY OutpointIsNotNoOwner
  <2> QED
    BY <1>3, <1>14, <2>1 DEF AuctionFirst
<1>11. OwnerType /\ TransferClock
  BY <1>3, <1>4, <1>14 DEF OwnerType, TransferClock, OwnerTypes
<1>12. CoinsInOrder /\ OneOwner
  BY <1>3, <1>4, <1>14 DEF CoinsInOrder, OneOwner
<1>13. SecondPrice /\ NoDelegation /\ SubdomainsHaveParents
  BY <1>3, <1>5, <1>14 DEF SecondPrice, NoDelegation, SubdomainsHaveParents
<1> QED
  BY <1>7, <1>8, <1>9, <1>10, <1>11, <1>12, <1>13 DEF IInv

\* What an owner may do takes a step of one kind.
LEMMA OwnershipSteps ==
    ASSUME IInv, NEW n \in Names, NEW c \in DOMAIN coins,
           \/ \E addr \in Addresses, data \in Resources, flag \in FlagItems :
                Register(n, c, addr, data, flag)
           \/ \E data \in Resources, flag \in FlagItems : Update(n, c, data, flag)
           \/ Renew(n, c)
           \/ \E addr, target \in Addresses : Transfer(n, c, addr, target)
           \/ Finalize(n, c)
           \/ Revoke(n, c)
    PROVE  \E ns, coin : OwnerStep(n, c, ns, coin)
  BY RegisterStep, UpdateStep, RenewStep, TransferStep, FinalizeStep, RevokeStep

LEMMA NextKeeps ==
    ASSUME IInv, [Next]_vars
    PROVE  IInv'
<1>1. CASE Auction
  <2>1. PICK n \in Names :
            \/ Open(n)
            \/ \E value \in BidValues : Bid(n, value)
            \/ \E c \in DOMAIN coins :
                \/ Reveal(n, c)
                \/ Redeem(n, c)
                \/ \E addr \in Addresses, data \in Resources, flag \in FlagItems :
                    Register(n, c, addr, data, flag)
    BY <1>1 DEF Auction
  <2>2. CASE Open(n)
    BY <2>2, OpenKeeps
  <2>3. CASE \E value \in BidValues : Bid(n, value)
    BY <2>3, BidKeeps
  <2>4. ASSUME NEW c \in DOMAIN coins, Reveal(n, c) PROVE IInv'
    BY <2>4, RevealKeeps
  <2>5. ASSUME NEW c \in DOMAIN coins, Redeem(n, c) PROVE IInv'
    <3>1. /\ coins' = [d \in DOMAIN coins \ {c} |-> coins[d]]
          /\ UNCHANGED <<height, names, replayed, made, reveals>>
      BY <2>5 DEF Redeem
    <3> QED
      BY <3>1, SpendKeeps
  <2>6. ASSUME NEW c \in DOMAIN coins,
               \E addr \in Addresses, data \in Resources, flag \in FlagItems :
                    Register(n, c, addr, data, flag)
        PROVE  IInv'
    <3>1. \E ns, coin : OwnerStep(n, c, ns, coin)
      BY <2>6, OwnershipSteps
    <3> QED
      BY <3>1, OwnerStepKeeps
  <2> QED
    BY <2>1, <2>2, <2>3, <2>4, <2>5, <2>6
<1>2. CASE Ownership
  <2>1. PICK n \in Names, c \in DOMAIN coins :
            \/ \E data \in Resources, flag \in FlagItems : Update(n, c, data, flag)
            \/ Renew(n, c)
            \/ \E addr, target \in Addresses : Transfer(n, c, addr, target)
            \/ Finalize(n, c)
            \/ Revoke(n, c)
    BY <1>2 DEF Ownership
  <2>2. \E ns, coin : OwnerStep(n, c, ns, coin)
    BY <2>1, OwnershipSteps
  <2> QED
    BY <2>2, OwnerStepKeeps
<1>3. ASSUME NEW c \in DOMAIN coins, SpendPlain(c) PROVE IInv'
  <2>1. /\ coins' = [d \in DOMAIN coins \ {c} |-> coins[d]]
        /\ UNCHANGED <<height, names, replayed, made, reveals>>
    BY <1>3 DEF SpendPlain
  <2> QED
    BY <2>1, SpendKeeps
<1>4. CASE NextBlock
  BY <1>4, NextBlockKeeps
<1>5. CASE UNCHANGED vars
  <2>1. /\ height' = height /\ names' = names /\ replayed' = replayed /\ coins' = coins
        /\ made' = made /\ reveals' = reveals
    BY <1>5 DEF vars
  <2>2. TypeOK' /\ ReplayAgrees' /\ OwnerMade' /\ HeightsInOrder' /\ AuctionFirst'
    BY <2>1 DEF IInv, TypeOK, ReplayAgrees, OwnerMade, HeightsInOrder, AuctionFirst,
                RevealStart, BidStart
  <2>3. OwnerType' /\ CoinsInOrder' /\ OneOwner' /\ TransferClock'
    BY <2>1 DEF IInv, OwnerType, CoinsInOrder, OneOwner, TransferClock
  <2>4. SecondPrice' /\ NoDelegation' /\ SubdomainsHaveParents'
    BY <2>1 DEF IInv, SecondPrice, SecondPriceOutcome, NoDelegation, SubdomainsHaveParents
  <2> QED
    BY <2>2, <2>3, <2>4 DEF IInv
<1> QED
  BY <1>1, <1>2, <1>3, <1>4, <1>5 DEF Next, Halt

\* The flag of a name that auctions its subdomains is never cleared: not by the
\* covenants of its owner, and not when the name expires and is opened again.
LEMMA FlagKept ==
    ASSUME IInv, [Next]_vars
    PROVE  \A n \in DOMAIN names : names[n].flag => names'[n].flag
<1>1. ASSUME NEW n \in Names, NEW ns, NEW cov, Put(n, ns, cov),
             n \in DOMAIN names => (names[n].flag => ns.flag)
      PROVE  \A m \in DOMAIN names : names[m].flag => names'[m].flag
  BY <1>1, PutFacts
<1>2. ASSUME NEW n \in Names, NEW c, NEW ns, NEW coin, OwnerStep(n, c, ns, coin)
      PROVE  \A m \in DOMAIN names : names[m].flag => names'[m].flag
  <2>1. PICK cov : Put(n, ns, cov)
    BY <1>2 DEF OwnerStep
  <2>2. names[n].flag => ns.flag
    BY <1>2 DEF OwnerStep
  <2> QED
    BY <1>1, <2>1, <2>2
<1>3. ASSUME NEW n \in Names, Open(n)
      PROVE  \A m \in DOMAIN names : names[m].flag => names'[m].flag
  <2> DEFINE ns == IF n \in DOMAIN names THEN Current(n) ELSE NewName(height)
  <2>1. State(ns, height) = "opening" /\ ns.height = height /\ Put(n, ns, [type |-> "open"])
    BY <1>3 DEF Open
  <2>2. n \in DOMAIN names => (ns.flag <=> names[n].flag)
    BY <2>1, OpenFresh
  <2> HIDE DEF ns
  <2> QED
    BY <1>1, <2>1, <2>2
<1>4. ASSUME NEW n \in Names, NEW c \in DOMAIN coins, Reveal(n, c)
      PROVE  \A m \in DOMAIN names : names[m].flag => names'[m].flag
  <2> DEFINE v == coins[c].value
             ns == Revealed(names[n], NextOutpoint(n), v)
  <2>1. InState(n, {"reveal"}) /\ coins[c].type = "bid"
    BY <1>4 DEF Reveal
  <2>2. TypeOK
    BY DEF IInv
  <2>3. n \in DOMAIN names /\ names[n] \in NameState /\ Current(n) = names[n]
    BY <2>1, <2>2, InStateFacts
  <2>4. Put(n, ns, [type |-> "reveal", value |-> v])
    BY <1>4, <2>3 DEF Reveal
  <2>5. v \in Nat
    BY <2>1, <2>2 DEF TypeOK, CoinEntry, OwnerTypes
  <2>6. NextOutpoint(n) \in Outpoints
    BY <2>2 DEF TypeOK, NextOutpoint, Outpoints
  <2>7. ns.flag <=> names[n].flag
    BY <2>3, <2>5, <2>6, RevealedFacts
  <2> HIDE DEF ns
  <2> QED
    BY <1>1, <2>4, <2>7
<1>5. CASE names' = names
  BY <1>5
<1>6. CASE Auction
  <2>1. PICK n \in Names :
            \/ Open(n)
            \/ \E value \in BidValues : Bid(n, value)
            \/ \E c \in DOMAIN coins :
                \/ Reveal(n, c)
                \/ Redeem(n, c)
                \/ \E addr \in Addresses, data \in Resources, flag \in FlagItems :
                    Register(n, c, addr, data, flag)
    BY <1>6 DEF Auction
  <2>2. CASE \E value \in BidValues : Bid(n, value)
    BY <1>5, <2>2 DEF Bid
  <2>3. ASSUME NEW c \in DOMAIN coins, Redeem(n, c) PROVE names' = names
    BY <2>3 DEF Redeem
  <2>4. ASSUME NEW c \in DOMAIN coins,
               \E addr \in Addresses, data \in Resources, flag \in FlagItems :
                    Register(n, c, addr, data, flag)
        PROVE  \E ns, coin : OwnerStep(n, c, ns, coin)
    BY <2>4, OwnershipSteps
  <2> QED
    BY <1>2, <1>3, <1>4, <1>5, <2>1, <2>2, <2>3, <2>4
<1>7. CASE Ownership
  <2>1. PICK n \in Names, c \in DOMAIN coins :
            \/ \E data \in Resources, flag \in FlagItems : Update(n, c, data, flag)
            \/ Renew(n, c)
            \/ \E addr, target \in Addresses : Transfer(n, c, addr, target)
            \/ Finalize(n, c)
            \/ Revoke(n, c)
    BY <1>7 DEF Ownership
  <2>2. \E ns, coin : OwnerStep(n, c, ns, coin)
    BY <2>1, OwnershipSteps
  <2> QED
    BY <1>2, <2>2
<1>8. CASE \E c \in DOMAIN coins : SpendPlain(c)
  BY <1>5, <1>8 DEF SpendPlain
<1>9. CASE NextBlock \/ UNCHANGED vars
  BY <1>5, <1>9 DEF NextBlock, vars
<1> QED
  BY <1>6, <1>7, <1>8, <1>9 DEF Next, Halt

-----------------------------------------------------------------------------
(* The theorems *)

\* The inductive invariant holds in every reachable state.
THEOREM Invariance == Spec => []IInv
<1>1. Init => IInv
  BY InitHolds
<1>2. IInv /\ [Next]_vars => IInv'
  BY NextKeeps
<1> QED
  BY <1>1, <1>2, PTL DEF Spec

\* Every variable has its type, whatever covenants the blocks hold.
THEOREM TypeCorrect == Spec => []TypeOK
<1>1. IInv => TypeOK
  BY DEF IInv
<1> QED
  BY <1>1, Invariance, PTL

\* Owner and price of a name that is not registered yet are those of a
\* second-price auction over the values revealed (REVEAL of processCovenants).
THEOREM AuctionIsSecondPrice == Spec => []SecondPrice
<1>1. IInv => SecondPrice
  BY DEF IInv
<1> QED
  BY <1>1, Invariance, PTL

\* At most one unspent output proves the ownership of a name.
THEOREM OwnerIsUnique == Spec => []OneOwner
<1>1. IInv => OneOwner
  BY DEF IInv
<1> QED
  BY <1>1, Invariance, PTL

\* The transfer clock runs exactly while the owner's output is a TRANSFER.
THEOREM TransferIsTimed == Spec => []TransferClock
<1>1. IInv => TransferClock
  BY DEF IInv
<1> QED
  BY <1>1, Invariance, PTL

\* replayCovenants rebuilds the name state that processCovenants wrote.
THEOREM ReplayIsFaithful == Spec => []ReplayAgrees
<1>1. IInv => ReplayAgrees
  BY DEF IInv
<1> QED
  BY <1>1, Invariance, PTL

\* A name that auctions its subdomains has no delegation, and a subdomain has a
\* parent that auctions its subdomains.
THEOREM SubdomainRules == Spec => [](NoDelegation /\ SubdomainsHaveParents)
<1>1. IInv => NoDelegation /\ SubdomainsHaveParents
  BY DEF IInv
<1> QED
  BY <1>1, Invariance, PTL

\* Such a parent is there for every name that is a subdomain, also when the parent
\* expires, is auctioned again or is revoked.
THEOREM SubdomainParents == Spec => []SubdomainsHaveParents
<1>1. IInv => SubdomainsHaveParents
  BY DEF IInv
<1> QED
  BY <1>1, Invariance, PTL

\* auctionSubdomains is permanent: no step clears it, an expiry and the auction
\* that follows it included.
THEOREM FlagPermanent == Spec => FlagIsPermanent
<1>1. IInv /\ [Next]_vars => [\A n \in DOMAIN names : names[n].flag => names'[n].flag]_vars
  BY FlagKept
<1> QED
  BY <1>1, Invariance, PTL DEF Spec, FlagIsPermanent

=============================================================================
