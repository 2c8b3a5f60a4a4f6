----------------------------- MODULE NameAuction ------------------------------
(***************************************************************************)
(* Name auctions: the covenants of a block's transactions applied to the   *)
(* name state (CovenantProcessor.swift, NameState.swift), block after      *)
(* block, next to the state that replayCovenants rebuilds from the same    *)
(* blocks at start-up and after a rollback.                                *)
(*                                                                         *)
(* A transaction is one output with a covenant and the input of the same   *)
(* index, which is all that processCovenants looks at for that output.     *)
(* A covenant that is not accepted makes the block invalid, and changes    *)
(* nothing (Chain).  Signatures, payments and DNSSEC proofs are good, and  *)
(* the renewal block of REGISTER, RENEW and FINALIZE is mature.            *)
(*                                                                         *)
(* Definitions whose name starts with Faulty are not part of the model:    *)
(* each is the definition after it with a plausible bug, to see that the   *)
(* properties notice.                                                      *)
(***************************************************************************)
EXTENDS Integers, Sequences

CONSTANTS
    Names,            \* top-level names and subdomains
    ParentOf,         \* ParentOf[s] is the parent of subdomain s
    GenesisNames,     \* names registered in the genesis block
    GenesisParents,   \* those of them that auction their subdomains
    Addresses,
    Resources,        \* contents of a resource: "empty", "records", "delegation"
    BidValues,        \* values a bidder may commit to
    MinBid,           \* minimumBid: also the least price of a registration
    OpenPeriod, BiddingPeriod, RevealPeriod, RegisterDeadline,
    TransferLockup, RenewalWindow, AuctionMaturity,
    MaxHeight,        \* bound on the height
    MaxCoins          \* bound on the number of covenant outputs of each name

Subdomains == DOMAIN ParentOf

ASSUME NamesAssumption ==
    /\ ParentOf \in [Subdomains -> Names] /\ Subdomains \subseteq Names
    /\ GenesisNames \subseteq Names \ Subdomains
    /\ GenesisParents \subseteq GenesisNames
    /\ Addresses # {} /\ BidValues \subseteq Nat
    /\ "empty" \in Resources /\ Resources \subseteq {"empty", "records", "delegation"}

ASSUME PeriodsAssumption ==
    /\ \A p \in {OpenPeriod, BiddingPeriod, RevealPeriod, RegisterDeadline, AuctionMaturity} :
        p \in Nat \ {0}
    /\ TransferLockup \in Nat /\ MinBid \in Nat
    /\ RenewalWindow \in Nat
    /\ RenewalWindow > OpenPeriod + BiddingPeriod + RevealPeriod + RegisterDeadline
    /\ MaxHeight \in Nat /\ MaxCoins \in [Names -> Nat]

VARIABLES
    height,     \* height of the block being processed
    names,      \* NameDB: state of every name that was ever opened
    replayed,   \* the same, rebuilt by replayCovenants
    coins,      \* unspent covenant outputs; <<n, k>> is the k-th output for name n
    made,       \* number of outputs so far, for each name
    reveals     \* history: values revealed in the current auction of a name

vars == <<height, names, replayed, coins, made, reveals>>

FlagItems == {"absent", "off", "on"}    \* the optional flags item of REGISTER and UPDATE

\* Covenants of a coin that proves ownership of a registered name.
OwnerTypes == {"register", "update", "renew", "transfer", "finalize"}

NoOwner == << >>
Outpoints == Names \X Nat
NextOutpoint(n) == <<n, made[n] + 1>>

With(f, x, v) == [y \in DOMAIN f \cup {x} |-> IF y = x THEN v ELSE f[y]]

-----------------------------------------------------------------------------
(* NameState *)

NewName(h) ==
    [height |-> h, renewal |-> h, owner |-> NoOwner, value |-> 0, highest |-> 0,
     data |-> "empty", transfer |-> 0, revoked |-> 0, registered |-> FALSE, flag |-> FALSE]

BidStart(ns) == ns.height + OpenPeriod
RevealStart(ns) == BidStart(ns) + BiddingPeriod
RevealEnd(ns) == RevealStart(ns) + RevealPeriod
RegisterBy(ns) == RevealEnd(ns) + RegisterDeadline

\* A registered name is closed, also before the end of its first auction (genesis).
State(ns, h) ==
    IF ns.revoked # 0 THEN "revoked"
    ELSE IF ns.registered \/ h >= RevealEnd(ns) THEN "closed"
    ELSE IF h < BidStart(ns) THEN "opening"
    ELSE IF h < RevealStart(ns) THEN "bidding"
    ELSE "reveal"

IsExpired(ns, h) ==
    /\ ~(ns.registered /\ ns.height = 0 /\ ns.value = 0)
    /\ IF ns.revoked # 0
       THEN h >= ns.revoked + AuctionMaturity
       ELSE /\ State(ns, h) = "closed"
            /\ \/ h >= ns.renewal + RenewalWindow
               \/ ns.owner = NoOwner
               \/ ~ns.registered /\ h > RegisterBy(ns)

\* The flags are lost with the rest of the state.
FaultyMaybeExpire(ns, h) ==
    IF IsExpired(ns, h) THEN [NewName(h) EXCEPT !.data = ns.data] ELSE ns

\* maybeExpire: the data and the flags outlive the registration.
MaybeExpire(ns, h) ==
    IF IsExpired(ns, h) THEN [NewName(h) EXCEPT !.data = ns.data, !.flag = ns.flag] ELSE ns

\* The state processCovenants starts from.
Current(n) == MaybeExpire(names[n], height)

InState(n, states) == n \in DOMAIN names /\ State(Current(n), height) \in states

\* The first value revealed is kept as the price.
FaultyRevealed(ns, id, value) ==
    CASE ns.owner = NoOwner \/ value > ns.highest ->
            [ns EXCEPT !.value = ns.highest, !.owner = id, !.highest = value]
      [] OTHER -> ns

\* The Vickrey update of a REVEAL.
Revealed(ns, id, value) ==
    CASE ns.owner = NoOwner \/ value > ns.highest ->
            [ns EXCEPT !.value = ns.highest, !.owner = id, !.highest = value]
      [] ns.owner # NoOwner /\ value <= ns.highest /\ value > ns.value ->
            [ns EXCEPT !.value = value]
      [] OTHER -> ns

Price(ns) == IF ns.value > MinBid THEN ns.value ELSE MinBid

\* A covenant without the item clears the flags.
FaultyFlagAfter(ns, item) == item = "on"

FlagAfter(ns, item) == IF item = "absent" THEN ns.flag ELSE item = "on"

-----------------------------------------------------------------------------
(* replayCovenants: no checks, the effect of each covenant type. *)

\* The name is not expired first.
FaultyReplayFrom(n) == IF n \in DOMAIN replayed THEN replayed[n] ELSE NewName(height)

ReplayFrom(n) ==
    IF n \in DOMAIN replayed THEN MaybeExpire(replayed[n], height) ELSE NewName(height)

Replay(n, cov, id) ==
    LET ns == ReplayFrom(n)
    IN  CASE cov.type = "open" -> ns
          [] cov.type = "reveal" -> Revealed(ns, id, cov.value)
          [] cov.type = "register" ->
               [ns EXCEPT !.registered = TRUE, !.value = Price(ns), !.owner = id,
                          !.data = cov.data, !.renewal = height,
                          !.flag = FlagAfter(ns, cov.flag)]
          [] cov.type = "update" ->
               [ns EXCEPT !.flag = FlagAfter(ns, cov.flag), !.owner = id,
                          !.data = cov.data, !.transfer = 0]
          [] cov.type = "renew" ->
               [ns EXCEPT !.owner = id, !.transfer = 0, !.renewal = height]
          [] cov.type = "transfer" -> [ns EXCEPT !.owner = id, !.transfer = height]
          [] cov.type = "finalize" -> [ns EXCEPT !.owner = id, !.transfer = 0]
          [] cov.type = "revoke" ->
               [ns EXCEPT !.revoked = height, !.transfer = 0, !.data = "empty"]

-----------------------------------------------------------------------------
(* processCovenants: one action per covenant type. *)

\* The name state, and its replay, after covenant cov of name n.
Put(n, ns, cov) ==
    /\ names' = With(names, n, ns)
    /\ replayed' = With(replayed, n, Replay(n, cov, NextOutpoint(n)))
    /\ UNCHANGED height

\* The input of the covenant is spent, its output is a coin of the given type.
Move(n, c, coin) ==
    /\ made[n] < MaxCoins[n] /\ made' = [made EXCEPT ![n] = @ + 1]
    /\ coins' = With([d \in DOMAIN coins \ {c} |-> coins[d]], NextOutpoint(n), coin)

BidCoin(type, value) == [type |-> type, value |-> value]

OwnerCoin(type, auction, addr, target) ==
    [type |-> type, auction |-> auction, addr |-> addr, target |-> target, at |-> height]

Init ==
    /\ height = 1
    /\ names = [n \in GenesisNames |-> [NewName(0) EXCEPT !.registered = TRUE,
                                                          !.owner = <<n, 1>>,
                                                          !.flag = n \in GenesisParents]]
    /\ replayed = names
    /\ made = [n \in Names |-> IF n \in GenesisNames THEN 1 ELSE 0]
    /\ \E addr \in Addresses :
        coins = [c \in {<<n, 1>> : n \in GenesisNames} |->
                   [type |-> "register", auction |-> 0, addr |-> addr, target |-> addr,
                    at |-> 0]]
    /\ reveals = [n \in Names |-> << >>]

\* A new name, or one that is expired, which starts again.
Open(n) ==
    LET ns == IF n \in DOMAIN names THEN Current(n) ELSE NewName(height)
    IN  /\ State(ns, height) = "opening" /\ ns.height = height
        /\ n \in Subdomains => ParentOf[n] \in DOMAIN names /\ names[ParentOf[n]].flag
        /\ Put(n, ns, [type |-> "open"])
        /\ reveals' = [reveals EXCEPT ![n] = << >>]
        /\ UNCHANGED <<coins, made>>

Bid(n, value) ==
    /\ InState(n, {"bidding"})
    /\ Move(n, NoOwner, BidCoin("bid", value))
    /\ UNCHANGED <<height, names, replayed, reveals>>

\* The blind of the BID fixes the value; its name and auction are not compared.
Reveal(n, c) ==
    /\ InState(n, {"reveal"}) /\ coins[c].type = "bid"
    /\ Put(n, Revealed(Current(n), NextOutpoint(n), coins[c].value),
           [type |-> "reveal", value |-> coins[c].value])
    /\ Move(n, c, BidCoin("reveal", coins[c].value))
    /\ reveals' = [reveals EXCEPT ![n] = Append(@, coins[c].value)]

\* The output of a REDEEM is as good as a plain one.
Redeem(n, c) ==
    /\ InState(n, {"closed", "revoked"}) /\ coins[c].type = "reveal"
    /\ coins' = [d \in DOMAIN coins \ {c} |-> coins[d]]
    /\ UNCHANGED <<height, names, replayed, made, reveals>>

\* The resource is checked against the flags before the covenant.
FaultyResourceAllowed(ns, data, flag) ==
    /\ ~(ns.flag /\ flag = "off")
    /\ ~(ns.flag /\ data = "delegation")

\* What the flags item and the resource of a covenant must satisfy.
ResourceAllowed(ns, data, flag) ==
    /\ ~(ns.flag /\ flag = "off")
    /\ ~(FlagAfter(ns, flag) /\ data = "delegation")

\* Any REVEAL may be registered.
FaultyIsWinner(n, c) == coins[c].type = "reveal"

IsWinner(n, c) == coins[c].type = "reveal" /\ Current(n).owner = c

Register(n, c, addr, data, flag) ==
    LET ns == Current(n)
    IN  /\ InState(n, {"closed"}) /\ height <= RegisterBy(ns)
        /\ IsWinner(n, c)
        /\ ResourceAllowed(ns, data, flag)
        /\ Put(n, [ns EXCEPT !.registered = TRUE, !.value = Price(ns), !.owner = NextOutpoint(n),
                             !.data = data, !.renewal = height, !.flag = FlagAfter(ns, flag)],
               [type |-> "register", data |-> data, flag |-> flag])
        /\ Move(n, c, OwnerCoin("register", ns.height, addr, addr))
        /\ UNCHANGED reveals

\* A covenant of the owner of a closed name, whose input may be of these types.
ByOwner(n, c, types) ==
    InState(n, {"closed"}) /\ coins[c].type \in types /\ Current(n).owner = c

\* The transfer in progress is not cancelled.
FaultyUpdate(n, c, data, flag) ==
    LET ns == Current(n)
    IN  /\ ByOwner(n, c, OwnerTypes) /\ ResourceAllowed(ns, data, flag)
        /\ Put(n, [ns EXCEPT !.flag = FlagAfter(ns, flag), !.data = data, !.owner = NextOutpoint(n)],
               [type |-> "update", data |-> data, flag |-> flag])
        /\ Move(n, c, OwnerCoin("update", ns.height, coins[c].addr, coins[c].addr))
        /\ UNCHANGED reveals

Update(n, c, data, flag) ==
    LET ns == Current(n)
    IN  /\ ByOwner(n, c, OwnerTypes) /\ ResourceAllowed(ns, data, flag)
        /\ Put(n, [ns EXCEPT !.flag = FlagAfter(ns, flag), !.data = data, !.owner = NextOutpoint(n),
                             !.transfer = 0],
               [type |-> "update", data |-> data, flag |-> flag])
        /\ Move(n, c, OwnerCoin("update", ns.height, coins[c].addr, coins[c].addr))
        /\ UNCHANGED reveals

Renew(n, c) ==
    /\ ByOwner(n, c, OwnerTypes)
    /\ Put(n, [Current(n) EXCEPT !.owner = NextOutpoint(n), !.transfer = 0, !.renewal = height],
           [type |-> "renew"])
    /\ Move(n, c, OwnerCoin("renew", Current(n).height, coins[c].addr, coins[c].addr))
    /\ UNCHANGED reveals

\* The address of the output is not compared with that of the input.
Transfer(n, c, addr, target) ==
    /\ ByOwner(n, c, OwnerTypes \ {"transfer"})
    /\ Put(n, [Current(n) EXCEPT !.owner = NextOutpoint(n), !.transfer = height],
           [type |-> "transfer"])
    /\ Move(n, c, OwnerCoin("transfer", Current(n).height, addr, target))
    /\ UNCHANGED reveals

Finalize(n, c) ==
    LET ns == Current(n)
    IN  /\ ByOwner(n, c, {"transfer"})
        /\ ns.transfer # 0 /\ height >= ns.transfer + TransferLockup
        /\ Put(n, [ns EXCEPT !.owner = NextOutpoint(n), !.transfer = 0], [type |-> "finalize"])
        /\ Move(n, c, OwnerCoin("finalize", ns.height, coins[c].target, coins[c].target))
        /\ UNCHANGED reveals

\* The owner stays the outpoint that is spent here.
Revoke(n, c) ==
    /\ ByOwner(n, c, OwnerTypes)
    /\ Put(n, [Current(n) EXCEPT !.revoked = height, !.transfer = 0, !.data = "empty"],
           [type |-> "revoke"])
    /\ Move(n, c, OwnerCoin("revoke", Current(n).height, coins[c].addr, coins[c].addr))
    /\ UNCHANGED reveals

\* A covenant output is the input of a transaction without covenants: nothing
\* in _connectBlock looks at the covenants of inputs by themselves.
SpendPlain(c) ==
    /\ coins' = [d \in DOMAIN coins \ {c} |-> coins[d]]
    /\ UNCHANGED <<height, names, replayed, made, reveals>>

NextBlock ==
    /\ height < MaxHeight /\ height' = height + 1
    /\ UNCHANGED <<names, replayed, coins, made, reveals>>

\* The bound is reached.
Halt == height = MaxHeight /\ UNCHANGED vars

Auction ==
    \E n \in Names :
        \/ Open(n)
        \/ \E value \in BidValues : Bid(n, value)
        \/ \E c \in DOMAIN coins :
            \/ Reveal(n, c)
            \/ Redeem(n, c)
            \/ \E addr \in Addresses, data \in Resources, flag \in FlagItems :
                Register(n, c, addr, data, flag)

Ownership ==
    \E n \in Names, c \in DOMAIN coins :
        \/ \E data \in Resources, flag \in FlagItems : Update(n, c, data, flag)
        \/ Renew(n, c)
        \/ \E addr, target \in Addresses : Transfer(n, c, addr, target)
        \/ Finalize(n, c)
        \/ Revoke(n, c)

Next ==
    \/ Auction \/ Ownership
    \/ \E c \in DOMAIN coins : SpendPlain(c)
    \/ NextBlock \/ Halt

Spec == Init /\ [][Next]_vars

-----------------------------------------------------------------------------
(* Properties *)

NameState ==
    [height : Nat, renewal : Nat, owner : Outpoints \cup {NoOwner}, value : Nat, highest : Nat,
     data : Resources, transfer : Nat, revoked : Nat, registered : BOOLEAN, flag : BOOLEAN]

CoinEntry ==
    [type : {"bid", "reveal"}, value : Nat]
    \cup [type : OwnerTypes \cup {"revoke"}, auction : Nat, addr : Addresses,
          target : Addresses, at : Nat]

\* Every variable has its type.
TypeOK ==
    /\ height \in Nat /\ made \in [Names -> Nat]
    /\ DOMAIN names \subseteq Names /\ \A n \in DOMAIN names : names[n] \in NameState
    /\ DOMAIN replayed \subseteq Names /\ \A n \in DOMAIN replayed : replayed[n] \in NameState
    /\ \A c \in DOMAIN coins :
        coins[c] \in CoinEntry /\ \E n \in Names : \E k \in 1..made[n] : c = <<n, k>>
    /\ reveals \in [Names -> Seq(Nat)]

\* The outcome of an auction whose reveals had the values r, in that order: the
\* first of the highest ones wins, at the price of the second highest.
SecondPriceOutcome(ns, r) ==
    IF r = << >> THEN ns.owner = NoOwner /\ ns.highest = 0 /\ ns.value = 0
    ELSE /\ ns.owner # NoOwner
         /\ \A i \in DOMAIN r : r[i] <= ns.highest
         /\ \E i \in DOMAIN r : r[i] = ns.highest
         /\ \A i, j \in DOMAIN r : i # j => r[i] <= ns.value \/ r[j] <= ns.value
         /\ \/ ns.value = 0 /\ Len(r) = 1
            \/ \E i, j \in DOMAIN r : i # j /\ r[i] = ns.value /\ r[j] >= ns.value

\* Until the winner registers, owner and price are those of a second-price
\* auction over the values revealed, in whatever order and number, and however
\* often the name was auctioned before.
SecondPrice ==
    \A n \in DOMAIN names : ~names[n].registered =>
        /\ SecondPriceOutcome(names[n], reveals[n])
        /\ names[n].owner \in DOMAIN coins =>
                coins[names[n].owner].value = names[n].highest

\* At most one unspent output proves the ownership of a name: of the outputs of
\* the current auction it is the one the name state points to, and there is none
\* once the name is revoked.
OneOwner ==
    \A c \in DOMAIN coins : coins[c].type \in OwnerTypes =>
        /\ c[1] \in DOMAIN names
        /\ LET ns == names[c[1]]
           IN  coins[c].auction = ns.height =>
                   ns.registered /\ ns.revoked = 0 /\ ns.owner = c

\* The clock of a transfer runs exactly while the owner's output is that TRANSFER:
\* whatever else the owner does cancels it, so that FINALIZE waits the full lockup
\* of the TRANSFER it spends.
TransferClock ==
    \A n \in DOMAIN names : names[n].owner \in DOMAIN coins =>
        LET c == coins[names[n].owner]
        IN  names[n].transfer = IF c.type = "transfer" THEN c.at ELSE 0

\* "Names with auctionSubdomains (including just-enabled) cannot have delegation
\* records", also not those that were there before the flag or before an expiry.
NoDelegation == \A n \in DOMAIN names : names[n].flag => names[n].data # "delegation"

\* A subdomain is only ever there under a parent that auctions its subdomains, and
\* stays so when the parent expires, is auctioned again or is revoked.
SubdomainsHaveParents ==
    \A n \in Subdomains \cap DOMAIN names :
        ParentOf[n] \in DOMAIN names /\ names[ParentOf[n]].flag

\* "replayCovenants produces identical tree roots as processCovenants."
ReplayAgrees == replayed = names

\* "auctionSubdomains is permanent - cannot be unset once enabled", by whoever owns
\* the name after this owner lost it.
FlagIsPermanent ==
    [][\A n \in DOMAIN names : names[n].flag => names'[n].flag]_vars

\* CovenantVerifier: a REVOKE output is "Permanently unspendable".
RevokedUnspendable ==
    [][\A c \in DOMAIN coins : coins[c].type = "revoke" => c \in DOMAIN coins']_vars
=============================================================================
