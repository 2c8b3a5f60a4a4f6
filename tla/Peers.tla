--------------------------------- MODULE Peers ---------------------------------
(***************************************************************************)
(* The connections of a node: PeerManager.swift and AddressPool.swift.     *)
(*                                                                         *)
(* refillOutbound runs on a timer, after every handshake and five seconds  *)
(* after every disconnect, in tasks that nothing keeps apart; a dial is a  *)
(* task of its own.  Each section under the lock of PeerManager is a step, *)
(* so that what one task has read may be stale when it acts.               *)
(*                                                                         *)
(* An address is a string host:port, whose host may be a name: what is     *)
(* dialed.  A connection is known by the numeric address that parseIP      *)
(* makes of it, and a node tells the world that it listens on the default  *)
(* port of the network.  The three differ, and so do the books kept under  *)
(* them.  Time is seen only through what it ends: a cooldown, a ban, a     *)
(* handshake that takes too long.                                          *)
(***************************************************************************)
EXTENDS Integers, FiniteSets

CONSTANTS
    Addrs, None,
    Resolved,        \* Resolved[a]: the numeric addresses that DNS may give for a; {a} if it is one
    AtDefaultPort,   \* AtDefaultPort[a]: the host of a at config.network.defaultPort
    PeerLists,       \* what the configuration may list, as nodes or seeds
    Exclusive,       \* TRUE: the list is config.nodes, "connect ONLY to these"
    Dns,             \* what the DNS seeds resolve to
    Gossip,          \* what peers.dat holds and addr messages name
    Selves,          \* numeric addresses of this node itself, on all its ports
    Callers,         \* nodes that connect to this one
    Reliable,        \* nodes that can be reached, but for a fault
    MaxOutbound, MaxInbound, MaxAddressPool, MaxFailCount,
    Tasks,           \* tasks that may run refillOutbound at the same time
    Timer,           \* one of them: the timer of 30 seconds
    MaxId,           \* bound on nextPeerId
    MaxFaults        \* bound on failures to reach a reliable node or to stay connected

ASSUME PeersAssumption ==
    /\ None \notin Addrs /\ Timer \in Tasks /\ Exclusive \in BOOLEAN
    /\ Resolved \in [Addrs -> SUBSET Addrs] /\ AtDefaultPort \in [Addrs -> Addrs]
    /\ PeerLists \subseteq SUBSET Addrs /\ Dns \subseteq Addrs /\ Gossip \subseteq Addrs
    /\ Selves \subseteq Addrs /\ Reliable \subseteq Addrs
    /\ MaxOutbound \in Nat /\ MaxInbound \in Nat /\ MaxAddressPool \in Nat
    /\ MaxFailCount \in Nat \ {0} /\ MaxId \in Nat /\ MaxFaults \in Nat

VARIABLES
    configuredNodes,   \* the list, its names resolved when the node started or kept
    peers,             \* the registered connections, by id
    nextPeerId,
    dialing,           \* dialing[a]: dials of a in progress
    dialedAddresses,
    failedAddresses,   \* count of each address; 0: no entry
    cooling,           \* those whose cooldown has not run out
    addressPool,
    seedAddresses,     \* in the order of a shuffle: any
    selfAddresses,
    banned,            \* banMap: hosts, as their addresses at the default port
    dnsResolved,       \* lastDNSResolve is less than 30 seconds ago
    refill,            \* refill[t]: where task t is in refillOutbound
    refused,           \* addresses whose dial ended in registerPeer
    faults

Numeric == {a \in Addrs : Resolved[a] = {a}}

book == <<dialedAddresses, failedAddresses, cooling, addressPool>>
vars == <<configuredNodes, peers, nextPeerId, dialing, book, seedAddresses, selfAddresses, banned,
          dnsResolved, refill, refused, faults>>

Outbound == {i \in DOMAIN peers : peers[i].outbound}
Inbound == {i \in DOMAIN peers : ~peers[i].outbound}
DialedTo(a) == {i \in Outbound : peers[i].dialed = a}
ConnectedTo(a) == {i \in Outbound : peers[i].addr = a}

Idle == [at |-> "idle", todo |-> {}, dial |-> None]

\* startOutboundConnections: a name that DNS knows is replaced by all its addresses, one that
\* it does not know is kept.
Configure(list) ==
    \E known \in SUBSET list : configuredNodes = (list \ known) \cup UNION {Resolved[a] : a \in known}

\* The pool is that of peers.dat; the configured nodes are being dialed.
Init ==
    /\ \E list \in PeerLists : Configure(list)
    /\ peers = [i \in {} |-> {}] /\ nextPeerId = 1
    /\ dialing = [a \in Addrs |-> IF a \in configuredNodes THEN 1 ELSE 0]
    /\ dialedAddresses = configuredNodes
    /\ failedAddresses = [a \in Addrs |-> 0] /\ cooling = {}
    /\ addressPool \in {pool \in SUBSET Gossip : Cardinality(pool) <= MaxAddressPool}
    /\ seedAddresses = {} /\ selfAddresses = {} /\ banned = {} /\ dnsResolved = FALSE
    /\ refill = [t \in Tasks |-> Idle] /\ refused = {} /\ faults = 0

Fault == faults < MaxFaults /\ faults' = faults + 1

-----------------------------------------------------------------------------
(* refillOutbound *)

HasSlot == Cardinality(DOMAIN peers) < MaxOutbound
HasOutboundSlot == Cardinality(Outbound) < MaxOutbound

\* The dial itself is a step of its own: the lock is released in between.
Dialable(a) == a \notin dialedAddresses /\ a \notin selfAddresses
DialableNow(a) == Dialable(a) /\ a \notin cooling

GoTo(t, at, todo, dial) ==
    /\ refill' = [refill EXCEPT ![t] = [at |-> at, todo |-> todo, dial |-> dial]]
    /\ UNCHANGED <<configuredNodes, peers, nextPeerId, dialing, book, selfAddresses, banned, refused, faults>>

Stay == UNCHANGED <<seedAddresses, dnsResolved>>

RefillOutbound(t) ==
    /\ refill[t] = Idle /\ HasSlot
    /\ GoTo(t, "nodes", configuredNodes, None) /\ Stay

At(t, at) == refill[t].at = at /\ refill[t].dial = None

\* This node's own address is not recognised.
FaultyNextNode(t) ==
    /\ At(t, "nodes") /\ HasSlot
    /\ \E a \in refill[t].todo :
          GoTo(t, "nodes", refill[t].todo \ {a}, IF a \in dialedAddresses THEN None ELSE a)
    /\ Stay

\* configuredNodes are dialed whatever their cooldown; the peers that are counted
\* are those of both directions.
NextNode(t) ==
    /\ At(t, "nodes") /\ HasSlot
    /\ \E a \in refill[t].todo :
          GoTo(t, "nodes", refill[t].todo \ {a}, IF Dialable(a) THEN a ELSE None)
    /\ Stay

\* DNS is not asked again while the pool has an address.
FaultyNodesDone(t) ==
    /\ At(t, "nodes")
    /\ IF refill[t].todo # {} THEN ~HasSlot /\ GoTo(t, "idle", {}, None)
       ELSE GoTo(t, IF Exclusive \/ ~HasOutboundSlot THEN "idle"
                    ELSE IF seedAddresses # {} THEN "seeds"
                    ELSE IF addressPool = {} THEN "resolve" ELSE "pool", {}, None)
    /\ Stay

\* The pool is used only next to an outbound peer; without one DNS is asked.
NodesDone(t) ==
    /\ At(t, "nodes")
    /\ IF refill[t].todo # {} THEN ~HasSlot /\ GoTo(t, "idle", {}, None)
       ELSE GoTo(t, IF Exclusive \/ ~HasOutboundSlot THEN "idle"
                    ELSE IF seedAddresses # {} THEN "seeds"
                    ELSE IF Outbound = {} THEN "resolve" ELSE "pool", {}, None)
    /\ Stay

\* connectNextSeed: an address that is skipped is gone from the list all the same.
NextSeed(t) ==
    /\ At(t, "seeds") /\ UNCHANGED dnsResolved
    /\ IF ~HasOutboundSlot \/ seedAddresses = {}
       THEN GoTo(t, "idle", {}, None) /\ UNCHANGED seedAddresses
       ELSE \E a \in seedAddresses :
               /\ seedAddresses' = seedAddresses \ {a}
               /\ GoTo(t, "seeds", {}, IF DialableNow(a) THEN a ELSE None)

\* resolveAndConnectSeeds, which ends in refillOutbound.
ResolveSeeds(t) ==
    /\ At(t, "resolve")
    /\ IF dnsResolved THEN GoTo(t, "idle", {}, None) /\ Stay
       ELSE /\ dnsResolved' = TRUE
            /\ seedAddresses' = seedAddresses \cup (Dns \ configuredNodes)
            /\ IF HasSlot THEN GoTo(t, "nodes", configuredNodes, None) ELSE GoTo(t, "idle", {}, None)

ConnectFromPool(t) ==
    /\ At(t, "pool") /\ Stay
    /\ LET candidates == {a \in addressPool : HasOutboundSlot /\ DialableNow(a)}
       IN  IF candidates = {} THEN GoTo(t, "idle", {}, None)
           ELSE \E a \in candidates : GoTo(t, "idle", {}, a)

\* connectPlainOutbound, whose book is that of the strings dialed.
Dial(t) ==
    LET a == refill[t].dial
    IN  /\ a # None
        /\ refill' = [refill EXCEPT ![t].dial = None]
        /\ dialedAddresses' = dialedAddresses \cup {a}
        /\ dialing' = [dialing EXCEPT ![a] = @ + 1]
        /\ UNCHANGED <<configuredNodes, peers, nextPeerId, failedAddresses, cooling, addressPool, seedAddresses,
                       selfAddresses, banned, dnsResolved, refused, faults>>

RefillStep(t) ==
    NextNode(t) \/ NodesDone(t) \/ NextSeed(t) \/ ResolveSeeds(t) \/ ConnectFromPool(t) \/ Dial(t)

-----------------------------------------------------------------------------
(* Connections *)

\* A failure counts towards the cooldown of the address, and MaxFailCount of them take it
\* out of the pool.
Failed(a) ==
    IF failedAddresses[a] + 1 >= MaxFailCount
    THEN /\ failedAddresses' = [failedAddresses EXCEPT ![a] = 0]
         /\ cooling' = cooling \ {a} /\ addressPool' = addressPool \ {a}
    ELSE /\ failedAddresses' = [failedAddresses EXCEPT ![a] = @ + 1]
         /\ cooling' = cooling \cup {a} /\ UNCHANGED addressPool

\* registerPeer; k is what parseIP makes of the address a.
Registered(a, k, outbound) ==
    /\ nextPeerId <= MaxId
    /\ peers' = [i \in DOMAIN peers \cup {nextPeerId} |->
                    IF i = nextPeerId
                    THEN [dialed |-> a, addr |-> k, outbound |-> outbound,
                          handshaked |-> FALSE, closing |-> FALSE]
                    ELSE peers[i]]
    /\ nextPeerId' = nextPeerId + 1

DialFails(a) ==
    /\ dialing[a] > 0
    /\ dialing' = [dialing EXCEPT ![a] = @ - 1]
    /\ dialedAddresses' = dialedAddresses \ {a} /\ Failed(a)
    /\ IF a \in Reliable THEN Fault ELSE UNCHANGED faults
    /\ UNCHANGED <<configuredNodes, peers, nextPeerId, seedAddresses, selfAddresses, banned, dnsResolved, refill, refused>>

DialConnects(a) ==
    /\ dialing[a] > 0
    /\ dialing' = [dialing EXCEPT ![a] = @ - 1]
    /\ \E k \in Resolved[a] : AtDefaultPort[k] \notin banned /\ Registered(a, k, TRUE)
    /\ UNCHANGED <<configuredNodes, book, seedAddresses, selfAddresses, banned, dnsResolved, refill, refused, faults>>

\* A ban that comes before the dial ends: dialedAddresses keeps the address.
DialRefused(a) ==
    /\ dialing[a] > 0 /\ \E k \in Resolved[a] : AtDefaultPort[k] \in banned
    /\ dialing' = [dialing EXCEPT ![a] = @ - 1]
    /\ refused' = refused \cup {a}
    /\ UNCHANGED <<configuredNodes, peers, nextPeerId, book, seedAddresses, selfAddresses, banned, dnsResolved, refill, faults>>

\* handleInboundConnection; the port of the connection is not a listening port.
AcceptInbound(a) ==
    /\ a \in Callers /\ AtDefaultPort[a] \notin banned /\ Cardinality(Inbound) < MaxInbound
    /\ Registered(a, a, FALSE)
    /\ UNCHANGED <<configuredNodes, dialing, book, seedAddresses, selfAddresses, banned, dnsResolved, refill, refused, faults>>

\* peerDidHandshake; the refill at its end is that of some task.  The address that goes to
\* the pool has the port that the version message names (localListenPort).
PeerDidHandshake(i) ==
    LET a == peers[i].addr
        routable == AtDefaultPort[a]
    IN  /\ ~peers[i].handshaked /\ ~peers[i].closing /\ a \notin Selves
        /\ peers' = [peers EXCEPT ![i].handshaked = TRUE]
        /\ IF peers[i].outbound
           THEN failedAddresses' = [failedAddresses EXCEPT ![a] = 0] /\ cooling' = cooling \ {a}
           ELSE UNCHANGED <<failedAddresses, cooling>>
        /\ addressPool' = IF routable \in addressPool \/ Cardinality(addressPool) < MaxAddressPool
                          THEN addressPool \cup {routable} ELSE addressPool
        /\ UNCHANGED <<configuredNodes, nextPeerId, dialing, dialedAddresses, seedAddresses, selfAddresses, banned,
                       dnsResolved, refill, refused, faults>>

\* peerIsSelf, at both ends of the connection: whatever the port, the default one is recorded.
PeerIsSelf(i) ==
    /\ peers[i].addr \in Selves /\ ~peers[i].closing
    /\ selfAddresses' = selfAddresses \cup {AtDefaultPort[peers[i].addr]}
    /\ peers' = [peers EXCEPT ![i].closing = TRUE]
    /\ UNCHANGED <<configuredNodes, nextPeerId, dialing, book, seedAddresses, banned, dnsResolved, refill, refused, faults>>

\* syncBanPeer, or the ban score.
BanPeer(i) ==
    /\ peers[i].handshaked /\ ~peers[i].closing
    /\ banned' = banned \cup {AtDefaultPort[peers[i].addr]} /\ Fault
    /\ peers' = [peers EXCEPT ![i].closing = TRUE]
    /\ UNCHANGED <<configuredNodes, nextPeerId, dialing, book, seedAddresses, selfAddresses, dnsResolved, refill, refused>>

\* The ids start again as soon as one peer is left.
FaultyNextId(left) == IF Cardinality(left) <= 1 THEN 1 ELSE nextPeerId

NextId(left) == IF left = {} THEN 1 ELSE nextPeerId

\* The address of the peer stays in dialedAddresses.
FaultyPeerDidDisconnect(i) ==
    LET a == peers[i].addr
        left == DOMAIN peers \ {i}
    IN  /\ peers' = [j \in left |-> peers[j]] /\ nextPeerId' = NextId(left)
        /\ UNCHANGED dialedAddresses
        /\ IF peers[i].outbound THEN Failed(a) ELSE UNCHANGED <<failedAddresses, cooling, addressPool>>
        /\ UNCHANGED <<configuredNodes, dialing, seedAddresses, selfAddresses, banned, dnsResolved, refill, refused>>

\* handleDisconnect sets connectionState to .destroyed before peerDidDisconnect looks at
\* it: nobody is handshaked there, so an outbound peer has always failed.  The books are
\* those of the connection's address, not of the string that was dialed.
PeerDidDisconnect(i) ==
    LET a == peers[i].addr
        left == DOMAIN peers \ {i}
    IN  /\ peers' = [j \in left |-> peers[j]] /\ nextPeerId' = NextId(left)
        /\ IF peers[i].outbound
           THEN dialedAddresses' = dialedAddresses \ {a} /\ Failed(a)
           ELSE UNCHANGED book
        /\ UNCHANGED <<configuredNodes, dialing, seedAddresses, selfAddresses, banned, dnsResolved, refill, refused>>

\* The node closes the connection, or checkInactivity does, or it fails.
Steady(i) == peers[i].addr \in Reliable \cup Selves /\ ~peers[i].closing
Stuck(i) == peers[i].closing \/ ~peers[i].handshaked

ConnectionEnds(i) ==
    /\ IF Steady(i) /\ peers[i].outbound THEN Fault ELSE UNCHANGED faults
    /\ PeerDidDisconnect(i)

\* handleAddr
LearnAddress(a) ==
    /\ a \in Gossip \ addressPool /\ ConnectedTo(a) = {} /\ Cardinality(addressPool) < MaxAddressPool
    /\ \E i \in DOMAIN peers : peers[i].handshaked
    /\ addressPool' = addressPool \cup {a}
    /\ UNCHANGED <<configuredNodes, peers, nextPeerId, dialing, dialedAddresses, failedAddresses, cooling, seedAddresses,
                   selfAddresses, banned, dnsResolved, refill, refused, faults>>

-----------------------------------------------------------------------------
(* Time *)

CooldownEnds(a) ==
    /\ a \in cooling /\ cooling' = cooling \ {a}
    /\ UNCHANGED <<configuredNodes, peers, nextPeerId, dialing, dialedAddresses, failedAddresses, addressPool,
                   seedAddresses, selfAddresses, banned, dnsResolved, refill, refused, faults>>

DnsCooldownEnds ==
    /\ dnsResolved /\ dnsResolved' = FALSE
    /\ UNCHANGED <<configuredNodes, peers, nextPeerId, dialing, book, seedAddresses, selfAddresses, banned, refill,
                   refused, faults>>

\* cleanupBans forgets how often an address has failed once its cooldown is over.
CleanupFailures ==
    /\ \E a \in Addrs \ cooling : failedAddresses[a] > 0
    /\ failedAddresses' = [a \in Addrs |-> IF a \in cooling THEN failedAddresses[a] ELSE 0]
    /\ UNCHANGED <<configuredNodes, peers, nextPeerId, dialing, dialedAddresses, cooling, addressPool, seedAddresses,
                   selfAddresses, banned, dnsResolved, refill, refused, faults>>

BanEnds(a) ==
    /\ a \in banned /\ banned' = banned \ {a}
    /\ UNCHANGED <<configuredNodes, peers, nextPeerId, dialing, book, seedAddresses, selfAddresses, dnsResolved, refill,
                   refused, faults>>

-----------------------------------------------------------------------------
(* The specification *)

Next ==
    \/ \E t \in Tasks : RefillOutbound(t) \/ RefillStep(t)
    \/ \E a \in Addrs :
          \/ DialFails(a) \/ DialConnects(a) \/ DialRefused(a) \/ AcceptInbound(a)
          \/ LearnAddress(a) \/ CooldownEnds(a) \/ BanEnds(a)
    \/ \E i \in DOMAIN peers :
          PeerDidHandshake(i) \/ PeerIsSelf(i) \/ BanPeer(i) \/ ConnectionEnds(i)
    \/ DnsCooldownEnds \/ CleanupFailures

Spec == Init /\ [][Next]_vars

\* For the peers of a good node the handshake takes place; a connection that is stuck or
\* closed ends.
Handshakes(i) == i \in DOMAIN peers /\ peers[i].addr \in Reliable /\ PeerDidHandshake(i)
Detected(i) == i \in DOMAIN peers /\ PeerIsSelf(i)
Ends(i) == i \in DOMAIN peers /\ Stuck(i) /\ ~Steady(i) /\ ConnectionEnds(i)

Fairness ==
    /\ WF_vars(RefillOutbound(Timer)) /\ \A t \in Tasks : WF_vars(RefillStep(t))
    /\ \A a \in Addrs : /\ WF_vars(DialConnects(a) \/ (a \notin Reliable /\ DialFails(a)) \/ DialRefused(a))
                        /\ WF_vars(CooldownEnds(a))
    /\ \A i \in 1..MaxId : WF_vars(Handshakes(i)) /\ WF_vars(Detected(i)) /\ WF_vars(Ends(i))
    /\ WF_vars(DnsCooldownEnds)

FairSpec == Spec /\ Fairness

-----------------------------------------------------------------------------
(* Properties *)

PeerRecords == [dialed : Addrs, addr : Addrs, outbound : BOOLEAN, handshaked : BOOLEAN, closing : BOOLEAN]

TypeOK ==
    /\ configuredNodes \subseteq Addrs
    /\ DOMAIN peers \subseteq Nat /\ \A i \in DOMAIN peers : peers[i] \in PeerRecords
    /\ nextPeerId \in Nat
    /\ dialing \in [Addrs -> Nat]
    /\ dialedAddresses \subseteq Addrs /\ cooling \subseteq Addrs /\ addressPool \subseteq Addrs
    /\ failedAddresses \in [Addrs -> 0..(MaxFailCount - 1)]
    /\ seedAddresses \subseteq Addrs /\ selfAddresses \subseteq Addrs
    /\ banned \subseteq Addrs /\ refused \subseteq Addrs /\ dnsResolved \in BOOLEAN
    /\ refill \in [Tasks -> [at : {"idle", "nodes", "seeds", "resolve", "pool"},
                             todo : SUBSET Addrs, dial : Addrs \cup {None}]]
    /\ faults \in Nat

\* registerPeer never gives a peer the id of another one, although ids start again at 1
\* when the last peer has gone (peerDidDisconnect).
IdsFresh == \A i \in DOMAIN peers : i < nextPeerId

\* A numeric address that refillOutbound skips because it is in dialedAddresses has a dial
\* or a connection that will take it out again, unless a ban has ended its dial.  A name has
\* not: the end of its connection takes out another string.
DialedAccounted ==
    \A a \in dialedAddresses \cap Numeric :
        dialing[a] > 0 \/ DialedTo(a) # {} \/ a \in refused

\* The addresses of this node under which peerIsSelf records it, whatever port it was found on.
KnownAsSelf == {AtDefaultPort[a] : a \in Selves}

\* Without inbound peers to take the slots, a node has a peer again and again as long as
\* DNS names a node that can be reached and that was not banned in the middle of a dial.
\* Connections to itself that the node does not recognise must come to an end, too: one of
\* them may be there whenever outbound peers are counted, and then DNS is not asked.
NeverAlone ==
    <>[](Inbound = {} /\ \A i \in Outbound : peers[i].dialed \notin Selves \ KnownAsSelf) =>
        []<>((\E i \in DOMAIN peers : peers[i].handshaked) \/ Reliable \cap refused # {})

\* A node stops connecting to itself at the addresses it is known by; at the others it never
\* stops.
SelfGivenUp == <>[](\A i \in Outbound : peers[i].dialed \notin KnownAsSelf)

\* An outbound peer that was handshaked has not failed when it disconnects
\* (PeerManager.swift: "Apply backoff to outbound peers that failed before handshake").
FailuresBeforeHandshake ==
    [][\A a \in Addrs : a \in cooling' \ cooling =>
          ~\E i \in ConnectedTo(a) : i \notin DOMAIN peers' /\ peers[i].handshaked]_vars
=============================================================================
