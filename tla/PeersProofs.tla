------------------------------ MODULE PeersProofs ------------------------------
(***************************************************************************)
(* The safety properties of Peers for any number of addresses, tasks and   *)
(* connections.  They are proved together: that an id is fresh is what     *)
(* keeps the other connections in place when one is registered, and that a *)
(* connection has an address of the host that was dialed is what takes a   *)
(* numeric address out of dialedAddresses again.                           *)
(***************************************************************************)
EXTENDS Peers, TLAPS

\* parseIP resolves the host that was dialed.
AddressesResolved == \A i \in Outbound : peers[i].addr \in Resolved[peers[i].dialed]

IInv == TypeOK /\ IdsFresh /\ AddressesResolved /\ DialedAccounted

-----------------------------------------------------------------------------
(* A task that moves on in refillOutbound, and the clocks *)

\* The values that a step of a task leaves behind are places in refillOutbound.
Places == {"idle", "nodes", "seeds", "resolve", "pool"}

LEMMA GoToType ==
    ASSUME TypeOK, NEW t \in Tasks, NEW at \in Places, NEW todo \in SUBSET Addrs,
           NEW dial \in Addrs \cup {None}, GoTo(t, at, todo, dial)
    PROVE  refill' \in [Tasks -> [at : Places, todo : SUBSET Addrs, dial : Addrs \cup {None}]]
  BY SMT DEF TypeOK, GoTo, Places

\* A step that leaves connections, dials and dialedAddresses alone keeps what they are to
\* each other.
LEMMA BookUnchanged ==
    ASSUME IInv, UNCHANGED <<peers, nextPeerId, dialing, dialedAddresses>>,
           refused \subseteq refused'
    PROVE  IdsFresh' /\ AddressesResolved' /\ DialedAccounted'
  BY DEF IInv, IdsFresh, AddressesResolved, DialedAccounted, DialedTo, Outbound

\* Where a task is in refillOutbound, what is left in seedAddresses and whether DNS was
\* asked are nothing to the connections.
LEMMA GoToKeeps ==
    ASSUME IInv, NEW t \in Tasks, NEW at \in Places, NEW todo \in SUBSET Addrs,
           NEW dial \in Addrs \cup {None}, GoTo(t, at, todo, dial),
           seedAddresses' \subseteq Addrs, dnsResolved' \in BOOLEAN
    PROVE  IInv'
  <1>1. IdsFresh' /\ AddressesResolved' /\ DialedAccounted'
    BY BookUnchanged DEF GoTo, book
  <1>2. TypeOK'
    BY GoToType DEF IInv, TypeOK, GoTo, book, Places
  <1> QED BY <1>1, <1>2 DEF IInv

LEMMA RefillOutboundKeeps ==
    ASSUME PeersAssumption, IInv, NEW t \in Tasks, RefillOutbound(t)
    PROVE  IInv'
  BY GoToKeeps DEF RefillOutbound, Stay, IInv, TypeOK, PeersAssumption, Places

LEMMA NextNodeKeeps ==
    ASSUME IInv, NEW t \in Tasks, NextNode(t)
    PROVE  IInv'
  <1>1. refill[t].todo \subseteq Addrs
    BY DEF IInv, TypeOK
  <1>2. PICK a \in refill[t].todo :
            GoTo(t, "nodes", refill[t].todo \ {a}, IF Dialable(a) THEN a ELSE None)
    BY DEF NextNode
  <1>3. seedAddresses' \subseteq Addrs /\ dnsResolved' \in BOOLEAN
    BY DEF NextNode, Stay, IInv, TypeOK
  <1> QED BY <1>1, <1>2, <1>3, GoToKeeps DEF Places

LEMMA NodesDoneKeeps ==
    ASSUME IInv, NEW t \in Tasks, NodesDone(t)
    PROVE  IInv'
  <1>1. PICK at \in Places : GoTo(t, at, {}, None)
    BY DEF NodesDone, Places
  <1>2. seedAddresses' \subseteq Addrs /\ dnsResolved' \in BOOLEAN
    BY DEF NodesDone, Stay, IInv, TypeOK
  <1> QED BY <1>1, <1>2, GoToKeeps

LEMMA NextSeedKeeps ==
    ASSUME IInv, NEW t \in Tasks, NextSeed(t)
    PROVE  IInv'
  <1>1. seedAddresses \subseteq Addrs /\ dnsResolved' \in BOOLEAN
    BY DEF NextSeed, IInv, TypeOK
  <1>2. CASE ~HasOutboundSlot \/ seedAddresses = {}
    BY <1>1, <1>2, GoToKeeps DEF NextSeed, Places
  <1>3. CASE ~(~HasOutboundSlot \/ seedAddresses = {})
    <2>1. PICK a \in seedAddresses :
              /\ seedAddresses' = seedAddresses \ {a}
              /\ GoTo(t, "seeds", {}, IF DialableNow(a) THEN a ELSE None)
      BY <1>3 DEF NextSeed
    <2> QED BY <1>1, <2>1, GoToKeeps DEF Places
  <1> QED BY <1>2, <1>3

LEMMA ResolveSeedsKeeps ==
    ASSUME PeersAssumption, IInv, NEW t \in Tasks, ResolveSeeds(t)
    PROVE  IInv'
  <1>1. seedAddresses' \subseteq Addrs /\ dnsResolved' \in BOOLEAN
    BY DEF ResolveSeeds, Stay, IInv, TypeOK, PeersAssumption
  <1>2. configuredNodes \subseteq Addrs
    BY DEF IInv, TypeOK
  <1>3. PICK at \in Places, todo \in {{}, configuredNodes} : GoTo(t, at, todo, None)
    BY DEF ResolveSeeds, Places
  <1> QED BY <1>1, <1>2, <1>3, GoToKeeps

LEMMA ConnectFromPoolKeeps ==
    ASSUME IInv, NEW t \in Tasks, ConnectFromPool(t)
    PROVE  IInv'
  <1>1. addressPool \subseteq Addrs /\ seedAddresses' \subseteq Addrs /\ dnsResolved' \in BOOLEAN
    BY DEF ConnectFromPool, Stay, IInv, TypeOK
  <1>2. PICK a \in Addrs \cup {None} : GoTo(t, "idle", {}, a)
    BY <1>1 DEF ConnectFromPool
  <1> QED BY <1>1, <1>2, GoToKeeps DEF Places

-----------------------------------------------------------------------------
(* Dials and connections *)

LEMMA FailedType ==
    ASSUME PeersAssumption, TypeOK, NEW a \in Addrs, Failed(a)
    PROVE  /\ failedAddresses' \in [Addrs -> 0..(MaxFailCount - 1)]
           /\ cooling' \subseteq Addrs /\ addressPool' \subseteq Addrs
  BY DEF Failed, TypeOK, PeersAssumption

LEMMA DialKeeps ==
    ASSUME PeersAssumption, IInv, NEW t \in Tasks, Dial(t)
    PROVE  IInv'
  <1> DEFINE a == refill[t].dial
  <1>1. a \in Addrs
    BY DEF IInv, TypeOK, Dial, PeersAssumption
  <1>2. refill' \in [Tasks -> [at : Places, todo : SUBSET Addrs, dial : Addrs \cup {None}]]
    BY DEF IInv, TypeOK, Dial, Places
  <1>3. dialing' \in [Addrs -> Nat] /\ dialing'[a] > 0
        /\ \A b \in Addrs : b # a => dialing'[b] = dialing[b]
    BY <1>1 DEF IInv, TypeOK, Dial
  <1>4. TypeOK'
    BY <1>1, <1>2, <1>3 DEF IInv, TypeOK, Dial, Places
  <1>5. IdsFresh' /\ AddressesResolved'
    BY DEF IInv, IdsFresh, AddressesResolved, Outbound, Dial
  <1>6. ASSUME NEW b \in dialedAddresses' \cap Numeric
        PROVE  dialing'[b] > 0 \/ DialedTo(b)' # {} \/ b \in refused'
    <2>1. CASE b = a
      BY <2>1, <1>3
    <2>2. CASE b # a
      <3>1. b \in dialedAddresses /\ b \in Addrs /\ dialing'[b] = dialing[b]
        BY <2>2, <1>3 DEF Dial, IInv, TypeOK
      <3>2. DialedTo(b)' = DialedTo(b) /\ refused' = refused
        BY DEF Dial, DialedTo, Outbound
      <3> QED BY <3>1, <3>2 DEF IInv, DialedAccounted
    <2> QED BY <2>1, <2>2
  <1> QED BY <1>4, <1>5, <1>6 DEF IInv, DialedAccounted

\* The other connections keep their place when one is registered.
LEMMA RegisteredKeeps ==
    ASSUME IInv, NEW a \in Addrs, NEW k \in Addrs, NEW outbound \in BOOLEAN,
           outbound => k \in Resolved[a], Registered(a, k, outbound)
    PROVE  /\ DOMAIN peers' \subseteq Nat /\ \A i \in DOMAIN peers' : peers'[i] \in PeerRecords
           /\ nextPeerId' \in Nat /\ IdsFresh' /\ AddressesResolved'
           /\ \A b \in Addrs : DialedTo(b) \subseteq DialedTo(b)'
           /\ outbound => DialedTo(a)' # {}
  <1>1. DOMAIN peers' = DOMAIN peers \cup {nextPeerId} /\ nextPeerId' = nextPeerId + 1
    BY DEF Registered
  <1>2. nextPeerId \in Nat /\ nextPeerId \notin DOMAIN peers
    BY DEF IInv, TypeOK, IdsFresh
  <1>3. \A i \in DOMAIN peers : peers'[i] = peers[i]
    BY <1>2 DEF Registered
  <1>4. peers'[nextPeerId] = [dialed |-> a, addr |-> k, outbound |-> outbound,
                              handshaked |-> FALSE, closing |-> FALSE]
    BY DEF Registered
  <1>5. DOMAIN peers' \subseteq Nat /\ nextPeerId' \in Nat /\ IdsFresh'
    BY <1>1, <1>2 DEF IInv, TypeOK, IdsFresh
  <1>6. \A i \in DOMAIN peers' : peers'[i] \in PeerRecords
    <2>1. peers'[nextPeerId] \in PeerRecords
      BY <1>4 DEF PeerRecords
    <2>2. \A i \in DOMAIN peers : peers'[i] \in PeerRecords
      BY <1>3 DEF IInv, TypeOK
    <2> QED BY <1>1, <2>1, <2>2
  <1>7. \A b \in Addrs : DialedTo(b) \subseteq DialedTo(b)'
    BY <1>1, <1>3 DEF DialedTo, Outbound
  <1>8. ASSUME outbound PROVE nextPeerId \in DialedTo(a)'
    BY <1>1, <1>4, <1>8 DEF DialedTo, Outbound
  <1>9. AddressesResolved'
    BY <1>1, <1>3, <1>4 DEF IInv, AddressesResolved, Outbound
  <1> QED BY <1>5, <1>6, <1>7, <1>8, <1>9

\* A dial of another address ends, or one of this address with what excuses it.
LEMMA DialEnds ==
    ASSUME IInv, NEW a \in Addrs, dialing[a] > 0, dialing' = [dialing EXCEPT ![a] = @ - 1]
    PROVE  dialing' \in [Addrs -> Nat] /\ \A b \in Addrs : b # a => dialing'[b] = dialing[b]
  BY DEF IInv, TypeOK

LEMMA DialFailsKeeps ==
    ASSUME PeersAssumption, IInv, NEW a \in Addrs, DialFails(a)
    PROVE  IInv'
  <1>1. dialing' \in [Addrs -> Nat] /\ \A b \in Addrs : b # a => dialing'[b] = dialing[b]
    BY DialEnds DEF DialFails
  <1>2. TypeOK'
    <2>1. /\ failedAddresses' \in [Addrs -> 0..(MaxFailCount - 1)]
          /\ cooling' \subseteq Addrs /\ addressPool' \subseteq Addrs
      BY FailedType DEF DialFails, IInv
    <2>2. dialedAddresses' \subseteq Addrs /\ faults' \in Nat
      BY DEF DialFails, Fault, IInv, TypeOK
    <2> QED BY <1>1, <2>1, <2>2 DEF DialFails, IInv, TypeOK
  <1>3. IdsFresh' /\ AddressesResolved'
    BY DEF IInv, IdsFresh, AddressesResolved, Outbound, DialFails
  <1>4. ASSUME NEW b \in dialedAddresses' \cap Numeric
        PROVE  dialing'[b] > 0 \/ DialedTo(b)' # {} \/ b \in refused'
    <2>1. b \in dialedAddresses /\ b \in Addrs /\ b # a
      BY DEF DialFails, IInv, TypeOK
    <2>2. DialedTo(b)' = DialedTo(b) /\ refused' = refused
      BY DEF DialFails, DialedTo, Outbound
    <2> QED BY <1>1, <2>1, <2>2 DEF IInv, DialedAccounted
  <1> QED BY <1>2, <1>3, <1>4 DEF IInv, DialedAccounted

LEMMA DialConnectsKeeps ==
    ASSUME PeersAssumption, IInv, NEW a \in Addrs, DialConnects(a)
    PROVE  IInv'
  <1>1. dialing' \in [Addrs -> Nat] /\ \A b \in Addrs : b # a => dialing'[b] = dialing[b]
    BY DialEnds DEF DialConnects
  <1>2. PICK k \in Resolved[a] : Registered(a, k, TRUE)
    BY DEF DialConnects
  <1> k \in Addrs
    BY DEF PeersAssumption
  <1>3. /\ DOMAIN peers' \subseteq Nat /\ \A i \in DOMAIN peers' : peers'[i] \in PeerRecords
        /\ nextPeerId' \in Nat /\ IdsFresh' /\ AddressesResolved'
        /\ \A b \in Addrs : DialedTo(b) \subseteq DialedTo(b)'
        /\ DialedTo(a)' # {}
    BY <1>2, RegisteredKeeps
  <1>4. TypeOK'
    BY <1>1, <1>3 DEF DialConnects, IInv, TypeOK, book, PeerRecords
  <1>5. ASSUME NEW b \in dialedAddresses' \cap Numeric
        PROVE  dialing'[b] > 0 \/ DialedTo(b)' # {} \/ b \in refused'
    <2>1. b \in dialedAddresses /\ b \in Addrs /\ refused' = refused
      BY DEF DialConnects, book, IInv, TypeOK
    <2>2. CASE b = a
      BY <2>2, <1>3
    <2>3. CASE b # a
      BY <2>1, <2>3, <1>1, <1>3 DEF IInv, DialedAccounted
    <2> QED BY <2>2, <2>3
  <1> QED BY <1>3, <1>4, <1>5 DEF IInv, DialedAccounted

LEMMA DialRefusedKeeps ==
    ASSUME IInv, NEW a \in Addrs, DialRefused(a)
    PROVE  IInv'
  <1>1. dialing' \in [Addrs -> Nat] /\ \A b \in Addrs : b # a => dialing'[b] = dialing[b]
    BY DialEnds DEF DialRefused
  <1>2. TypeOK'
    BY <1>1 DEF DialRefused, IInv, TypeOK, book
  <1>3. IdsFresh' /\ AddressesResolved'
    BY DEF IInv, IdsFresh, AddressesResolved, Outbound, DialRefused
  <1>4. ASSUME NEW b \in dialedAddresses' \cap Numeric
        PROVE  dialing'[b] > 0 \/ DialedTo(b)' # {} \/ b \in refused'
    <2>1. b \in dialedAddresses /\ b \in Addrs /\ refused' = refused \cup {a}
      BY DEF DialRefused, book, IInv, TypeOK
    <2>2. DialedTo(b)' = DialedTo(b)
      BY DEF DialRefused, DialedTo, Outbound
    <2> QED BY <1>1, <2>1, <2>2 DEF IInv, DialedAccounted
  <1> QED BY <1>2, <1>3, <1>4 DEF IInv, DialedAccounted

LEMMA AcceptInboundKeeps ==
    ASSUME IInv, NEW a \in Addrs, AcceptInbound(a)
    PROVE  IInv'
  <1>1. Registered(a, a, FALSE)
    BY DEF AcceptInbound
  <1>2. /\ DOMAIN peers' \subseteq Nat /\ \A i \in DOMAIN peers' : peers'[i] \in PeerRecords
        /\ nextPeerId' \in Nat /\ IdsFresh' /\ AddressesResolved'
        /\ \A b \in Addrs : DialedTo(b) \subseteq DialedTo(b)'
    BY <1>1, RegisteredKeeps
  <1>3. TypeOK'
    BY <1>2 DEF AcceptInbound, IInv, TypeOK, book, PeerRecords
  <1>4. ASSUME NEW b \in dialedAddresses' \cap Numeric
        PROVE  dialing'[b] > 0 \/ DialedTo(b)' # {} \/ b \in refused'
    <2>1. b \in dialedAddresses /\ b \in Addrs /\ refused' = refused /\ dialing' = dialing
      BY DEF AcceptInbound, book, IInv, TypeOK
    <2> QED BY <2>1, <1>2 DEF IInv, DialedAccounted
  <1> QED BY <1>2, <1>3, <1>4 DEF IInv, DialedAccounted

\* Only flags of one connection change.
LEMMA FlagKeeps ==
    ASSUME IInv, NEW i \in DOMAIN peers, NEW r \in PeerRecords,
           r.dialed = peers[i].dialed, r.addr = peers[i].addr, r.outbound = peers[i].outbound,
           peers' = [peers EXCEPT ![i] = r],
           UNCHANGED <<nextPeerId, dialing, dialedAddresses, refused>>
    PROVE  /\ DOMAIN peers' \subseteq Nat /\ \A j \in DOMAIN peers' : peers'[j] \in PeerRecords
           /\ IdsFresh' /\ AddressesResolved' /\ DialedAccounted'
  <1>1. DOMAIN peers' = DOMAIN peers
        /\ \A j \in DOMAIN peers : /\ peers'[j].dialed = peers[j].dialed
                                   /\ peers'[j].addr = peers[j].addr
                                   /\ peers'[j].outbound = peers[j].outbound
    OBVIOUS
  <1>2. DOMAIN peers' \subseteq Nat /\ \A j \in DOMAIN peers' : peers'[j] \in PeerRecords
    BY DEF IInv, TypeOK
  <1>3. IdsFresh'
    BY <1>1 DEF IInv, IdsFresh
  <1>4. \A b : DialedTo(b)' = DialedTo(b)
    BY <1>1 DEF DialedTo, Outbound
  <1>5. DialedAccounted'
    BY <1>4 DEF IInv, DialedAccounted
  <1>6. AddressesResolved'
    BY <1>1 DEF IInv, AddressesResolved, Outbound
  <1> QED BY <1>2, <1>3, <1>5, <1>6

LEMMA HandshakeKeeps ==
    ASSUME PeersAssumption, IInv, NEW i \in DOMAIN peers, PeerDidHandshake(i)
    PROVE  IInv'
  <1> DEFINE r == [peers[i] EXCEPT !.handshaked = TRUE]
  <1>1. peers[i] \in PeerRecords /\ peers[i].addr \in Addrs
    BY DEF IInv, TypeOK, PeerRecords
  <1>2. r \in PeerRecords /\ r.dialed = peers[i].dialed /\ r.addr = peers[i].addr
        /\ r.outbound = peers[i].outbound
    BY <1>1 DEF PeerRecords
  <1>3. peers' = [peers EXCEPT ![i] = r]
    BY DEF PeerDidHandshake
  <1>4. UNCHANGED <<nextPeerId, dialing, dialedAddresses, refused>>
    BY DEF PeerDidHandshake
  <1> HIDE DEF r
  <1>5. /\ DOMAIN peers' \subseteq Nat /\ \A j \in DOMAIN peers' : peers'[j] \in PeerRecords
        /\ IdsFresh' /\ AddressesResolved' /\ DialedAccounted'
    BY <1>2, <1>3, <1>4, FlagKeeps
  <1>6. /\ failedAddresses' \in [Addrs -> 0..(MaxFailCount - 1)]
        /\ cooling' \subseteq Addrs /\ addressPool' \subseteq Addrs
    BY <1>1 DEF PeerDidHandshake, IInv, TypeOK, PeersAssumption
  <1>7. TypeOK'
    BY <1>5, <1>6 DEF PeerDidHandshake, IInv, TypeOK, PeerRecords
  <1> QED BY <1>5, <1>7 DEF IInv

LEMMA IsSelfKeeps ==
    ASSUME PeersAssumption, IInv, NEW i \in DOMAIN peers, PeerIsSelf(i)
    PROVE  IInv'
  <1> DEFINE r == [peers[i] EXCEPT !.closing = TRUE]
  <1>1. /\ peers[i] \in PeerRecords /\ peers[i].addr \in Addrs
        /\ AtDefaultPort[peers[i].addr] \in Addrs
    BY DEF IInv, TypeOK, PeerRecords, PeersAssumption
  <1>2. r \in PeerRecords /\ r.dialed = peers[i].dialed /\ r.addr = peers[i].addr
        /\ r.outbound = peers[i].outbound
    BY <1>1 DEF PeerRecords
  <1>3. peers' = [peers EXCEPT ![i] = r] /\ UNCHANGED <<nextPeerId, dialing, dialedAddresses, refused>>
    BY DEF PeerIsSelf, book
  <1> HIDE DEF r
  <1>4. /\ DOMAIN peers' \subseteq Nat /\ \A j \in DOMAIN peers' : peers'[j] \in PeerRecords
        /\ IdsFresh' /\ AddressesResolved' /\ DialedAccounted'
    BY <1>2, <1>3, FlagKeeps
  <1>5. TypeOK'
    BY <1>1, <1>4 DEF PeerIsSelf, IInv, TypeOK, PeerRecords, book
  <1> QED BY <1>4, <1>5 DEF IInv

LEMMA BanPeerKeeps ==
    ASSUME PeersAssumption, IInv, NEW i \in DOMAIN peers, BanPeer(i)
    PROVE  IInv'
  <1> DEFINE r == [peers[i] EXCEPT !.closing = TRUE]
  <1>1. /\ peers[i] \in PeerRecords /\ peers[i].addr \in Addrs
        /\ AtDefaultPort[peers[i].addr] \in Addrs
    BY DEF IInv, TypeOK, PeerRecords, PeersAssumption
  <1>2. r \in PeerRecords /\ r.dialed = peers[i].dialed /\ r.addr = peers[i].addr
        /\ r.outbound = peers[i].outbound
    BY <1>1 DEF PeerRecords
  <1>3. peers' = [peers EXCEPT ![i] = r] /\ UNCHANGED <<nextPeerId, dialing, dialedAddresses, refused>>
    BY DEF BanPeer, book
  <1> HIDE DEF r
  <1>4. /\ DOMAIN peers' \subseteq Nat /\ \A j \in DOMAIN peers' : peers'[j] \in PeerRecords
        /\ IdsFresh' /\ AddressesResolved' /\ DialedAccounted'
    BY <1>2, <1>3, FlagKeeps
  <1>5. banned' \subseteq Addrs /\ faults' \in Nat
    BY <1>1 DEF BanPeer, Fault, IInv, TypeOK
  <1>6. UNCHANGED <<configuredNodes, book, seedAddresses, selfAddresses, dnsResolved, refill>>
    BY DEF BanPeer
  <1>7. TypeOK'
    BY <1>3, <1>4, <1>5, <1>6 DEF IInv, TypeOK, PeerRecords, book
  <1> QED BY <1>4, <1>7 DEF IInv

\* A connection that ends takes its address out of dialedAddresses; ids start again only
\* when nobody is left.
LEMMA DisconnectKeeps ==
    ASSUME PeersAssumption, IInv, NEW i \in DOMAIN peers, ConnectionEnds(i)
    PROVE  IInv'
  <1> DEFINE a == peers[i].addr
             left == DOMAIN peers \ {i}
  <1>1. a \in Addrs /\ DOMAIN peers \subseteq Nat
    BY DEF IInv, TypeOK, PeerRecords
  <1>2. peers' = [j \in left |-> peers[j]] /\ nextPeerId' = NextId(left)
    BY DEF ConnectionEnds, PeerDidDisconnect
  <1>3. DOMAIN peers' = left /\ \A j \in left : peers'[j] = peers[j]
    BY <1>2
  <1>4. IdsFresh'
    BY <1>2, <1>3 DEF IInv, IdsFresh, NextId
  <1>5. /\ failedAddresses' \in [Addrs -> 0..(MaxFailCount - 1)]
        /\ cooling' \subseteq Addrs /\ addressPool' \subseteq Addrs
        /\ dialedAddresses' \subseteq Addrs
    <2>1. CASE peers[i].outbound
      <3>1. Failed(a) /\ dialedAddresses' = dialedAddresses \ {a}
        BY <2>1 DEF ConnectionEnds, PeerDidDisconnect
      <3> QED BY <1>1, <3>1, FailedType DEF IInv, TypeOK
    <2>2. CASE ~peers[i].outbound
      BY <2>2 DEF ConnectionEnds, PeerDidDisconnect, book, IInv, TypeOK
    <2> QED BY <2>1, <2>2
  <1>6. nextPeerId' \in Nat
    BY <1>2 DEF NextId, IInv, TypeOK
  <1>7. \A j \in DOMAIN peers' : peers'[j] \in PeerRecords
    BY <1>3 DEF IInv, TypeOK
  <1>8. faults' \in Nat
    BY DEF ConnectionEnds, Fault, IInv, TypeOK
  <1>9. UNCHANGED <<configuredNodes, dialing, seedAddresses, selfAddresses, banned, dnsResolved, refill, refused>>
    BY DEF ConnectionEnds, PeerDidDisconnect
  <1>10. DOMAIN peers' \subseteq Nat
    BY <1>1, <1>3
  <1>11. TypeOK'
    BY <1>5, <1>6, <1>7, <1>8, <1>9, <1>10 DEF IInv, TypeOK, PeerRecords
  <1>12. ASSUME NEW b \in dialedAddresses' \cap Numeric
         PROVE  dialing'[b] > 0 \/ DialedTo(b)' # {} \/ b \in refused'
    <2>1. b \in dialedAddresses /\ Resolved[b] = {b} /\ (peers[i].outbound => b # a)
      BY DEF ConnectionEnds, PeerDidDisconnect, book, Numeric
    <2>2. i \notin DialedTo(b)
      BY <2>1 DEF DialedTo, Outbound, IInv, AddressesResolved
    <2>3. DialedTo(b)' = DialedTo(b)
      BY <2>2, <1>3 DEF DialedTo, Outbound
    <2> QED BY <2>1, <2>3, <1>9 DEF IInv, DialedAccounted
  <1>13. AddressesResolved'
    BY <1>3 DEF IInv, AddressesResolved, Outbound
  <1> QED BY <1>4, <1>11, <1>12, <1>13 DEF IInv, DialedAccounted

\* Addresses that are learned and clocks that run out leave the connections alone.
LEMMA TimeKeeps ==
    ASSUME PeersAssumption, IInv,
           \/ \E a \in Addrs : LearnAddress(a) \/ CooldownEnds(a) \/ BanEnds(a)
           \/ DnsCooldownEnds \/ CleanupFailures
    PROVE  IInv'
  <1>1. UNCHANGED <<peers, nextPeerId, dialing, dialedAddresses, refused>>
    BY DEF LearnAddress, CooldownEnds, BanEnds, DnsCooldownEnds, CleanupFailures, book
  <1>2. IdsFresh' /\ AddressesResolved' /\ DialedAccounted'
    BY <1>1, BookUnchanged
  <1>3. /\ failedAddresses' \in [Addrs -> 0..(MaxFailCount - 1)]
        /\ cooling' \subseteq Addrs /\ addressPool' \subseteq Addrs
    BY DEF LearnAddress, CooldownEnds, BanEnds, DnsCooldownEnds, CleanupFailures, book, IInv, TypeOK,
           PeersAssumption
  <1>4. /\ seedAddresses' \subseteq Addrs /\ selfAddresses' \subseteq Addrs
        /\ banned' \subseteq Addrs /\ dnsResolved' \in BOOLEAN
        /\ refill' = refill /\ faults' = faults /\ configuredNodes' = configuredNodes
    BY DEF LearnAddress, CooldownEnds, BanEnds, DnsCooldownEnds, CleanupFailures, IInv, TypeOK
  <1> QED BY <1>1, <1>2, <1>3, <1>4 DEF IInv, TypeOK, PeerRecords

-----------------------------------------------------------------------------
(* The theorems *)

LEMMA InitHolds ==
    ASSUME PeersAssumption, Init
    PROVE  IInv
  <1>1. DOMAIN peers = {}
    BY DEF Init
  <1>2. DOMAIN peers \subseteq Nat /\ \A i \in DOMAIN peers : peers[i] \in PeerRecords
    BY <1>1
  <1>3. /\ failedAddresses \in [Addrs -> 0..(MaxFailCount - 1)]
        /\ dialing \in [Addrs -> Nat] /\ nextPeerId \in Nat /\ faults \in Nat
    BY DEF Init, PeersAssumption
  <1>4. refill \in [Tasks -> [at : Places, todo : SUBSET Addrs, dial : Addrs \cup {None}]]
    BY DEF Init, Idle, Places
  <1>5. configuredNodes \subseteq Addrs
    <2>0. PICK list \in PeerLists : Configure(list)
      BY DEF Init
    <2>1. PICK known \in SUBSET list :
              configuredNodes = (list \ known) \cup UNION {Resolved[a] : a \in known}
      BY <2>0 DEF Configure
    <2>2. list \subseteq Addrs /\ \A a \in Addrs : Resolved[a] \subseteq Addrs
      BY DEF PeersAssumption
    <2> QED BY <2>1, <2>2
  <1>6. addressPool \subseteq Addrs
    BY DEF Init, PeersAssumption
  <1>7. TypeOK
    BY <1>2, <1>3, <1>4, <1>5, <1>6 DEF Init, TypeOK, Places
  <1>8. IdsFresh /\ AddressesResolved /\ DialedAccounted
    BY <1>1, <1>5 DEF Init, IdsFresh, AddressesResolved, Outbound, DialedAccounted
  <1> QED BY <1>7, <1>8 DEF IInv

LEMMA StepKeeps ==
    ASSUME PeersAssumption, IInv, [Next]_vars
    PROVE  IInv'
  <1>1. CASE UNCHANGED vars
    <2>1. UNCHANGED <<peers, nextPeerId, dialing, dialedAddresses, refused>>
      BY <1>1 DEF vars, book
    <2>2. IdsFresh' /\ AddressesResolved' /\ DialedAccounted'
      BY <2>1, BookUnchanged
    <2>3. TypeOK'
      BY <1>1 DEF vars, book, IInv, TypeOK, PeerRecords
    <2> QED BY <2>2, <2>3 DEF IInv
  <1>2. CASE \E t \in Tasks : RefillOutbound(t) \/ RefillStep(t)
    BY <1>2, RefillOutboundKeeps, NextNodeKeeps, NodesDoneKeeps, NextSeedKeeps, ResolveSeedsKeeps,
       ConnectFromPoolKeeps, DialKeeps DEF RefillStep
  <1>3. CASE \E a \in Addrs : DialFails(a) \/ DialConnects(a) \/ DialRefused(a) \/ AcceptInbound(a)
    BY <1>3, DialFailsKeeps, DialConnectsKeeps, DialRefusedKeeps, AcceptInboundKeeps
  <1>4. CASE \E i \in DOMAIN peers :
                PeerDidHandshake(i) \/ PeerIsSelf(i) \/ BanPeer(i) \/ ConnectionEnds(i)
    BY <1>4, HandshakeKeeps, IsSelfKeeps, BanPeerKeeps, DisconnectKeeps
  <1>5. CASE \/ \E a \in Addrs : LearnAddress(a) \/ CooldownEnds(a) \/ BanEnds(a)
             \/ DnsCooldownEnds \/ CleanupFailures
    BY <1>5, TimeKeeps
  <1> QED BY <1>1, <1>2, <1>3, <1>4, <1>5 DEF Next

THEOREM Inductive == Spec => []IInv
  <1>1. PeersAssumption
    BY PeersAssumption
  <1>2. Init => IInv
    BY <1>1, InitHolds
  <1>3. IInv /\ [Next]_vars => IInv'
    BY <1>1, StepKeeps
  <1> QED BY <1>2, <1>3, PTL DEF Spec

\* The books of PeerManager keep their types: a failure count stays below MaxFailCount.
THEOREM Typed == Spec => []TypeOK
  <1>1. IInv => TypeOK
    BY DEF IInv
  <1> QED BY <1>1, Inductive, PTL

\* registerPeer gives no peer the id of another one.
THEOREM FreshIds == Spec => []IdsFresh
  <1>1. IInv => IdsFresh
    BY DEF IInv
  <1> QED BY <1>1, Inductive, PTL

\* However many tasks refill and race, a numeric address stays in dialedAddresses only with a
\* dial, a connection or a refused dial behind it.
THEOREM NoAddressIsForgotten == Spec => []DialedAccounted
  <1>1. IInv => DialedAccounted
    BY DEF IInv
  <1> QED BY <1>1, Inductive, PTL
=============================================================================
