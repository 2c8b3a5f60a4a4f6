----------------------------- MODULE ChainSync ------------------------------
(***************************************************************************)
(* Block download: the state machine of ChainSync.swift, the parts of      *)
(* PeerManager.swift and Chain.swift it calls, and the peers it talks to.  *)
(*                                                                         *)
(* Every handler runs from beginning to end under the lock of ChainSync,   *)
(* so a handler is one action.  What interleaves are the handlers: answers *)
(* that come late or never, announcements in the middle of a download,     *)
(* timers, and peers that go and come back.  A handler is written as an    *)
(* operator from the record of the node to the set of records it may leave *)
(* behind: more than one where the code takes the first of a dictionary.   *)
(*                                                                         *)
(* The chain is seen as ChainSync sees it: the headers it knows, the tip,  *)
(* and how many blocks of the best chain are stored.  Module Chain has the *)
(* stores below it.                                                        *)
(***************************************************************************)
EXTENDS Integers, FiniteSets, SequencesExt

CONSTANTS
    Blocks, Genesis,
    Path,         \* Path[b]: genesis..b along prevBlock
    Work,         \* chainwork
    BadHeaders,   \* blocks whose header fails its checks
    Unproved,     \* blocks whose header comes without its BalloonProof
    Invalid,      \* blocks with a good header and a body that is rejected
    Spending,     \* blocks whose body cannot be connected twice: it spends coins
    Peers, None,
    Tips,         \* Tips[p]: the blocks that are, one after the other, the tip of peer p
    MaxHeaders,   \* headers in one message
    Window,       \* blockWindowSize
    Compact,      \* TRUE: peers push compact blocks, although sendcmpct asks them not to
    MaxFaults     \* bound on lost links, pushed compact blocks and timers that fire early

ASSUME TreeAssumption ==
    /\ Genesis \in Blocks
    /\ Path \in [Blocks -> Seq(Blocks)]
    /\ Path[Genesis] = <<Genesis>>
    /\ \A b \in Blocks : /\ Path[b] # << >> /\ Path[b][1] = Genesis /\ Path[b][Len(Path[b])] = b
                         /\ \A n \in 1..Len(Path[b]) : Path[Path[b][n]] = SubSeq(Path[b], 1, n)
    /\ Work \in [Blocks -> Nat]
    /\ \A b \in Blocks : \A n \in 1..(Len(Path[b]) - 1) : Work[Path[b][n]] < Work[b]

ASSUME PeersAssumption ==
    /\ None \notin Peers
    /\ Tips \in [Peers -> SUBSET Blocks] /\ \A p \in Peers : Tips[p] # {}
    /\ MaxHeaders \in Nat \ {0} /\ Window \in Nat \ {0}
    /\ Compact \in BOOLEAN /\ MaxFaults \in Nat

VARIABLES
    node,      \* what ChainSync, its Chain and its PeerContexts hold
    peerTip,   \* peerTip[p]: the highest block that peer p has stored
    told,      \* the peers that have announced this block
    faults

vars == <<node, peerTip, told, faults>>

-----------------------------------------------------------------------------
(* The chain *)

Height(b) == Len(Path[b]) - 1
Parent(b) == Path[b][Len(Path[b]) - 1]
TipHeight(n) == Height(n.tip)

\* getEntryByHeight
OnBestChain(n, b) == b \in n.known /\ Height(b) <= TipHeight(n) /\ Path[n.tip][Height(b) + 1] = b

Common(p, q) == Max({i \in 1..Len(p) : i <= Len(q) /\ p[i] = q[i]})
ForkHeight(n, b) == Common(Path[b], Path[n.tip]) - 1

\* What Chain.add reports of a header.  It throws for a branch with more work that leaves
\* the best chain above the stored blocks: there is nothing to roll back to.
Verdict(n, b) ==
    IF b = Genesis \/ Parent(b) \notin n.known THEN "orphan"
    ELSE IF b \in n.known THEN "duplicate"
    ELSE IF b \in BadHeaders THEN "invalid"
    ELSE IF Work[b] > Work[n.tip] /\ Parent(b) # n.tip /\ ForkHeight(n, b) > n.stored THEN "failed"
    ELSE "added"

\* Chain.add: the header is indexed, and is the tip if it has more work.
Add(n, b) ==
    LET v == Verdict(n, b)
    IN  IF v \notin {"added", "failed"} THEN n
        ELSE IF v = "failed" \/ Work[b] <= Work[n.tip] THEN [n EXCEPT !.known = @ \cup {b}]
        ELSE [n EXCEPT !.known = @ \cup {b}, !.tip = b, !.stored = Min({@, ForkHeight(n, b)})]

\* resetToStoredHeight
Reset(n) ==
    [n EXCEPT !.tip = Path[@][n.stored + 1], !.known = {b \in @ : Height(b) <= n.stored}]

\* Chain.connectBlock does not throw.  A block that is stored already is
\* processed again.
Connectable(n, b) ==
    /\ OnBestChain(n, b) /\ b \notin Invalid
    /\ \/ Height(b) = n.stored + 1
       \/ Height(b) <= n.stored /\ b \notin Spending

Connected(n, b) == [n EXCEPT !.stored = Max({@, Height(b)})]

-----------------------------------------------------------------------------
(* Peers *)

Handshaked(n) == {p \in Peers : n.up[p] # "off"}
Ahead(n, p) == n.height[p] > TipHeight(n)

\* A message to a connection that is being closed is dropped.
Ask(n, p, requests) ==
    IF n.up[p] = "up" THEN [n EXCEPT !.asked[p] = @ \cup requests] ELSE n

Close(n, p) == IF n.up[p] = "up" THEN [n EXCEPT !.up[p] = "closing"] ELSE n

\* syncBanPeer
Ban(n, p) == [Close(n, p) EXCEPT !.banned = @ \cup {p}]

\* peer.state.height follows the blocks the peer has shown.
Heard(n, p, b) == [n EXCEPT !.height[p] = Max({@, Height(b)})]

\* getLocator: the whole best chain, as long as it is short.
HeadersAfter(n) == {[type |-> "headers", block |-> n.tip]}
BlockRequests(bs) == {[type |-> "block", block |-> b] : b \in bs}

RequestHeaders(n, p) == Ask([n EXCEPT !.lastHeaderRequest = TRUE], p, HeadersAfter(n))

RequestHeadersFromAllPeers(n) ==
    [n EXCEPT !.asked = [p \in Peers |->
        IF n.up[p] = "up" THEN @[p] \cup HeadersAfter(n) ELSE @[p]]]

StartSync(n, p) ==
    RequestHeaders([n EXCEPT !.state = "syncingHeaders", !.syncPeerId = p, !.orphanRetries = 0], p)

\* A handler goes on from each record it may have left so far.
Then(ns, Rest(_)) == UNION {Rest(n) : n \in ns}

\* A peer out of the set starts to serve headers; if there is none, otherwise.
SyncWith(n, ps, otherwise) == IF ps # {} THEN {StartSync(n, p) : p \in ps} ELSE otherwise

\* What is in flight or buffered is not counted.
FaultyRequestBlocks(n, p) ==
    LET new == {b \in n.known : /\ OnBestChain(n, b)
                                /\ Height(b) >= n.nextBlockHeight
                                /\ Height(b) < n.nextBlockHeight + Window}
    IN  Ask([n EXCEPT !.pendingBlocks = @ \cup new,
                      !.nextBlockHeight = @ + Cardinality(new)], p, BlockRequests(new))

\* The next blocks of the best chain, as many as the window has room for.
RequestBlocks(n, p) ==
    LET room == Window - Cardinality(n.pendingBlocks) - Cardinality(n.blockBuffer)
        new == {b \in n.known : /\ OnBestChain(n, b)
                                /\ Height(b) >= n.nextBlockHeight
                                /\ Height(b) < n.nextBlockHeight + room}
    IN  Ask([n EXCEPT !.pendingBlocks = @ \cup new,
                      !.nextBlockHeight = @ + Cardinality(new)], p, BlockRequests(new))

\* Stop downloading, with nothing requested and nothing buffered.
GiveUp(n, state) ==
    [n EXCEPT !.state = state, !.syncPeerId = None, !.pendingBlocks = {}, !.blockBuffer = {},
              !.compacted = FALSE]

RecoverOrphanedHeaders(n) ==
    IF n.state = "idle" /\ n.stored < TipHeight(n)
    THEN Then({Reset(n)}, LAMBDA m : SyncWith(m, Handshaked(m), {m}))
    ELSE {n}

\* Another peer that is ahead, or the headers above the stored blocks go.
SyncElsewhere(n, p) ==
    SyncWith(n, {q \in Handshaked(n) \ {p} : Ahead(n, q)}, RecoverOrphanedHeaders(n))

\* "Going to .idle would silently drop incoming headers."
SyncedIfIdle(ns) == {IF n.state = "idle" THEN [n EXCEPT !.state = "synced"] ELSE n : n \in ns}

\* The height to request next is that of the last download.
FaultyFinishHeaderSync(n, p) ==
    IF n.stored < TipHeight(n)
    THEN RequestBlocks([n EXCEPT !.state = "syncingBlocks", !.nextBlockHeight = Max({1, @}),
                                 !.nextConnectHeight = n.stored + 1], p)
    ELSE RequestHeadersFromAllPeers([n EXCEPT !.state = "synced", !.syncPeerId = None])

FinishHeaderSync(n, p) ==
    IF n.stored < TipHeight(n)
    THEN RequestBlocks([n EXCEPT !.state = "syncingBlocks", !.nextBlockHeight = n.stored + 1,
                                 !.nextConnectHeight = n.stored + 1], p)
    ELSE RequestHeadersFromAllPeers([n EXCEPT !.state = "synced", !.syncPeerId = None])

-----------------------------------------------------------------------------
(* Headers *)

\* onHeaders while blocks are downloaded: the headers are indexed, no more, up to the
\* first that comes without its proof.  The proofs are a list of their own, which may
\* end early.
IndexHeaders(n, hs) ==
    LET indexed[i \in 0..Len(hs)] ==
            IF i = 0 THEN {n}
            ELSE IF \E j \in 1..i : hs[j] \in Unproved THEN indexed[i - 1]
            ELSE {Add(m, hs[i]) : m \in indexed[i - 1]}
    IN  indexed[Len(hs)]

\* One header in the loop of onHeaders.
ScanHeader(s, p, b) ==
    LET verdict == IF b \in Unproved THEN "unproved" ELSE Verdict(s.n, b)
    IN  CASE s.stop # "no" -> s
          [] s.stop = "no" /\ verdict \in {"added", "duplicate"} ->
                [n |-> Heard(Add(s.n, b), p, b), stop |-> "no",
                 added |-> IF verdict = "added" THEN s.added + 1 ELSE s.added]
          [] s.stop = "no" /\ verdict = "unproved" -> [s EXCEPT !.stop = verdict]
          [] OTHER -> [s EXCEPT !.n = Add(@, b), !.stop = verdict]

\* The loop stops at the first header that is not good.  As in every loop here, the state
\* after each turn is the only member of a set.
ScanHeaders(n, p, hs) ==
    LET scan[i \in 0..Len(hs)] ==
            IF i = 0 THEN {[n |-> n, added |-> 0, stop |-> "no"]}
            ELSE {ScanHeader(s, p, hs[i]) : s \in scan[i - 1]}
    IN  scan[Len(hs)]

\* A synced node does not look for the branch of the header.
FaultyOrphanHeader(n, p, added) ==
    IF n.state = "synced" THEN {n} ELSE {RequestHeaders([n EXCEPT !.orphanRetries = 0], p)}

\* The retries are counted up to a fourth one.
FaultyOrphanRetries(n, p, added) ==
    IF added = 0 THEN {RequestHeaders([n EXCEPT !.state = "syncingHeaders", !.orphanRetries = @ + 1], p)}
    ELSE {RequestHeaders([n EXCEPT !.orphanRetries = 0], p)}

\* The message ends in a header that is not known to follow from another one.
OrphanHeader(n, p, added) ==
    LET m == IF n.state = "synced" THEN [n EXCEPT !.state = "syncingHeaders", !.orphanRetries = 0]
             ELSE n
        switched == [m EXCEPT !.state = "idle", !.syncPeerId = None, !.orphanRetries = 0]
    IN  CASE added > 0 -> {RequestHeaders([m EXCEPT !.orphanRetries = 0], p)}
          [] added = 0 /\ m.orphanRetries < 2 ->
                {RequestHeaders([m EXCEPT !.orphanRetries = @ + 1], p)}
          [] OTHER -> SyncWith(switched, {q \in Handshaked(m) \ {p} : Ahead(m, q)}, {switched})

\* A bad header, or one that Chain.add throws for.
BadHeader(n, p) ==
    Then({[Ban(n, p) EXCEPT !.syncPeerId = None, !.pendingBlocks = {}, !.state = "idle"]}, LAMBDA m :
        SyncElsewhere(m, p))

GoodHeaders(n, p, hs, added) ==
    CASE added = 0 /\ n.state = "syncingHeaders" -> {FinishHeaderSync(n, p)}
      [] added = 0 /\ n.state # "syncingHeaders" -> {n}
      [] added > 0 /\ (Len(hs) >= MaxHeaders \/ Ahead(n, p)) -> {RequestHeaders(n, p)}
      [] OTHER -> {FinishHeaderSync(n, p)}

\* A headers message of the sync peer, once its headers are added.
HeadersAdded(s, p, hs) ==
    CASE hs = << >> -> {FinishHeaderSync(s.n, p)}
      [] hs # << >> /\ s.stop = "no" -> GoodHeaders(s.n, p, hs, s.added)
      [] hs # << >> /\ s.stop = "orphan" -> OrphanHeader(s.n, p, s.added)
      [] hs # << >> /\ s.stop = "unproved" -> {Ban(s.n, p)}
      [] OTHER -> BadHeader(s.n, p)

SyncPeerHeaders(n, p, hs) ==
    UNION {HeadersAdded(s, p, hs) :
              s \in ScanHeaders([n EXCEPT !.lastHeaderRequest = FALSE], p, hs)}

OnHeaders(n, p, hs) ==
    LET m == IF n.state = "synced" /\ hs # << >> THEN [n EXCEPT !.syncPeerId = p] ELSE n
    IN  CASE n.state = "syncingBlocks" /\ hs # << >> -> IndexHeaders(n, hs)
          [] m.state \in {"syncingHeaders", "synced"} /\ m.syncPeerId = p -> SyncPeerHeaders(m, p, hs)
          [] OTHER -> {m}

-----------------------------------------------------------------------------
(* Blocks *)

Buffered(n, b) ==
    [n EXCEPT !.blockBuffer = {c \in @ : Height(c) # Height(b)} \cup {b}]

\* The block of the buffer that is next, if it has come.
Due(n) == {b \in n.blockBuffer : Height(b) = n.nextConnectHeight}

ConnectDue(s) ==
    CASE s.failed \/ Due(s.n) = {} -> s
      [] ~s.failed /\ \E b \in Due(s.n) : ~Connectable(s.n, b) -> [s EXCEPT !.failed = TRUE]
      [] OTHER -> [s EXCEPT !.n = [Connected(s.n, CHOOSE b \in Due(s.n) : TRUE) EXCEPT
                                      !.blockBuffer = @ \ Due(s.n),
                                      !.nextConnectHeight = @ + 1]]

\* The loops that connect what is buffered, in order of height.
Drain(n) ==
    LET run[i \in 0..Cardinality(n.blockBuffer)] ==
            IF i = 0 THEN {[n |-> n, failed |-> FALSE]} ELSE {ConnectDue(s) : s \in run[i - 1]}
    IN  run[Cardinality(n.blockBuffer)]

CaughtUp(n) == RequestHeadersFromAllPeers(GiveUp(n, "synced"))

\* onBlock after its loop.
PendingConnected(s, p) ==
    LET m == s.n
        outstanding == Cardinality(m.pendingBlocks) + Cardinality(m.blockBuffer)
    IN  CASE s.failed -> Then({GiveUp(Ban(m, p), "idle")}, LAMBDA k : SyncElsewhere(k, p))
          [] ~s.failed /\ m.stored >= TipHeight(m) -> {CaughtUp(m)}
          [] ~s.failed /\ m.stored < TipHeight(m) /\ outstanding <= Window \div 2 ->
                {RequestBlocks(m, p)}
          [] OTHER -> {m}

ConnectPending(n, p, b) ==
    UNION {PendingConnected(s, p) :
              s \in Drain(Buffered([n EXCEPT !.pendingBlocks = @ \ {b}], b))}

\* A block that was requested is taken, whatever happened to the best chain since.
FaultyOnBlock(n, p, b) ==
    IF n.syncPeerId = p /\ n.state = "syncingBlocks" /\ b \in n.pendingBlocks
    THEN ConnectPending(n, p, b)
    ELSE {n}

\* The block is looked for at the height after its parent's.
OnBlock(n, p, b) ==
    IF /\ n.syncPeerId = p /\ n.state = "syncingBlocks"
       /\ OnBestChain(n, b) /\ b \in n.pendingBlocks
    THEN ConnectPending(n, p, b)
    ELSE {n}

\* drainBlockBuffer: nobody is banned, and nothing is requested.
DrainBlockBuffer(n) ==
    UNION {CASE s.failed -> RecoverOrphanedHeaders(GiveUp(s.n, "idle"))
             [] ~s.failed /\ s.n.stored >= TipHeight(s.n) -> {CaughtUp(s.n)}
             [] OTHER -> {s.n} : s \in Drain(n)}

\* A compact block is complete: the download is over, and this block is connected.
Reconstructed(n, p, b) ==
    DrainBlockBuffer([n EXCEPT !.state = "syncingBlocks", !.syncPeerId = p,
                               !.nextBlockHeight = Height(b) + 1, !.nextConnectHeight = Height(b),
                               !.pendingBlocks = {}, !.blockBuffer = {b},
                               !.compacted = TRUE])

\* The transactions that are missing from the mempool are asked for.
RequestMissing(n, p, b) ==
    Ask([n EXCEPT !.pendingCompactBlock = b], p, {[type |-> "txn", block |-> b]})

OnCompactBlock(n, p, b, complete) ==
    LET verdict == Verdict(n, b)
        m == Heard(Add(n, b), p, b)
    IN  CASE n.state # "synced" -> {n}
          [] n.state = "synced" /\ verdict = "orphan" ->
                {RequestHeaders([n EXCEPT !.state = "syncingHeaders", !.syncPeerId = p], p)}
          [] n.state = "synced" /\ verdict \in {"invalid", "failed"} -> {Add(n, b)}
          [] OTHER -> IF OnBestChain(m, b) /\ Height(b) <= m.stored THEN {m}
                      ELSE IF complete THEN Reconstructed(m, p, b)
                      ELSE {RequestMissing(m, p, b)}

\* No state is looked at: the block may have been stored in the meantime.  If the
\* transactions do not fit, the full block is requested.
OnBlockTxn(n, p, b, fits) ==
    LET m == [n EXCEPT !.pendingCompactBlock = None]
    IN  CASE n.pendingCompactBlock # b -> {n}
          [] n.pendingCompactBlock = b /\ fits -> Reconstructed(m, p, b)
          [] OTHER -> {Ask(m, p, BlockRequests({b}))}

-----------------------------------------------------------------------------
(* Connections, announcements and timers *)

OnPeerHandshake(n, p) ==
    CASE n.state \notin {"idle", "synced"} -> {n}
      [] n.state \in {"idle", "synced"} /\ Ahead(n, p) -> {StartSync(n, p)}
      [] n.state = "idle" /\ ~Ahead(n, p) /\ n.stored < TipHeight(n) ->
            {RequestBlocks([n EXCEPT !.state = "syncingBlocks", !.syncPeerId = p,
                                     !.nextBlockHeight = n.stored + 1,
                                     !.nextConnectHeight = n.stored + 1], p)}
      [] OTHER -> {[n EXCEPT !.state = "synced"]}

\* Only the download of blocks is given up.
FaultyOnPeerDisconnect(n, p) ==
    IF n.syncPeerId # p \/ n.state # "syncingBlocks" THEN {n}
    ELSE Then({GiveUp(n, "idle")}, LAMBDA m :
                 SyncWith(m, {q \in Handshaked(m) : Ahead(m, q)},
                          SyncedIfIdle(RecoverOrphanedHeaders(m))))

\* The peer is not in the set of handshaked peers any more.
OnPeerDisconnect(n, p) ==
    IF n.syncPeerId # p THEN {n}
    ELSE Then({GiveUp(n, "idle")}, LAMBDA m :
                 SyncWith(m, {q \in Handshaked(m) : Ahead(m, q)},
                          SyncedIfIdle(RecoverOrphanedHeaders(m))))

OnInv(n, p, b) ==
    CASE b \in n.known -> {Heard(n, p, b)}
      [] b \notin n.known /\ n.state = "synced" ->
            {RequestHeaders([n EXCEPT !.state = "syncingHeaders", !.syncPeerId = p], p)}
      [] b \notin n.known /\ n.state = "idle" /\ Ahead(n, p) -> {StartSync(n, p)}
      [] OTHER -> {n}

\* The sync peer is disconnected, but still handshaked and may be chosen again.
OnBlockTimeout(n) ==
    Then({GiveUp(IF n.syncPeerId = None THEN n ELSE Close(n, n.syncPeerId), "idle")}, LAMBDA m :
        SyncWith(m, {q \in Handshaked(m) : Ahead(m, q)}, SyncedIfIdle(RecoverOrphanedHeaders(m))))

OnHeaderTimeout(n) ==
    Then({[n EXCEPT !.syncPeerId = None, !.lastHeaderRequest = FALSE, !.state = "idle"]}, LAMBDA m :
        SyncedIfIdle(SyncElsewhere(m, n.syncPeerId)))

OnCompactBlockTimeout(n) ==
    LET m == [n EXCEPT !.pendingCompactBlock = None]
    IN  IF n.syncPeerId = None THEN m
        ELSE Ask(m, n.syncPeerId, BlockRequests({n.pendingCompactBlock}))

-----------------------------------------------------------------------------
(* Steps *)

Init ==
    /\ node = [known |-> {Genesis}, tip |-> Genesis, stored |-> 0,
               state |-> "idle", syncPeerId |-> None, orphanRetries |-> 0,
               lastHeaderRequest |-> FALSE, pendingBlocks |-> {}, blockBuffer |-> {},
               nextConnectHeight |-> 0, nextBlockHeight |-> 0,
               pendingCompactBlock |-> None, compacted |-> FALSE,
               up |-> [p \in Peers |-> "off"], height |-> [p \in Peers |-> 0],
               asked |-> [p \in Peers |-> {}], banned |-> {}]
    /\ peerTip \in [Peers -> Blocks]
    /\ \A p \in Peers : peerTip[p] \in Tips[p] /\ \A b \in Tips[p] : Work[peerTip[p]] <= Work[b]
    /\ told = Peers /\ faults = 0

Fault == faults < MaxFaults /\ faults' = faults + 1

\* The peer connects a block, or reorganises.
PeerAdvance(p) ==
    /\ \E b \in Tips[p] : Work[b] > Work[peerTip[p]] /\ peerTip' = [peerTip EXCEPT ![p] = b]
    /\ told' = told \ {p}
    /\ UNCHANGED <<node, faults>>

\* A connection, in either direction, up to the end of the version handshake.
PeerHandshake(p) ==
    /\ node.up[p] = "off" /\ p \notin node.banned
    /\ node' \in OnPeerHandshake([node EXCEPT !.up[p] = "up", !.height[p] = Height(peerTip[p])], p)
    /\ UNCHANGED <<peerTip, told, faults>>

Gone(p) == [node EXCEPT !.up[p] = "off", !.asked[p] = {}, !.height[p] = 0]

PeerDisconnect(p) ==
    /\ node.up[p] = "closing"
    /\ node' \in OnPeerDisconnect(Gone(p), p)
    /\ UNCHANGED <<peerTip, told, faults>>

LinkLost(p) ==
    /\ node.up[p] = "up"
    /\ node' \in OnPeerDisconnect(Gone(p), p)
    /\ Fault /\ UNCHANGED <<peerTip, told>>

\* The request and what the node is without it.
Answered(p, type) ==
    {[block |-> r.block, n |-> [node EXCEPT !.asked[p] = @ \ {r}]] :
        r \in {q \in node.asked[p] : q.type = type}}

\* handleGetHeaders of the peer: what follows the highest block of the locator
\* that is on its chain.
HeadersFrom(p, b) ==
    LET chain == Path[peerTip[p]]
        first == Common(chain, Path[b]) + 1
    IN  SubSeq(chain, first, Min({Len(chain), first + MaxHeaders - 1}))

AnswerHeaders(p) ==
    /\ \E a \in Answered(p, "headers") : \E hs \in {HeadersFrom(p, a.block)} :
          node' \in OnHeaders(a.n, p, hs)
    /\ UNCHANGED <<peerTip, told, faults>>

\* handleGetData of the peer: nothing is sent for a block that is not on its chain.
AnswerBlock(p) ==
    /\ \E a \in Answered(p, "block") :
          node' \in IF a.block \in ToSet(Path[peerTip[p]]) THEN OnBlock(a.n, p, a.block) ELSE {a.n}
    /\ UNCHANGED <<peerTip, told, faults>>

AnswerTxn(p) ==
    /\ \E a \in Answered(p, "txn"), fits \in BOOLEAN : node' \in OnBlockTxn(a.n, p, a.block, fits)
    /\ UNCHANGED <<peerTip, told, faults>>

Answer(p) == AnswerHeaders(p) \/ AnswerBlock(p) \/ AnswerTxn(p)

\* broadcastBlock of the peer: a header, or an inv to a node whose sendheaders it has
\* not read yet.
Announce(p) ==
    /\ node.up[p] = "up" /\ p \notin told
    /\ node' \in OnHeaders(node, p, <<peerTip[p]>>) \cup OnInv(node, p, peerTip[p])
    /\ told' = told \cup {p} /\ UNCHANGED <<peerTip, faults>>

\* broadcastCurrentTip of the peer, every 30 seconds: what was asked before is answered.
GossipTip(p) ==
    /\ node.up[p] = "up" /\ node.asked[p] = {}
    /\ node' \in OnHeaders(node, p, <<peerTip[p]>>)
    /\ told' = told \cup {p} /\ UNCHANGED <<peerTip, faults>>

PushCompactBlock(p) ==
    /\ Compact /\ node.up[p] = "up"
    /\ \E complete \in BOOLEAN : node' \in OnCompactBlock(node, p, peerTip[p], complete)
    /\ Fault /\ UNCHANGED <<peerTip, told>>

\* A timer fires when the answer will not come, or (a fault) although it would.
BlockAnswerComing ==
    /\ node.syncPeerId # None /\ node.up[node.syncPeerId] # "off"
    /\ BlockRequests(node.pendingBlocks) \cap node.asked[node.syncPeerId] # {}

HeadersComing ==
    /\ node.syncPeerId # None
    /\ \E r \in node.asked[node.syncPeerId] : r.type = "headers"

\* A node that has received a block does not time out any more.
FaultyCheckBlockTimeout ==
    /\ node.state = "syncingBlocks" /\ node.pendingBlocks # {} /\ node.stored = 0
    /\ node' \in OnBlockTimeout(node)
    /\ UNCHANGED <<peerTip, told>>

CheckBlockTimeout ==
    /\ node.state = "syncingBlocks" /\ node.pendingBlocks # {}
    /\ node' \in OnBlockTimeout(node)
    /\ UNCHANGED <<peerTip, told>>

CheckHeaderTimeout ==
    /\ node.state = "syncingHeaders" /\ node.lastHeaderRequest
    /\ node' \in OnHeaderTimeout(node)
    /\ UNCHANGED <<peerTip, told>>

BlocksOverdue == ~BlockAnswerComing /\ CheckBlockTimeout /\ UNCHANGED faults
BlocksLate == BlockAnswerComing /\ CheckBlockTimeout /\ Fault
HeadersOverdue == ~HeadersComing /\ CheckHeaderTimeout /\ UNCHANGED faults
HeadersLate == HeadersComing /\ CheckHeaderTimeout /\ Fault

CheckCompactBlockTimeout ==
    /\ node.pendingCompactBlock # None
    /\ node' = OnCompactBlockTimeout(node)
    /\ UNCHANGED <<peerTip, told, faults>>

Next ==
    \/ \E p \in Peers :
          \/ PeerAdvance(p) \/ PeerHandshake(p) \/ PeerDisconnect(p) \/ LinkLost(p)
          \/ Answer(p) \/ Announce(p) \/ GossipTip(p) \/ PushCompactBlock(p)
    \/ BlocksOverdue \/ BlocksLate \/ HeadersOverdue \/ HeadersLate
    \/ CheckCompactBlockTimeout

Spec == Init /\ [][Next]_vars

\* Peers answer and announce, timers fire, and a closed connection ends.
Fairness ==
    /\ WF_vars(BlocksOverdue) /\ WF_vars(HeadersOverdue)
    /\ \A p \in Peers : WF_vars(Answer(p)) /\ WF_vars(GossipTip(p)) /\ WF_vars(PeerDisconnect(p))

FairSpec == Spec /\ Fairness

-----------------------------------------------------------------------------
(* Properties *)

Requests == [type : {"headers", "block", "txn"}, block : Blocks]

TypeOK ==
    /\ node.known \subseteq Blocks /\ node.tip \in node.known
    /\ node.stored \in 0..TipHeight(node)
    /\ node.state \in {"idle", "syncingHeaders", "syncingBlocks", "synced"}
    /\ node.syncPeerId \in Peers \cup {None} /\ node.pendingCompactBlock \in Blocks \cup {None}
    /\ node.pendingBlocks \subseteq Blocks /\ node.blockBuffer \subseteq Blocks
    /\ node.nextConnectHeight \in Nat /\ node.nextBlockHeight \in Nat
    /\ node.orphanRetries \in 0..2
    /\ node.lastHeaderRequest \in BOOLEAN /\ node.compacted \in BOOLEAN
    /\ node.up \in [Peers -> {"off", "up", "closing"}] /\ node.height \in [Peers -> Nat]
    /\ \A p \in Peers : node.asked[p] \subseteq Requests
    /\ node.banned \subseteq Peers
    /\ peerTip \in [Peers -> Blocks] /\ told \subseteq Peers /\ faults \in 0..MaxFaults

Downloading == node.state \in {"syncingHeaders", "syncingBlocks"}

\* A download has a sync peer whose connection has not ended: the end of it is what
\* wakes the node when the peer goes (onPeerDisconnect).
DownloadHasPeer ==
    Downloading => node.syncPeerId # None /\ node.up[node.syncPeerId] # "off"

\* A download that stands still has a timer that ends it (checkHeaderTimeout,
\* checkBlockTimeout), or waits for the end of a connection that is being closed -
\* unless a compact block took the download over (Reconstructed).
StallsAreNoticed ==
    Downloading /\ ~node.compacted /\ node.up[node.syncPeerId] = "up" =>
        IF node.state = "syncingBlocks" THEN node.pendingBlocks # {} ELSE node.lastHeaderRequest

\* Requested and buffered blocks belong to a download, and their number stays within
\* blockWindowSize.
WindowBounded ==
    /\ node.state # "syncingBlocks" => node.pendingBlocks = {} /\ node.blockBuffer = {}
    /\ Cardinality(node.pendingBlocks) + Cardinality(node.blockBuffer) <= Window

\* A node that is not downloading and waits for announcements listens to them
\* (checkBlockTimeout: .idle "permanently drops every header it receives").
NotStranded == node.state = "idle" => \A p \in Peers : node.up[p] # "up"

\* Whatever the peers do, a download ends.
DownloadEnds == Downloading /\ ~node.compacted ~> ~Downloading \/ node.compacted

Bad == BadHeaders \cup Unproved \cup Invalid

\* The peer has a bad block, or had one before it reorganised.
HasBad(p) == \E t \in Tips[p] : Work[t] <= Work[peerTip[p]] /\ ToSet(Path[t]) \cap Bad # {}

\* Chain.add throws for the branch of the peer: it has more work and leaves the best chain
\* above the stored blocks.
NeedsUnstored(p) ==
    /\ Work[peerTip[p]] > Work[node.tip]
    /\ ForkHeight(node, peerTip[p]) \in (node.stored + 1)..(TipHeight(node) - 1)

\* The best chain has been reorganised since the download from this peer began, below the
\* blocks that are connected or below one that waits in the buffer.
StaleDownload(p) ==
    /\ node.state = "syncingBlocks" /\ node.syncPeerId = p
    /\ \/ node.nextConnectHeight # node.stored + 1
       \/ \E b \in node.blockBuffer : ~OnBestChain(node, b)

\* A peer is banned for a bad block, for a branch that Chain.add throws for, or in a
\* download that a reorganisation has made stale: never for blocks that came late, twice or
\* out of order, and never for one that was requested before a reorganisation and has
\* only come after it.
BannedForCause ==
    [][\A p \in node'.banned \ node.banned : HasBad(p) \/ NeedsUnstored(p) \/ StaleDownload(p)]_vars

StoredTip == Path[node.tip][node.stored + 1]

\* Connections do not come and go for ever.
Settled == \A p \in Peers : <>[](node.up[p] = "up") \/ <>[](node.up[p] = "off")

\* A node that is stranded (NotStranded), that knows a branch of more work but failed to
\* reorganise to it, or that has lost the state of a download to a compact block.
Excused ==
    \/ node.state = "idle" \/ node.compacted
    \/ \E b \in node.known : Work[b] > Work[node.tip]

\* A peer that stays gives the node a chain of at least as much work as its own.
CatchesUp ==
    Settled => \A p \in Peers :
        <>[](node.up[p] = "up") => <>[](Work[StoredTip] >= Work[peerTip[p]] \/ Excused)

\* A node that takes itself for synced, while blocks are missing below its tip.
Abandoned == node.state = "synced" /\ node.stored < TipHeight(node)

\* As CatchesUp, but for a node that abandons a download: there is no other way to stay
\* behind a peer.
StaysBehindOnlyAbandoned ==
    Settled => \A p \in Peers :
        <>[](node.up[p] = "up") =>
            <>[](Work[StoredTip] >= Work[peerTip[p]] \/ Excused \/ Abandoned)
=============================================================================
