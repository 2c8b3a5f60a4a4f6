---------------------------- MODULE BlockServing ----------------------------
(***************************************************************************)
(* How a node serves blocks to one peer: handleGetData, handleGetBlockTxn  *)
(* and peerDidDisconnect of PeerManager.swift.                             *)
(*                                                                         *)
(* The messages of a peer are handled one after the other, but the blocks  *)
(* of a getdata are sent by a task that runs beside the handlers.  Sections*)
(* under blockServeLock are steps, and so are calls of Chain, each of      *)
(* which takes the lock of the chain by itself: the stored blocks change   *)
(* in between, as module Ledger says.                                      *)
(***************************************************************************)
EXTENDS Integers, Sequences

CONSTANTS
    Blocks, Path,
    Tasks,             \* tasks that may exist at the same time
    None,
    MaxBlockRequest,   \* bound on blockServeQueue
    MaxAsk,            \* bound on the blocks of one getdata
    BanScore

ASSUME ServingAssumption ==
    /\ \A b \in Blocks : Path[b] \in Seq(Blocks) /\ Path[b] # << >>
    /\ None \notin Blocks \cup Tasks
    /\ MaxBlockRequest \in Nat /\ MaxAsk \in Nat /\ BanScore \in Nat

VARIABLES
    ledger,            \* the stored blocks
    conn,              \* "open", "closed" (isClosed), "gone" (peerDidDisconnect was called)
    banScore,
    blockServeQueue,
    isServingBlocks,
    tasks,             \* tasks[t]: where it is, what is left of its batch, Task.isCancelled
    blockServeTask,    \* the task that a disconnect cancels
    txnBlock,          \* the block handleGetBlockTxn has found on the best chain
    answer             \* the last block that was sent, and the one it was sent for

peer == <<blockServeQueue, isServingBlocks, tasks, blockServeTask>>
vars == <<ledger, conn, banScore, peer, txnBlock, answer>>

L == INSTANCE Ledger

NoTask == [at |-> "none", batch |-> << >>, cancelled |-> FALSE]
Alive(t) == tasks[t].at # "none"

Height(b) == Len(Path[b]) - 1

Init ==
    /\ L!Init
    /\ conn = "open" /\ banScore = 0
    /\ blockServeQueue = << >> /\ isServingBlocks = FALSE
    /\ tasks = [t \in Tasks |-> NoTask] /\ blockServeTask = None
    /\ txnBlock = None /\ answer = << >>

-----------------------------------------------------------------------------
(* Chain *)

\* getEntryByHeight(entry.height)?.hash == entry.hash.  The best chain goes on above the
\* stored blocks with any headers.
Stored(b) == Height(b) < Len(ledger) /\ ledger[Height(b) + 1] = b
MayBeBest(b) ==
    \/ Stored(b)
    \/ Height(b) >= Len(ledger) /\ \A i \in 1..Len(ledger) : ledger[i] = Path[b][i]

\* Blocks connect and are reorganised in other tasks.
ChainChanges ==
    /\ L!Next
    /\ UNCHANGED <<conn, banScore, peer, txnBlock, answer>>

\* What getBlock(height:) loads is sent in answer to b; a closed connection drops it.
Answer(b) ==
    answer' = IF conn = "open" /\ Height(b) < Len(ledger)
              THEN <<b, ledger[Height(b) + 1]>> ELSE answer

-----------------------------------------------------------------------------
(* The handlers *)

\* The read loop handles the next message when it is done with the last one.
Receives == conn # "gone" /\ txnBlock = None

\* The flag is not asked.
FaultySpawn ==
    /\ isServingBlocks' = TRUE
    /\ \E t \in Tasks :
          /\ ~Alive(t)
          /\ tasks' = [tasks EXCEPT ![t] = [NoTask EXCEPT !.at = "take"]]
          /\ blockServeTask' = t

\* A task is spawned unless one is there.
Spawn ==
    IF isServingBlocks THEN UNCHANGED <<isServingBlocks, tasks, blockServeTask>>
    ELSE /\ isServingBlocks' = TRUE
         /\ \E t \in Tasks :
               /\ ~Alive(t)
               /\ tasks' = [tasks EXCEPT ![t] = [NoTask EXCEPT !.at = "take"]]
               /\ blockServeTask' = t

\* handleGetData, with its blocks; too many cost 20 of the ban score, until the peer is banned.
HandleGetData(items) ==
    /\ Receives /\ UNCHANGED <<ledger, txnBlock, answer>>
    /\ IF Len(blockServeQueue) + Len(items) <= MaxBlockRequest
       THEN /\ blockServeQueue' = blockServeQueue \o items /\ Spawn
            /\ UNCHANGED <<conn, banScore>>
       ELSE /\ banScore < BanScore /\ banScore' = banScore + 20
            /\ conn' = IF banScore' >= BanScore THEN "closed" ELSE conn
            /\ UNCHANGED peer

\* handleGetBlockTxn, in two steps: the look at the best chain, and the block.
HandleGetBlockTxn(b) ==
    /\ Receives /\ MayBeBest(b)
    /\ txnBlock' = b
    /\ UNCHANGED <<ledger, conn, banScore, peer, answer>>

SendBlockTxn ==
    /\ txnBlock # None
    /\ Answer(txnBlock) /\ txnBlock' = None
    /\ UNCHANGED <<ledger, conn, banScore, peer>>

\* Either side closes the connection, or it fails.
Close ==
    /\ conn = "open" /\ conn' = "closed"
    /\ UNCHANGED <<ledger, banScore, peer, txnBlock, answer>>

\* The handle is dropped, but the task is not cancelled.
FaultyPeerDidDisconnect ==
    /\ conn = "closed" /\ txnBlock = None /\ conn' = "gone"
    /\ blockServeTask' = None
    /\ UNCHANGED <<ledger, banScore, blockServeQueue, isServingBlocks, tasks, txnBlock, answer>>

\* The read loop has ended.
PeerDidDisconnect ==
    /\ conn = "closed" /\ txnBlock = None /\ conn' = "gone"
    /\ tasks' = [t \in Tasks |-> IF t = blockServeTask /\ Alive(t)
                                 THEN [tasks[t] EXCEPT !.cancelled = TRUE] ELSE tasks[t]]
    /\ blockServeTask' = None
    /\ UNCHANGED <<ledger, banScore, blockServeQueue, isServingBlocks, txnBlock, answer>>

-----------------------------------------------------------------------------
(* The task *)

Task(t, at, batch) ==
    /\ tasks' = [tasks EXCEPT ![t].at = at, ![t].batch = batch]
    /\ UNCHANGED <<conn, banScore, isServingBlocks, blockServeTask, txnBlock, ledger>>

\* The task takes the queue, or ends when it finds nothing.
TakeBatch(t) ==
    /\ tasks[t].at = "take"
    /\ IF tasks[t].cancelled
       THEN Task(t, "exit", << >>) /\ UNCHANGED <<blockServeQueue, answer>>
       ELSE /\ blockServeQueue' = << >> /\ UNCHANGED answer
            /\ Task(t, IF blockServeQueue = << >> THEN "exit" ELSE "check", blockServeQueue)

\* A block that is not on the best chain is not skipped.
FaultyCheckBlock(t) ==
    LET batch == tasks[t].batch
    IN  /\ tasks[t].at = "check" /\ UNCHANGED <<blockServeQueue, answer>>
        /\ IF batch = << >> \/ tasks[t].cancelled
           THEN Task(t, "take", << >>)
           ELSE MayBeBest(Head(batch)) /\ Task(t, "load", batch)

\* The next block of the batch, if it is on the best chain.
CheckBlock(t) ==
    LET batch == tasks[t].batch
    IN  /\ tasks[t].at = "check" /\ UNCHANGED <<blockServeQueue, answer>>
        /\ IF batch = << >> \/ tasks[t].cancelled
           THEN Task(t, "take", << >>)
           ELSE \/ MayBeBest(Head(batch)) /\ Task(t, "load", batch)
                \/ ~Stored(Head(batch)) /\ Task(t, "check", Tail(batch))

\* The block at its height is loaded and sent.
SendBlock(t) ==
    /\ tasks[t].at = "load" /\ UNCHANGED blockServeQueue
    /\ Answer(Head(tasks[t].batch))
    /\ Task(t, "check", Tail(tasks[t].batch))

\* The flag is left set.
FaultyEndTask(t) ==
    /\ tasks[t].at = "exit"
    /\ tasks' = [tasks EXCEPT ![t] = NoTask]
    /\ UNCHANGED isServingBlocks
    /\ UNCHANGED <<ledger, conn, banScore, blockServeQueue, blockServeTask, txnBlock, answer>>

\* The defer of the task: a lock of its own, after that of the last look at the queue.
EndTask(t) ==
    /\ tasks[t].at = "exit"
    /\ tasks' = [tasks EXCEPT ![t] = NoTask]
    /\ isServingBlocks' = FALSE
    /\ UNCHANGED <<ledger, conn, banScore, blockServeQueue, blockServeTask, txnBlock, answer>>

Serve(t) == TakeBatch(t) \/ CheckBlock(t) \/ SendBlock(t) \/ EndTask(t)

-----------------------------------------------------------------------------
(* The specification *)

Requests == UNION {[1..n -> Blocks] : n \in 1..MaxAsk}

Next ==
    \/ ChainChanges
    \/ \E items \in Requests : HandleGetData(items)
    \/ \E b \in Blocks : HandleGetBlockTxn(b)
    \/ SendBlockTxn \/ Close \/ PeerDidDisconnect
    \/ \E t \in Tasks : Serve(t)

Spec == Init /\ [][Next]_vars

\* A task goes on, which yields after each block and waits for nothing, and so does a handler.
FairSpec == Spec /\ WF_vars(SendBlockTxn) /\ \A t \in Tasks : WF_vars(Serve(t))

-----------------------------------------------------------------------------
(* Properties *)

TypeOK ==
    /\ ledger \in Seq(Blocks)
    /\ conn \in {"open", "closed", "gone"} /\ banScore \in Nat
    /\ blockServeQueue \in Seq(Blocks) /\ isServingBlocks \in BOOLEAN
    /\ tasks \in [Tasks -> [at : {"none", "take", "check", "load", "exit"},
                            batch : Seq(Blocks), cancelled : BOOLEAN]]
    /\ \A t \in Tasks : tasks[t].at = "load" => tasks[t].batch # << >>
    /\ blockServeTask \in Tasks \cup {None} /\ txnBlock \in Blocks \cup {None}
    /\ answer \in {<< >>} \cup (Blocks \X Blocks)

\* handleGetData: "ensure at most one serving Task is running per peer", whatever the peer
\* asks while a task ends.
OneServer == \A t, u \in Tasks : Alive(t) /\ Alive(u) => t = u

\* isServingBlocks: "Whether a block-serving Task is currently running."  When it is set
\* and none is, no getdata is ever answered again.
FlagIsTask == isServingBlocks <=> \E t \in Tasks : Alive(t)

\* blockServeTask: "(cancelled on disconnect)".  No task goes on reading blocks for a peer
\* that is gone.
StoppedOnDisconnect == conn = "gone" => \A t \in Tasks : Alive(t) => tasks[t].cancelled

\* A request that is queued is served, unless the connection ends or it came while the task
\* was ending (blockServeQueue: "Queued block items waiting to be served").
ServedOrStranded ==
    blockServeQueue # << >> ~>
        blockServeQueue = << >> \/ conn = "gone" \/ ~isServingBlocks

\* blockServeQueue: "Queued block items waiting to be served."
QueueIsServed == blockServeQueue # << >> ~> blockServeQueue = << >> \/ conn # "open"

\* "Only serve blocks on the current best chain": the block that is sent is the one that
\* was asked for, also when the chain is reorganised meanwhile.
SentAsAsked == answer # << >> => answer[2] = answer[1]
=============================================================================
