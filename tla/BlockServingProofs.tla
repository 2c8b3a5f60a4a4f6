------------------------- MODULE BlockServingProofs -------------------------
(***************************************************************************)
(* Whatever a peer asks for and whenever, and however the chain is         *)
(* reorganised meanwhile, one task serves it at a time, isServingBlocks    *)
(* tells whether there is one, and it is cancelled with the connection.    *)
(***************************************************************************)
EXTENDS BlockServing, SequenceTheorems, TLAPS

\* The handle is that of the task that runs: it would otherwise be out of reach of
\* peerDidDisconnect.
HandleIsTask == conn # "gone" => \A t \in Tasks : Alive(t) => t = blockServeTask

IInv == TypeOK /\ OneServer /\ FlagIsTask /\ StoppedOnDisconnect /\ HandleIsTask

\* What a task is.
TaskRecords == [at : {"none", "take", "check", "load", "exit"},
                batch : Seq(Blocks), cancelled : BOOLEAN]

-----------------------------------------------------------------------------
(* Lemmas *)

\* Tail of a batch that is not empty.
LEMMA BatchFacts ==
    ASSUME NEW s \in Seq(Blocks), s # << >>
    PROVE  Head(s) \in Blocks /\ Tail(s) \in Seq(Blocks)
  BY HeadTailProperties

\* A height is one of a block.
LEMMA HeightIsNat ==
    ASSUME NEW b \in Blocks
    PROVE  Height(b) \in Nat
<1>1. Path[b] \in Seq(Blocks) /\ Path[b] # << >>
  BY ServingAssumption
<1>2. Len(Path[b]) \in Nat /\ Len(Path[b]) > 0
  BY <1>1, EmptySeq, LenProperties
<1> QED
  BY <1>2 DEF Height

\* What is sent is a block.
LEMMA AnswerTyped ==
    ASSUME TypeOK, NEW b \in Blocks, Answer(b)
    PROVE  answer' \in {<< >>} \cup (Blocks \X Blocks)
<1>1. CASE conn = "open" /\ Height(b) < Len(ledger)
  <2>1. ledger \in Seq(Blocks) /\ Height(b) + 1 \in 1..Len(ledger)
    BY <1>1, HeightIsNat, LenProperties DEF TypeOK
  <2>2. ledger[Height(b) + 1] \in Blocks
    BY <2>1, ElementOfSeq
  <2> QED
    BY <1>1, <2>2 DEF Answer
<1>2. CASE ~(conn = "open" /\ Height(b) < Len(ledger))
  BY <1>2 DEF Answer, TypeOK
<1> QED
  BY <1>1, <1>2

\* The stored blocks stay blocks.
LEMMA LedgerTyped ==
    ASSUME ledger \in Seq(Blocks), L!Next
    PROVE  ledger' \in Seq(Blocks)
<1>1. CASE L!Extend
  BY <1>1, AppendProperties DEF L!Extend
<1>2. CASE L!Rewind
  <2>1. PICK n \in 1..Len(ledger) : ledger' = SubSeq(ledger, 1, n)
    BY <1>2 DEF L!Rewind
  <2>2. \A i \in 1..n : ledger[i] \in Blocks
    BY <2>1, ElementOfSeq, LenProperties
  <2> QED
    BY <2>1, <2>2, SubSeqProperties, LenProperties
<1> QED
  BY <1>1, <1>2 DEF L!Next

\* A new task is the only one.
LEMMA SpawnKeeps ==
    ASSUME IInv, conn # "gone", conn' = conn, Spawn
    PROVE  /\ tasks' \in [Tasks -> TaskRecords] /\ isServingBlocks' \in BOOLEAN
           /\ \A t \in Tasks : tasks'[t].at = "load" => tasks'[t].batch # << >>
           /\ blockServeTask' \in Tasks \cup {None}
           /\ OneServer' /\ FlagIsTask' /\ HandleIsTask'
<1>1. CASE isServingBlocks
  <2>1. UNCHANGED <<isServingBlocks, tasks, blockServeTask>>
    BY <1>1 DEF Spawn
  <2> QED
    BY <2>1 DEF IInv, TypeOK, TaskRecords, OneServer, FlagIsTask, HandleIsTask, Alive
<1>2. CASE ~isServingBlocks
  <2>1. PICK t \in Tasks :
           /\ tasks' = [tasks EXCEPT ![t] = [NoTask EXCEPT !.at = "take"]]
           /\ blockServeTask' = t /\ isServingBlocks' = TRUE
    BY <1>2 DEF Spawn
  <2>2. \A u \in Tasks : ~Alive(u)
    BY <1>2 DEF IInv, FlagIsTask
  <2>3. [NoTask EXCEPT !.at = "take"] \in TaskRecords /\ [NoTask EXCEPT !.at = "take"].at = "take"
    BY EmptySeq DEF NoTask, TaskRecords
  <2>4. tasks \in [Tasks -> TaskRecords]
    BY DEF IInv, TypeOK, TaskRecords
  <2>5. tasks' \in [Tasks -> TaskRecords] /\ tasks'[t].at = "take"
        /\ \A u \in Tasks : u # t => tasks'[u] = tasks[u]
    BY <2>1, <2>3, <2>4
  <2>6. \A u \in Tasks : Alive(u)' <=> u = t
    BY <2>2, <2>5 DEF Alive
  <2>7. \A u \in Tasks : tasks'[u].at = "load" => tasks'[u].batch # << >>
    BY <2>5 DEF IInv, TypeOK
  <2> QED
    BY <2>1, <2>5, <2>6, <2>7 DEF OneServer, FlagIsTask, HandleIsTask
<1> QED
  BY <1>1, <1>2

\* A task that goes on is still that task.
LEMMA TaskKeeps ==
    ASSUME IInv, NEW t \in Tasks, Alive(t),
           NEW at \in {"take", "check", "load", "exit"}, NEW batch \in Seq(Blocks),
           at = "load" => batch # << >>, Task(t, at, batch),
           blockServeQueue' \in Seq(Blocks), answer' \in {<< >>} \cup (Blocks \X Blocks)
    PROVE  IInv'
<1>1. tasks \in [Tasks -> TaskRecords]
  BY DEF IInv, TypeOK, TaskRecords
<1>2. /\ UNCHANGED <<conn, banScore, isServingBlocks, blockServeTask, txnBlock, ledger>>
      /\ tasks' = [tasks EXCEPT ![t].at = at, ![t].batch = batch]
  BY DEF Task
<1>3. /\ tasks' \in [Tasks -> TaskRecords]
      /\ tasks'[t].at = at /\ tasks'[t].batch = batch
      /\ \A u \in Tasks : u # t => tasks'[u] = tasks[u]
      /\ \A u \in Tasks : tasks'[u].cancelled = tasks[u].cancelled
  BY <1>1, <1>2 DEF TaskRecords
<1>4. \A u \in Tasks : Alive(u)' <=> Alive(u)
  BY <1>3 DEF Alive
<1>5. \A u \in Tasks : tasks'[u].at = "load" => tasks'[u].batch # << >>
  BY <1>3 DEF IInv, TypeOK
<1>6. TypeOK'
  BY <1>2, <1>3, <1>5 DEF IInv, TypeOK, TaskRecords
<1>7. OneServer' /\ FlagIsTask' /\ StoppedOnDisconnect' /\ HandleIsTask'
  BY <1>2, <1>3, <1>4 DEF IInv, OneServer, FlagIsTask, StoppedOnDisconnect, HandleIsTask
<1> QED
  BY <1>6, <1>7 DEF IInv

-----------------------------------------------------------------------------
(* The steps *)

\* Nothing runs at the start.
LEMMA InitInvariant == Init => IInv
<1> SUFFICES ASSUME Init PROVE IInv
  OBVIOUS
<1>1. ledger \in Seq(Blocks)
  <2>1. << >> \in Seq(Blocks) /\ \A b \in Blocks : <<b>> \in Seq(Blocks)
    BY EmptySeq
  <2> QED
    BY <2>1 DEF Init, L!Init
<1>2. NoTask \in TaskRecords /\ NoTask.at = "none"
  BY EmptySeq DEF NoTask, TaskRecords
<1>3. \A t \in Tasks : tasks[t] = NoTask /\ ~Alive(t)
  BY <1>2 DEF Init, Alive
<1>4. TypeOK
  BY <1>1, <1>2, <1>3, EmptySeq DEF Init, TypeOK, TaskRecords
<1> QED
  BY <1>3, <1>4 DEF Init, IInv, OneServer, FlagIsTask, StoppedOnDisconnect, HandleIsTask

\* A getdata starts a task only when there is none.
LEMMA GetDataKeeps ==
    ASSUME IInv, NEW items \in Requests, HandleGetData(items)
    PROVE  IInv'
<1>1. /\ conn # "gone" /\ UNCHANGED <<ledger, txnBlock, answer>>
  BY DEF HandleGetData, Receives
<1>2. CASE Len(blockServeQueue) + Len(items) <= MaxBlockRequest
  <2>1. /\ blockServeQueue' = blockServeQueue \o items /\ Spawn /\ UNCHANGED <<conn, banScore>>
    BY <1>2 DEF HandleGetData
  <2>2. items \in Seq(Blocks)
    <3>1. PICK n \in 1..MaxAsk : items \in [1..n -> Blocks]
      BY DEF Requests
    <3> QED
      BY <3>1, ServingAssumption
  <2>3. blockServeQueue' \in Seq(Blocks)
    BY <2>1, <2>2, ConcatProperties DEF IInv, TypeOK
  <2>4. /\ tasks' \in [Tasks -> TaskRecords] /\ isServingBlocks' \in BOOLEAN
        /\ \A t \in Tasks : tasks'[t].at = "load" => tasks'[t].batch # << >>
        /\ blockServeTask' \in Tasks \cup {None}
        /\ OneServer' /\ FlagIsTask' /\ HandleIsTask'
    BY <1>1, <2>1, SpawnKeeps
  <2>5. TypeOK'
    BY <1>1, <2>1, <2>3, <2>4 DEF IInv, TypeOK, TaskRecords
  <2> QED
    BY <1>1, <2>1, <2>4, <2>5 DEF IInv, StoppedOnDisconnect
<1>3. CASE ~(Len(blockServeQueue) + Len(items) <= MaxBlockRequest)
  <2>1. /\ banScore' = banScore + 20 /\ conn' \in {conn, "closed"} /\ UNCHANGED peer
    BY <1>3 DEF HandleGetData
  <2>2. TypeOK'
    BY <1>1, <2>1 DEF IInv, TypeOK, peer
  <2>3. OneServer' /\ FlagIsTask' /\ StoppedOnDisconnect' /\ HandleIsTask'
    BY <1>1, <2>1
       DEF IInv, OneServer, FlagIsTask, StoppedOnDisconnect, HandleIsTask, Alive, peer
  <2> QED
    BY <2>2, <2>3 DEF IInv
<1> QED
  BY <1>2, <1>3

\* The other handlers, the chain and the end of the connection leave the task alone.
LEMMA OthersKeep ==
    ASSUME IInv, ChainChanges \/ (\E b \in Blocks : HandleGetBlockTxn(b)) \/ SendBlockTxn \/ Close
    PROVE  IInv'
<1>1. UNCHANGED <<banScore, peer>>
  BY DEF ChainChanges, HandleGetBlockTxn, SendBlockTxn, Close
<1>2. ledger' \in Seq(Blocks)
  <2>1. ledger \in Seq(Blocks) /\ (ledger' = ledger \/ L!Next)
    BY DEF ChainChanges, HandleGetBlockTxn, SendBlockTxn, Close, IInv, TypeOK
  <2> QED
    BY <2>1, LedgerTyped
<1>3. conn' = conn \/ (conn' = "closed" /\ conn = "open")
  BY DEF ChainChanges, HandleGetBlockTxn, SendBlockTxn, Close
<1>4. txnBlock' \in Blocks \cup {None} /\ answer' \in {<< >>} \cup (Blocks \X Blocks)
  <2>1. CASE SendBlockTxn
    <3>1. txnBlock \in Blocks /\ TypeOK
      BY <2>1 DEF SendBlockTxn, IInv, TypeOK
    <3> QED
      BY <2>1, <3>1, AnswerTyped DEF SendBlockTxn
  <2>2. CASE ~SendBlockTxn
    BY <2>2 DEF ChainChanges, HandleGetBlockTxn, Close, IInv, TypeOK
  <2> QED
    BY <2>1, <2>2
<1>5. TypeOK'
  BY <1>1, <1>2, <1>3, <1>4 DEF IInv, TypeOK, peer
<1>6. OneServer' /\ FlagIsTask' /\ StoppedOnDisconnect' /\ HandleIsTask'
  BY <1>1, <1>3 DEF IInv, OneServer, FlagIsTask, StoppedOnDisconnect, HandleIsTask, Alive, peer
<1> QED
  BY <1>5, <1>6 DEF IInv

\* A disconnect cancels the task it has the handle of, which is the one that runs.
LEMMA DisconnectKeeps ==
    ASSUME IInv, PeerDidDisconnect
    PROVE  IInv'
<1>1. tasks \in [Tasks -> TaskRecords]
  BY DEF IInv, TypeOK, TaskRecords
<1>2. /\ conn = "closed" /\ conn' = "gone" /\ blockServeTask' = None
      /\ UNCHANGED <<ledger, banScore, blockServeQueue, isServingBlocks, txnBlock, answer>>
      /\ tasks' = [t \in Tasks |-> IF t = blockServeTask /\ Alive(t)
                                   THEN [tasks[t] EXCEPT !.cancelled = TRUE] ELSE tasks[t]]
  BY DEF PeerDidDisconnect
<1>3. /\ tasks' \in [Tasks -> TaskRecords]
      /\ \A t \in Tasks : /\ tasks'[t].at = tasks[t].at /\ tasks'[t].batch = tasks[t].batch
                          /\ t = blockServeTask /\ Alive(t) => tasks'[t].cancelled
  BY <1>1, <1>2 DEF TaskRecords
<1>4. \A t \in Tasks : Alive(t)' <=> Alive(t)
  BY <1>3 DEF Alive
<1>5. \A t \in Tasks : tasks'[t].at = "load" => tasks'[t].batch # << >>
  BY <1>3 DEF IInv, TypeOK
<1>6. TypeOK'
  BY <1>2, <1>3, <1>5 DEF IInv, TypeOK, TaskRecords
<1>7. OneServer' /\ FlagIsTask' /\ StoppedOnDisconnect' /\ HandleIsTask'
  BY <1>2, <1>3, <1>4 DEF IInv, OneServer, FlagIsTask, StoppedOnDisconnect, HandleIsTask
<1> QED
  BY <1>6, <1>7 DEF IInv

\* Each step of a task.
LEMMA ServeKeeps ==
    ASSUME IInv, NEW t \in Tasks, Serve(t)
    PROVE  IInv'
<1>1. /\ tasks \in [Tasks -> TaskRecords] /\ tasks[t].batch \in Seq(Blocks)
      /\ blockServeQueue \in Seq(Blocks) /\ << >> \in Seq(Blocks)
      /\ answer \in {<< >>} \cup (Blocks \X Blocks)
  BY EmptySeq DEF IInv, TypeOK, TaskRecords
<1>2. CASE TakeBatch(t)
  <2>1. Alive(t) /\ answer' = answer /\ blockServeQueue' \in Seq(Blocks)
    BY <1>1, <1>2 DEF TakeBatch, Alive
  <2>2. \E at \in {"check", "exit"}, batch \in Seq(Blocks) : Task(t, at, batch)
    BY <1>1, <1>2 DEF TakeBatch
  <2> QED
    BY <1>1, <2>1, <2>2, TaskKeeps
<1>3. CASE CheckBlock(t)
  <2>1. Alive(t) /\ answer' = answer /\ blockServeQueue' = blockServeQueue
    BY <1>3 DEF CheckBlock, Alive
  <2>2. \/ Task(t, "take", << >>)
        \/ tasks[t].batch # << >> /\ Task(t, "load", tasks[t].batch)
        \/ tasks[t].batch # << >> /\ Task(t, "check", Tail(tasks[t].batch))
    BY <1>3 DEF CheckBlock
  <2> QED
    BY <1>1, <2>1, <2>2, BatchFacts, TaskKeeps
<1>4. CASE SendBlock(t)
  <2>1. Alive(t) /\ blockServeQueue' = blockServeQueue /\ tasks[t].batch # << >>
    BY <1>4 DEF SendBlock, Alive, IInv, TypeOK
  <2>2. Answer(Head(tasks[t].batch)) /\ Task(t, "check", Tail(tasks[t].batch))
    BY <1>4 DEF SendBlock
  <2>3. answer' \in {<< >>} \cup (Blocks \X Blocks)
    BY <1>1, <2>1, <2>2, BatchFacts, AnswerTyped DEF IInv
  <2> QED
    BY <1>1, <2>1, <2>2, <2>3, BatchFacts, TaskKeeps
<1>5. CASE EndTask(t)
  <2>1. /\ Alive(t) /\ isServingBlocks' = FALSE /\ tasks' = [tasks EXCEPT ![t] = NoTask]
        /\ UNCHANGED <<ledger, conn, banScore, blockServeQueue, blockServeTask, txnBlock, answer>>
    BY <1>5 DEF EndTask, Alive
  <2>2. NoTask \in TaskRecords /\ NoTask.at = "none"
    BY EmptySeq DEF NoTask, TaskRecords
  <2>3. /\ tasks' \in [Tasks -> TaskRecords] /\ tasks'[t].at = "none"
        /\ \A u \in Tasks : u # t => tasks'[u] = tasks[u]
    BY <1>1, <2>1, <2>2
  <2>4. \A u \in Tasks : ~Alive(u)'
    BY <2>1, <2>3 DEF Alive, IInv, OneServer
  <2>5. \A u \in Tasks : tasks'[u].at = "load" => tasks'[u].batch # << >>
    BY <2>3 DEF IInv, TypeOK
  <2>6. TypeOK'
    BY <2>1, <2>3, <2>5 DEF IInv, TypeOK, TaskRecords
  <2> QED
    BY <2>1, <2>4, <2>6 DEF IInv, OneServer, FlagIsTask, StoppedOnDisconnect, HandleIsTask
<1> QED
  BY <1>2, <1>3, <1>4, <1>5 DEF Serve

\* Every step preserves the invariant.
LEMMA NextInvariant ==
    ASSUME IInv, [Next]_vars
    PROVE  IInv'
<1>1. CASE UNCHANGED vars
  BY <1>1 DEF vars, peer, IInv, TypeOK, OneServer, FlagIsTask, StoppedOnDisconnect,
              HandleIsTask, Alive
<1>2. CASE \E items \in Requests : HandleGetData(items)
  BY <1>2, GetDataKeeps
<1>3. CASE ChainChanges \/ (\E b \in Blocks : HandleGetBlockTxn(b)) \/ SendBlockTxn \/ Close
  BY <1>3, OthersKeep
<1>4. CASE PeerDidDisconnect
  BY <1>4, DisconnectKeeps
<1>5. CASE \E t \in Tasks : Serve(t)
  BY <1>5, ServeKeeps
<1> QED
  BY <1>1, <1>2, <1>3, <1>4, <1>5 DEF Next

-----------------------------------------------------------------------------
(* The theorems *)

\* The strengthening holds in every reachable state.
THEOREM Invariance == Spec => []IInv
  BY InitInvariant, NextInvariant, PTL DEF Spec

\* Every variable has its type, and a block is only loaded for a request.
THEOREM TypeCorrect == Spec => []TypeOK
<1>1. IInv => TypeOK
  BY DEF IInv
<1> QED
  BY <1>1, Invariance, PTL

\* However the getdata of a peer interleave with a task that ends, there is one at most.
THEOREM AtMostOneServer == Spec => []OneServer
<1>1. IInv => OneServer
  BY DEF IInv
<1> QED
  BY <1>1, Invariance, PTL

\* isServingBlocks is set exactly while there is a task, so no peer is locked out.
THEOREM FlagTellsTask == Spec => []FlagIsTask
<1>1. IInv => FlagIsTask
  BY DEF IInv
<1> QED
  BY <1>1, Invariance, PTL

\* No task that was not cancelled outlives the connection.
THEOREM DisconnectStops == Spec => []StoppedOnDisconnect
<1>1. IInv => StoppedOnDisconnect
  BY DEF IInv
<1> QED
  BY <1>1, Invariance, PTL
=============================================================================
