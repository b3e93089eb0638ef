------------------------------ MODULE SoloNode ------------------------------
(***************************************************************************)
(* The single-sequencer consensus engine, src/internal/consensus/solo/     *)
(* node.go, with the goroutines it runs and the collaborators it talks to. *)
(*                                                                         *)
(*  client       Prepare: posts a TxWithResp and waits for the answers    *)
(*  listenEvent  the serializer: one handler per event of recvCh; a       *)
(*               handler that proposes a batch blocks on blockCh, so it    *)
(*               is split at postProposal (cont, proposal); a checkpoint   *)
(*               is split between len(batchDigestM) and the removal (ckpt) *)
(*  listenReadyBlock  turns a proposed batch into the block at height     *)
(*               lastExec+1, records batchDigestM and sends on commitC     *)
(*  executor     consumes commitC and calls ReportState (spec 4.6)         *)
(*  precheck     checks a transaction and admits it to the pool (spec 4.1) *)
(*  timers       Batch and NoTxBatch: a started timer posts one timeout    *)
(*               event and is then inactive (spec 4.4)                     *)
(* Channels are FIFO sequences; a send on a full channel blocks, which is  *)
(* a guard of the sending step.                                            *)
(***************************************************************************)
EXTENDS Naturals, Sequences, SequencesExt, FiniteSets, Functions, TLC, TxPool

CONSTANTS
  Txs,               \* transactions clients may submit, each once
  BadTxs,            \* the ones the pre-check rejects
  Applied,           \* config.Applied: height the node starts from
  InitEpoch,         \* epoch configuration read by NewNode
  EpochPeriod,       \* period of every later epoch
  CheckpointPeriods, \* checkpoint periods an epoch change may install
  EnableChoices,     \* EnableTimedGenEmptyBlock values an epoch change may install
  MaxBatches,        \* bound: the NoTxBatch timer fires only while fewer batches were formed
  RecvCap,           \* capacity of recvCh (maxChanSize)
  ChanCap,           \* capacity of blockCh, commitC and the pre-check queue
  MapRace            \* whether the unsynchronized batchDigestM accesses may collide

EpochConfigs == [startBlock : Nat, epochPeriod : Nat \ {0},
                 checkpoint : Nat \ {0}, enableGenEmptyBlock : BOOLEAN]

ASSUME /\ BadTxs \subseteq Txs /\ Applied \in Nat /\ InitEpoch \in EpochConfigs
       /\ EpochPeriod \in Nat \ {0} /\ CheckpointPeriods \subseteq Nat \ {0}
       /\ EnableChoices \subseteq BOOLEAN /\ MaxBatches \in Nat
       /\ RecvCap \in Nat \ {0} /\ ChanCap \in Nat \ {0} /\ MapRace \in BOOLEAN

Timers == {"Batch", "NoTxBatch"}

\* The events of recvCh.
ChainStateEv(h, changed) == [type |-> "chainState", height |-> h, epochChanged |-> changed]
TxEv(t) == [type |-> "tx", tx |-> t]
TimeoutEv(tm) == [type |-> "timeout", timer |-> tm]
GenBatchEv == [type |-> "genBatch"]

NoProposal == [digest |-> 0, txs |-> <<>>]
NoCkpt == [heights |-> {}, ev |-> ChainStateEv(0, FALSE)]

VARIABLES
  recvCh,        \* consensus events, FIFO
  preCh,         \* transactions posted to the pre-check
  pool,          \* the transaction pool (TxPool)
  blockCh,       \* proposed batches, FIFO
  batchDigestM,  \* block height -> batch digest
  lastExec,      \* height of the last block handed to the executor
  readyOut,      \* the block listenReadyBlock is sending on commitC (<<>> or one)
  commitC,       \* CommitEvents for the executor, FIFO
  timerActive,   \* timer name -> armed
  epcCnf,        \* epoch configuration
  cont,          \* what listenEvent is in the middle of: "none" (idle), the handler
                 \* blocked at postProposal, "checkpoint"; "panicked" once it crashed
  ckpt,          \* the checkpoint being handled: the heights its len() counted, its event
  proposal,      \* the batch that handler is posting
  client,        \* transaction -> Prepare status
  chain,         \* history: every block sent on commitC
  reportLog      \* history: the last height whose chainState was handled
                 \* (reported) and the last checkpoint height (stable)

vars == <<recvCh, preCh, pool, blockCh, batchDigestM, lastExec, readyOut,
          commitC, timerActive, epcCnf, cont, ckpt, proposal, client, chain, reportLog>>

-----------------------------------------------------------------------------
(* Collaborators modelled from the specification.                          *)

\* common.NeedChangeEpoch: the height is the last one of the epoch.
NeedChangeEpoch(h, e) == h = e.startBlock + e.epochPeriod - 1

\* getCurrentEpochInfoFunc after an epoch change: the epoch that follows.
\* node.go installs whatever the contract returns; the model takes only
\* positive checkpoint periods, since a zero one divides by zero at the
\* next chainState (node.go:245) and the contract is outside the repository.
NextEpochs(e) == [startBlock : {e.startBlock + e.epochPeriod}, epochPeriod : {EpochPeriod},
                  checkpoint : CheckpointPeriods, enableGenEmptyBlock : EnableChoices]

\* A started timer posts its timeout event and becomes inactive. The
\* NoTxBatch timer is bounded by MaxBatches.
Fire(tm) ==
  /\ timerActive[tm]
  /\ tm = "NoTxBatch" => pool.next <= MaxBatches
  /\ Len(recvCh) < RecvCap
  /\ recvCh' = Append(recvCh, TimeoutEv(tm))
  /\ timerActive' = [timerActive EXCEPT ![tm] = FALSE]
  /\ UNCHANGED <<preCh, pool, blockCh, batchDigestM, lastExec, readyOut, commitC,
                 epcCnf, cont, ckpt, proposal, client, chain, reportLog>>

\* The pre-check worker takes a transaction, answers CheckCh, and on success
\* admits it to the pool and answers PoolCh; a pool that reaches a full
\* batch calls notifyGenerateBatch, which posts a genBatchReq.
PreCheck ==
  /\ preCh # <<>>
  /\ LET t == Head(preCh)
         res == AddTxResult(pool, t)
         pool1 == AddLocalTx(pool, t)
     IN \/ /\ t \in BadTxs
           /\ client' = [client EXCEPT ![t] = "checkFailed"]
           /\ UNCHANGED <<pool, recvCh>>
        \/ /\ t \notin BadTxs /\ res # "Accepted"
           /\ client' = [client EXCEPT ![t] = "poolFailed"]
           /\ UNCHANGED <<pool, recvCh>>
        \/ /\ t \notin BadTxs /\ res = "Accepted"
           /\ client' = [client EXCEPT ![t] = "accepted"]
           /\ pool' = pool1
           /\ IF ReachedBatchSize(pool1)
              THEN Len(recvCh) < RecvCap /\ recvCh' = Append(recvCh, GenBatchEv)
              ELSE UNCHANGED recvCh
  /\ preCh' = Tail(preCh)
  /\ UNCHANGED <<blockCh, batchDigestM, lastExec, readyOut, commitC, timerActive,
                 epcCnf, cont, ckpt, proposal, chain, reportLog>>

-----------------------------------------------------------------------------
(* node.go                                                                 *)

\* NewNode and Start: the Batch timer runs, NoTxBatch when empty blocks are on.
Init ==
  /\ recvCh = <<>> /\ preCh = <<>> /\ blockCh = <<>> /\ commitC = <<>>
  /\ pool = EmptyPool
  /\ batchDigestM = [h \in {} |-> 0]
  /\ lastExec = Applied
  /\ readyOut = <<>>
  /\ timerActive = [Batch |-> TRUE, NoTxBatch |-> InitEpoch.enableGenEmptyBlock]
  /\ epcCnf = InitEpoch
  /\ cont = "none" /\ proposal = NoProposal /\ ckpt = NoCkpt
  /\ client = [t \in Txs |-> "idle"]
  /\ chain = <<>>
  /\ reportLog = [reported |-> Applied, stable |-> Applied]

\* Prepare: the node is started, so Ready passes; post the TxWithResp.
\* The answers arrive through client[t] when the pre-check is done.
Prepare(t) ==
  /\ client[t] = "idle"
  /\ Len(recvCh) < RecvCap
  /\ recvCh' = Append(recvCh, TxEv(t))
  /\ client' = [client EXCEPT ![t] = "waiting"]
  /\ UNCHANGED <<preCh, pool, blockCh, batchDigestM, lastExec, readyOut, commitC,
                 timerActive, epcCnf, cont, ckpt, proposal, chain, reportLog>>

\* ReportState, called by the executor once it has executed a block.
ReportState ==
  /\ commitC # <<>>
  /\ Len(recvCh) < RecvCap
  /\ LET h == Head(commitC).height IN
     recvCh' = Append(recvCh, ChainStateEv(h, NeedChangeEpoch(h, epcCnf)))
  /\ commitC' = Tail(commitC)
  /\ UNCHANGED <<preCh, pool, blockCh, batchDigestM, lastExec, readyOut,
                 timerActive, epcCnf, cont, ckpt, proposal, client, chain, reportLog>>

\* The event listenEvent handles next; handlers run one at a time.
Ev == Head(recvCh)
Idle == cont = "none" /\ recvCh # <<>>

IsCheckpoint(h) == h % epcCnf.checkpoint = 0

\* Mutant: only the digests up to the reported height are removed, although
\* every height counted is deleted from the map.
CheckpointDigestsUpToHeight(hs) == {batchDigestM[h] : h \in {x \in hs : x <= ckpt.ev.height}}

Gathered(hs) == hs

\* The digests recorded for the heights the checkpoint counted, flattened
\* in height order (a set here: RemoveBatches takes them all).
CheckpointDigests(hs) == {batchDigestM[h] : h \in hs}

\* The epoch part of chainState: on an epoch change fetch the new epoch (on
\* error log and continue, skipping the rest) and start NoTxBatch if empty
\* blocks are now on and it is not active. lg is the history so far.
EpochUpdate(ev, lg) ==
  /\ reportLog' = [lg EXCEPT !.reported = ev.height]
  /\ IF ev.epochChanged
     THEN \/ UNCHANGED <<epcCnf, timerActive>>
          \/ \E e \in NextEpochs(epcCnf) :
               /\ epcCnf' = e
               /\ timerActive' = [timerActive EXCEPT !.NoTxBatch = @ \/ e.enableGenEmptyBlock]
     ELSE UNCHANGED <<epcCnf, timerActive>>

\* chainState: at a checkpoint height, size digestList by len(batchDigestM)
\* and go on to the removal (CheckpointRemove), which listenReadyBlock may
\* race; otherwise only the epoch part runs.
HandleChainState ==
  /\ Idle /\ Ev.type = "chainState"
  /\ IF IsCheckpoint(Ev.height)
     THEN /\ cont' = "checkpoint"
          /\ ckpt' = [heights |-> DOMAIN batchDigestM, ev |-> Ev]
          /\ UNCHANGED <<epcCnf, timerActive, reportLog>>
     ELSE /\ EpochUpdate(Ev, reportLog)
          /\ UNCHANGED <<cont, ckpt>>
  /\ recvCh' = Tail(recvCh)
  /\ UNCHANGED <<preCh, pool, blockCh, batchDigestM, lastExec, readyOut, commitC,
                 proposal, client, chain>>

\* The rest of the checkpoint: range over batchDigestM, fill digestList by
\* index, delete each height, RemoveBatches, then the epoch part. The map
\* is written by listenReadyBlock without a lock: a height it added since
\* len() that the range sees overflows digestList (index out of range), and
\* Go may also abort on the concurrent map access; either ends the process.
CheckpointRemove ==
  /\ cont = "checkpoint"
  /\ LET added == DOMAIN batchDigestM \ ckpt.heights IN
     \/ /\ MapRace /\ added # {}
        /\ cont' = "panicked"
        /\ UNCHANGED <<pool, batchDigestM, epcCnf, timerActive, reportLog, ckpt>>
     \/ LET gone == Gathered(ckpt.heights) IN
        /\ pool' = RemoveBatches(pool, CheckpointDigests(gone))
        /\ batchDigestM' = [h \in DOMAIN batchDigestM \ gone |-> batchDigestM[h]]
        /\ EpochUpdate(ckpt.ev, [reportLog EXCEPT !.stable = ckpt.ev.height])
        /\ cont' = "none" /\ ckpt' = NoCkpt
  /\ UNCHANGED <<recvCh, preCh, blockCh, lastExec, readyOut, commitC, proposal, client, chain>>

\* TxWithResp: hand the transaction to the pre-check.
HandleTxWithResp ==
  /\ Idle /\ Ev.type = "tx"
  /\ Len(preCh) < ChanCap
  /\ preCh' = Append(preCh, Ev.tx)
  /\ recvCh' = Tail(recvCh)
  /\ UNCHANGED <<pool, blockCh, batchDigestM, lastExec, readyOut, commitC,
                 timerActive, epcCnf, cont, ckpt, proposal, client, chain, reportLog>>

\* Start a handler's proposal: form the batch and block at postProposal.
Propose(typ, k) ==
  /\ pool' = GenerateRequestBatch(pool, typ)
  /\ proposal' = NewBatch(pool, typ)
  /\ cont' = k

\* processBatchTimeout(Batch): stop Batch; with pending transactions stop
\* NoTxBatch and propose a batch. The deferred restarts run after the post
\* (AfterBatchTimeout) or at once when nothing is proposed.
HandleBatchTimeout ==
  /\ Idle /\ Ev = TimeoutEv("Batch")
  /\ IF HasPendingRequestInPool(pool)
     THEN /\ Propose(GenBatchTimeoutEvent, "batchTimeout")
          /\ timerActive' = [tm \in Timers |-> FALSE]
     ELSE /\ timerActive' = [timerActive EXCEPT !.Batch = TRUE]
          /\ UNCHANGED <<pool, proposal, cont>>
  /\ recvCh' = Tail(recvCh)
  /\ UNCHANGED <<preCh, blockCh, batchDigestM, lastExec, readyOut, commitC, epcCnf, ckpt, client, chain, reportLog>>

\* Restart NoTxBatch if empty blocks are on.
RestartNoTxIfEnabled(t) == [t EXCEPT !.NoTxBatch = @ \/ epcCnf.enableGenEmptyBlock]

\* processBatchTimeout(NoTxBatch): stop it; skip if the pool has pending
\* transactions, else ask for an empty batch (an error when the pool is not
\* timed). The deferred restart runs after the post or at once.
HandleNoTxTimeout ==
  /\ Idle /\ Ev = TimeoutEv("NoTxBatch")
  /\ LET stopped == [timerActive EXCEPT !.NoTxBatch = FALSE] IN
     IF ProducesBatch(pool, GenBatchNoTxTimeoutEvent)
     THEN /\ Propose(GenBatchNoTxTimeoutEvent, "noTxTimeout")
          /\ timerActive' = stopped
     ELSE /\ timerActive' = RestartNoTxIfEnabled(stopped)
          /\ UNCHANGED <<pool, proposal, cont>>
  /\ recvCh' = Tail(recvCh)
  /\ UNCHANGED <<preCh, blockCh, batchDigestM, lastExec, readyOut, commitC, epcCnf, ckpt, client, chain, reportLog>>

\* genBatchReq: stop both timers and generate; without a batch only Batch
\* is restarted.
HandleGenBatch ==
  /\ Idle /\ Ev = GenBatchEv
  /\ IF ProducesBatch(pool, GenBatchSizeEvent)
     THEN /\ Propose(GenBatchSizeEvent, "genBatch")
          /\ timerActive' = [tm \in Timers |-> FALSE]
     ELSE /\ timerActive' = [Batch |-> TRUE, NoTxBatch |-> FALSE]
          /\ UNCHANGED <<pool, proposal, cont>>
  /\ recvCh' = Tail(recvCh)
  /\ UNCHANGED <<preCh, blockCh, batchDigestM, lastExec, readyOut, commitC, epcCnf, ckpt, client, chain, reportLog>>

\* Mutant: the deferred restart of the Batch timer is lost.
AfterBatchTimeoutNoRestart(t) ==
  [Batch |-> FALSE,
   NoTxBatch |-> t.NoTxBatch \/ (HasPendingRequestInPool(pool) /\ epcCnf.enableGenEmptyBlock)]

\* What each handler does after its postProposal returns.
\* Batch timeout: the deferred restarts; NoTxBatch only if the pool still
\* has pending transactions and empty blocks are on.
AfterBatchTimeout(t) ==
  [Batch |-> TRUE,
   NoTxBatch |-> t.NoTxBatch \/ (HasPendingRequestInPool(pool) /\ epcCnf.enableGenEmptyBlock)]

\* No-tx timeout: restart NoTxBatch if empty blocks are on.
AfterNoTxTimeout(t) == RestartNoTxIfEnabled(t)

\* genBatchReq: restart NoTxBatch when the pool has no pending transaction
\* left and empty blocks are on; always restart Batch.
AfterGenBatch(t) ==
  [Batch |-> TRUE,
   NoTxBatch |-> t.NoTxBatch \/ (epcCnf.enableGenEmptyBlock /\ ~HasPendingRequestInPool(pool))]

AfterProposal(k, t) ==
  CASE k = "batchTimeout" -> AfterBatchTimeout(t)
    [] k = "noTxTimeout"  -> AfterNoTxTimeout(t)
    [] k = "genBatch"     -> AfterGenBatch(t)

\* listenEvent is blocked in a handler's postProposal.
Posting == cont \in {"batchTimeout", "noTxTimeout", "genBatch"}

\* Mutant: the handler does not leave the posting state and posts again.
PostProposalTwice ==
  /\ Posting
  /\ Len(blockCh) < ChanCap
  /\ blockCh' = Append(blockCh, proposal)
  /\ timerActive' = AfterProposal(cont, timerActive)
  /\ UNCHANGED <<recvCh, preCh, pool, batchDigestM, lastExec, readyOut, commitC,
                 epcCnf, client, chain, reportLog, cont, ckpt, proposal>>

\* postProposal returns once blockCh has room; the handler then finishes.
PostProposal ==
  /\ Posting
  /\ Len(blockCh) < ChanCap
  /\ blockCh' = Append(blockCh, proposal)
  /\ timerActive' = AfterProposal(cont, timerActive)
  /\ cont' = "none" /\ proposal' = NoProposal
  /\ UNCHANGED <<recvCh, preCh, pool, batchDigestM, lastExec, readyOut, commitC,
                 epcCnf, ckpt, client, chain, reportLog>>

\* Mutant: lastExec is not advanced after the block is built.
ReadyBlockNoAdvance ==
  /\ readyOut = <<>> /\ blockCh # <<>>
  /\ LET b == Head(blockCh)
         h == lastExec + 1
     IN /\ batchDigestM' = batchDigestM @@ (h :> b.digest)
        /\ lastExec' = lastExec
        /\ readyOut' = <<[height |-> h, txs |-> b.txs]>>
  /\ blockCh' = Tail(blockCh)
  /\ UNCHANGED <<recvCh, preCh, pool, commitC, timerActive, epcCnf, cont, ckpt, proposal, client, chain, reportLog>>

\* listenReadyBlock: the block at lastExec+1 carries the batch; record its
\* digest and advance lastExec before the send on commitC.
ReadyBlock ==
  /\ readyOut = <<>> /\ blockCh # <<>>
  /\ LET b == Head(blockCh)
         h == lastExec + 1
     IN /\ batchDigestM' = batchDigestM @@ (h :> b.digest)
        /\ lastExec' = h
        /\ readyOut' = <<[height |-> h, txs |-> b.txs]>>
  /\ blockCh' = Tail(blockCh)
  /\ UNCHANGED <<recvCh, preCh, pool, commitC, timerActive, epcCnf, cont, ckpt, proposal, client, chain, reportLog>>

\* n.commitC <- executeEvent
SendCommit ==
  /\ readyOut # <<>>
  /\ Len(commitC) < ChanCap
  /\ commitC' = Append(commitC, Head(readyOut))
  /\ chain' = Append(chain, Head(readyOut))
  /\ readyOut' = <<>>
  /\ UNCHANGED <<recvCh, preCh, pool, blockCh, batchDigestM, lastExec, timerActive,
                 epcCnf, cont, ckpt, proposal, client, reportLog>>

ListenEvent ==
  HandleChainState \/ CheckpointRemove \/ HandleTxWithResp \/ HandleBatchTimeout
  \/ HandleNoTxTimeout \/ HandleGenBatch \/ PostProposal

\* A panic in listenEvent ends the process: no goroutine takes a step.
Crashed ==
  /\ cont = "panicked"
  /\ UNCHANGED vars

Next ==
  \/ Crashed
  \/ /\ cont # "panicked"
     /\ \/ \E t \in Txs : Prepare(t)
        \/ PreCheck
        \/ ListenEvent
        \/ ReadyBlock \/ SendCommit
        \/ ReportState
        \/ \E tm \in Timers : Fire(tm)

\* Every goroutine that can go on eventually does; a started timer fires.
\* A send on recvCh is enabled only while it has room, and Go hands a full
\* channel to its blocked senders in FIFO order, so the senders on recvCh
\* (timers, the executor's ReportState, the pre-check's notification) are
\* strongly fair.
Fairness ==
  /\ WF_vars(ListenEvent)
  /\ SF_vars(PreCheck)
  /\ WF_vars(ReadyBlock) /\ WF_vars(SendCommit)
  /\ SF_vars(ReportState)
  /\ \A tm \in Timers : SF_vars(Fire(tm))

Spec == Init /\ [][Next]_vars /\ Fairness

-----------------------------------------------------------------------------
(* Properties                                                              *)

\* The batches the pool holds are exactly those the node still tracks: being
\* posted by a handler, queued on blockCh, or recorded in batchDigestM. A
\* batch the node forgets is never removed by a checkpoint (a leak); one it
\* removes while still queued would leave a block whose batch is gone.
PoolBatchesTracked ==
  DOMAIN pool.batches =
    {b.digest : b \in ToSet(blockCh)} \cup Range(batchDigestM)
    \cup (IF Posting THEN {proposal.digest} ELSE {})

NoTxCommittedTwice ==
  \A i, j \in DOMAIN chain :
    i # j => ToSet(chain[i].txs) \cap ToSet(chain[j].txs) = {}

\* listenEvent is blocked on a send (to the full pre-check queue, or to a
\* full blockCh in postProposal) and no goroutine of the node can move:
\* the node has stopped for good (node.go:305 and 458, solo_deadlock).
Deadlocked ==
  /\ (Idle /\ Ev.type = "tx" /\ Len(preCh) = ChanCap) \/ (Posting /\ Len(blockCh) = ChanCap)
  /\ ~ENABLED (PreCheck \/ ReadyBlock \/ SendCommit \/ ReportState \/ \E tm \in Timers : Fire(tm))

\* Every transaction the pool accepted is eventually committed in a block,
\* unless the node deadlocks on its full channels: the Batch timer is
\* re-armed by every handler that stops it, so pending transactions are
\* batched, posted, built and executed. (Empty blocks and the NoTxBatch
\* timer are not what this is about.)
AcceptedTxCommitted ==
  \A t \in Txs :
    [](client[t] = "accepted" => <>((\E i \in DOMAIN chain : Contains(chain[i].txs, t)) \/ Deadlocked))

\* Once every reported height has been handled, the epoch configuration is
\* the epoch of the last reported height (an epoch is a contiguous range of
\* heights, spec glossary). ReportState decides epochChanged from epcCnf,
\* so it must not see an epoch that listenEvent has not yet moved past;
\* and a failed getCurrentEpochInfoFunc, which listenEvent logs and
\* skips, must not leave the node in an epoch whose heights have passed.
EpochFollowsHeight ==
  (/\ ~\E i \in DOMAIN recvCh : recvCh[i].type = "chainState"
   /\ cont # "checkpoint")
  => reportLog.reported <= epcCnf.startBlock + epcCnf.epochPeriod - 1

\* Every Prepare returns: the client posting a TxWithResp eventually gets
\* its pre-check and pool answers (spec 5: a blocked Prepare resolves).
PrepareReturns ==
  \A t \in Txs : [](client[t] = "waiting" => <>(client[t] # "waiting"))

\* The refinement mapping to SoloLog: the batches ordered so far are those
\* committed, then the one listenReadyBlock is sending, those queued on
\* blockCh, and the one a handler is posting, in that order.
BatchLog ==
  [i \in DOMAIN chain |-> chain[i].txs]
  \o [i \in DOMAIN readyOut |-> readyOut[i].txs]
  \o [i \in DOMAIN blockCh |-> blockCh[i].txs]
  \o (IF Posting THEN <<proposal.txs>> ELSE <<>>)

Abstract == INSTANCE SoloLog WITH log <- BatchLog, blocks <- chain

\* The engine implements SoloLog: every proposed batch is fresh, distinct
\* and at most BlockMaxTxNum long, and the blocks sent on commitC carry
\* those batches in proposal order at heights Applied+1, Applied+2, ...
\* (the handlers' single postProposal, the pool's batching and
\* listenReadyBlock's lastExec+1 together keep this).
SoloRefinesLog == Abstract!Spec

\* listenEvent never panics: a checkpoint's flattening of batchDigestM must
\* not see a block that listenReadyBlock records after len() was taken.
ListenEventNeverPanics == cont # "panicked"

=============================================================================
