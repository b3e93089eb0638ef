------------------------------ MODULE RbftNode ------------------------------
(***************************************************************************)
(* The BFT order node of src/pkg/order/rbft/node.go and the goroutines it  *)
(* talks to.                                                               *)
(*                                                                         *)
(*  clients   Prepare: Ready, the cache-full check, a TxWithResp on        *)
(*            TxRespC, the transaction on recvTxC, then wait on its Ch     *)
(*  loop      the goroutine Start launches: ReadyC -> blockC, txSetC ->    *)
(*            Broadcast, TxRespC -> Propose and answer Ch, ctx.Done ->     *)
(*            n.n.Stop and return; Go picks one ready case at random       *)
(*  cache     TxCache.listenEvent: collects recvTxC into transaction sets  *)
(*            posted on txSetC                                             *)
(*  executor  consumes blockC and calls ReportState                        *)
(*  core      the axiom-bft node and its adaptor (spec 4.6): status,       *)
(*            Execute (publish the next height on ReadyC once the last     *)
(*            one was acknowledged), StateUpdate (catch-up to a height)    *)
(* TxCache, the core and the adaptor are outside this repository; they are *)
(* modelled from the specification. TxRespC, txSetC and each Ch are        *)
(* unbuffered: a send is a rendezvous with the receiving step.            *)
(***************************************************************************)
EXTENDS Naturals, Sequences, FiniteSets

CONSTANTS
  Txs,          \* transactions local clients Prepare, each once
  RemoteTxs,    \* transaction sets peers push through SubmitTxsFromRemote
  NodeCounts,   \* validator set sizes len(stack.Nodes) the quorum is checked for
  Nodes,        \* len(stack.Nodes) of the modelled node
  Applied,      \* config.Applied: the height the node starts from
  MaxHeight,    \* bound: the core publishes heights up to this one
  CacheCap,     \* capacity of recvTxC
  TxSetSize,    \* a transaction set is posted once it holds this many
  BlockCCap,    \* capacity of blockC (1024)
  NoTx          \* none

ASSUME /\ NodeCounts \subseteq Nat \ {0} /\ Nodes \in NodeCounts
       /\ Applied \in Nat /\ MaxHeight \in Nat /\ Applied < MaxHeight
       /\ CacheCap \in Nat \ {0} /\ TxSetSize \in Nat \ {0} /\ BlockCCap \in Nat \ {0}
       /\ NoTx \notin Txs

\* rbft status values; "Stopped" once n.n.Stop ran.
Statuses == {"Pending", "Normal", "PoolFull", "InViewChange", "Stopped"}
Heights == Applied .. MaxHeight

VARIABLES
  connected,   \* peerMgr.CountConnectedPeers()
  started,     \* Start passed checkQuorum: the goroutines and the core run
  status,      \* n.n.Status().Status
  client,      \* transaction -> where its Prepare is
  recvTxC,     \* TxCache.recvTxC, FIFO
  cacheSet,    \* the transaction set TxCache is collecting
  cachePc,     \* "listen", "posting" (blocked on txSetC), "closed"
  loopPc,      \* "select", "sendBlock" (blocked on blockC <- commitEvent),
               \* "respond" (blocked on Ch <- true), "exited"
  respTo,      \* the client the loop answers
  outBlock,    \* the height of the CommitEvent the loop is sending
  proposed,    \* transactions handed to n.n.Propose
  broadcast,   \* transactions pushed to peers
  readyC,      \* adaptor.ReadyC: heights published by Execute
  blockC,      \* CommitEvents for the executor, FIFO
  published,   \* the last height the adaptor published or caught up to
  ledgerH,     \* the executor's ledger height
  coreH,       \* the last height the core was told (ReportExecuted, ReportStateUpdated)
  ckpts,       \* heights reported by ReportStableCheckpointFinished
  updating,    \* adaptor.StateUpdating
  updateHeight,\* adaptor.StateUpdateHeight
  updatedAt,   \* the last height of ReportStateUpdated (Applied if none)
  stopped,     \* Stop was called: ctx cancelled and txCache.close closed
  remote       \* remote sets already submitted

vars == <<connected, started, status, client, recvTxC, cacheSet, cachePc, loopPc, respTo, outBlock,
          proposed, broadcast, readyC, blockC, published, ledgerH, coreH, ckpts, updating,
          updateHeight, updatedAt, stopped, remote>>

coreVars == <<coreH, ckpts, updating, updateHeight, updatedAt>>

-----------------------------------------------------------------------------
(* node.go                                                                 *)

\* Quorum: N validators tolerate f = (N-1)/3 faults; a quorum is (N+f+2)/2.
FaultBound(n) == (n - 1) \div 3
Quorum(n) == (n + FaultBound(n) + 2) \div 2

\* The quorum Quorum computes is a BFT quorum for every validator set size:
\* two quorums share at least f+1 nodes, so a correct node, and N-f nodes,
\* the ones that answer when f are faulty, still form a quorum. TLC checks
\* this assumption over NodeCounts in every run of this module.
QuorumSound ==
  \A n \in NodeCounts :
    /\ 2 * Quorum(n) - n >= FaultBound(n) + 1
    /\ Quorum(n) <= n - FaultBound(n)

ASSUME QuorumSound

\* checkQuorum: the connected peers and this node reach the quorum.
CheckQuorum == connected + 1 >= Quorum(Nodes)

\* Ready: the core's status is Normal.
Ready == status = "Normal"

\* newNode: the core is told the applied height; nothing runs before Start.
Init ==
  /\ connected \in 0 .. Nodes - 1
  /\ started = FALSE /\ status = "Pending"
  /\ client = [t \in Txs |-> "idle"]
  /\ recvTxC = <<>> /\ cacheSet = {} /\ cachePc = "listen"
  /\ loopPc = "select" /\ respTo = NoTx /\ outBlock = Applied
  /\ proposed = {} /\ broadcast = {} /\ remote = {}
  /\ readyC = <<>> /\ blockC = <<>> /\ published = Applied /\ ledgerH = Applied
  /\ coreH = Applied /\ ckpts = {} /\ updating = FALSE
  /\ updateHeight = Applied /\ updatedAt = Applied
  /\ stopped = FALSE

\* Start: retry checkQuorum every second until connected+1 reaches the
\* quorum, then launch the cache and the loop and start the core.
Start ==
  /\ ~started
  /\ CheckQuorum
  /\ started' = TRUE
  /\ status' = IF stopped THEN status ELSE "Normal"
  /\ UNCHANGED <<connected, client, recvTxC, cacheSet, cachePc, loopPc, respTo, outBlock, proposed,
                 broadcast, readyC, blockC, published, ledgerH, coreH, ckpts, updating,
                 updateHeight, updatedAt, stopped, remote>>

\* Stop: cancel the context and close txCache.close.
Stop ==
  /\ ~stopped
  /\ stopped' = TRUE
  /\ UNCHANGED <<connected, started, status, client, recvTxC, cacheSet, cachePc, loopPc,
                 respTo, outBlock, proposed, broadcast, readyC, blockC, published, ledgerH, coreVars, remote>>

Running == started /\ loopPc # "exited"

\* Prepare, first half: Ready reads the status; anything but Normal is
\* returned as an error.
PrepareReady(t) ==
  /\ client[t] = "idle"
  /\ client' = [client EXCEPT ![t] = IF Ready THEN "ready" ELSE "notReady"]
  /\ UNCHANGED <<connected, started, status, recvTxC, cacheSet, cachePc, loopPc, respTo, outBlock,
                 proposed, broadcast, readyC, blockC, published, ledgerH, coreVars, stopped, remote>>

\* Prepare: the status is read again; a full cache while the pool is full
\* rejects the transaction, else the TxWithResp is offered on TxRespC.
PrepareCheckFull(t) ==
  /\ client[t] = "ready"
  /\ client' = [client EXCEPT ![t] =
                  IF Len(recvTxC) = CacheCap /\ status = "PoolFull" THEN "cacheFull" ELSE "sendResp"]
  /\ UNCHANGED <<connected, started, status, recvTxC, cacheSet, cachePc, loopPc, respTo, outBlock,
                 proposed, broadcast, readyC, blockC, published, ledgerH, coreVars, stopped, remote>>

\* Prepare: once the loop took the TxWithResp, send the transaction on recvTxC.
PrepareSendRecv(t) ==
  /\ client[t] = "sendRecv"
  /\ Len(recvTxC) < CacheCap
  /\ recvTxC' = Append(recvTxC, t)
  /\ client' = [client EXCEPT ![t] = "waitCh"]
  /\ UNCHANGED <<connected, started, status, cacheSet, cachePc, loopPc, respTo, outBlock,
                 proposed, broadcast, readyC, blockC, published, ledgerH, coreVars, stopped, remote>>

\* loop, case ReadyC: take the committed batch and build its CommitEvent.
LoopReady ==
  /\ Running /\ loopPc = "select"
  /\ readyC # <<>>
  /\ outBlock' = Head(readyC) /\ loopPc' = "sendBlock"
  /\ readyC' = Tail(readyC)
  /\ UNCHANGED <<connected, started, status, client, recvTxC, cacheSet, cachePc,
                 respTo, proposed, broadcast, blockC, published, ledgerH, coreVars, stopped, remote>>

\* n.blockC <- commitEvent: the loop waits here for room, whatever else
\* is ready, and returns to select.
LoopSendBlock ==
  /\ loopPc = "sendBlock"
  /\ Len(blockC) < BlockCCap
  /\ blockC' = Append(blockC, outBlock)
  /\ loopPc' = "select"
  /\ UNCHANGED <<connected, started, status, client, recvTxC, cacheSet, cachePc, respTo, outBlock,
                 proposed, broadcast, readyC, published, ledgerH, coreVars, stopped, remote>>

\* loop, case txSetC: marshal the set and Broadcast it; an error is logged.
LoopTxSet ==
  /\ Running /\ loopPc = "select"
  /\ cachePc = "posting"
  /\ \/ broadcast' = broadcast \cup cacheSet
     \/ UNCHANGED broadcast
  /\ cacheSet' = {} /\ cachePc' = "listen"
  /\ UNCHANGED <<connected, started, status, client, recvTxC, loopPc, respTo, outBlock, proposed,
                 readyC, blockC, published, ledgerH, coreVars, stopped, remote>>

\* loop, case TxRespC: Propose the transaction, then answer on its Ch.
LoopTxResp(t) ==
  /\ Running /\ loopPc = "select"
  /\ client[t] = "sendResp"
  /\ proposed' = proposed \cup {t}
  /\ client' = [client EXCEPT ![t] = "sendRecv"]
  /\ loopPc' = "respond" /\ respTo' = t
  /\ UNCHANGED <<connected, started, status, recvTxC, cacheSet, cachePc, outBlock, broadcast,
                 readyC, blockC, published, ledgerH, coreVars, stopped, remote>>

\* txWithResp.Ch <- true: the client waiting on Ch returns nil.
LoopRespond ==
  /\ loopPc = "respond"
  /\ client[respTo] = "waitCh"
  /\ client' = [client EXCEPT ![respTo] = "returned"]
  /\ loopPc' = "select" /\ respTo' = NoTx
  /\ UNCHANGED <<connected, started, status, recvTxC, cacheSet, cachePc, outBlock, proposed,
                 broadcast, readyC, blockC, published, ledgerH, coreVars, stopped, remote>>

\* loop, case ctx.Done: stop the core and return.
LoopDone ==
  /\ Running /\ loopPc = "select"
  /\ stopped
  /\ status' = "Stopped" /\ loopPc' = "exited"
  /\ UNCHANGED <<connected, started, client, recvTxC, cacheSet, cachePc, respTo, outBlock, proposed,
                 broadcast, readyC, blockC, published, ledgerH, coreVars, stopped, remote>>

\* SubmitTxsFromRemote: the pushed set is proposed to the core.
SubmitTxsFromRemote(s) ==
  /\ s \notin remote
  /\ remote' = remote \cup {s}
  /\ proposed' = proposed \cup s
  /\ UNCHANGED <<connected, started, status, client, recvTxC, cacheSet, cachePc, loopPc,
                 respTo, outBlock, broadcast, readyC, blockC, published, ledgerH, coreVars, stopped>>

\* Mutant: during a state update every height is taken for the target.
ReportStateNoHeightCheck(h) ==
  \/ /\ updating
     /\ updatedAt' = h /\ coreH' = h /\ updating' = FALSE
     /\ UNCHANGED <<ckpts, updateHeight>>
  \/ /\ ~updating
     /\ ckpts' = IF h % 10 = 0 THEN ckpts \cup {h} ELSE ckpts
     /\ coreH' = h
     /\ UNCHANGED <<updating, updateHeight, updatedAt>>

\* ReportState, called by the executor for height h. During a state update
\* only the target height is reported (ReportStateUpdated, which ends the
\* update); otherwise every tenth height is a stable checkpoint and the
\* height is reported executed.
ReportState(h) ==
  \/ /\ updating /\ updateHeight # h
     /\ UNCHANGED coreVars
  \/ /\ updating /\ updateHeight = h
     /\ updatedAt' = h /\ coreH' = h /\ updating' = FALSE
     /\ UNCHANGED <<ckpts, updateHeight>>
  \/ /\ ~updating
     /\ ckpts' = IF h % 10 = 0 THEN ckpts \cup {h} ELSE ckpts
     /\ coreH' = h
     /\ UNCHANGED <<updating, updateHeight, updatedAt>>

-----------------------------------------------------------------------------
(* Collaborators modelled from the specification.                          *)

\* Peers connect and disconnect.
PeerChange ==
  /\ \E c \in 0 .. Nodes - 1 : c # connected /\ connected' = c
  /\ UNCHANGED <<started, status, client, recvTxC, cacheSet, cachePc, loopPc, respTo, outBlock,
                 proposed, broadcast, readyC, blockC, published, ledgerH, coreVars, stopped, remote>>

\* The core's status moves while it runs (pool full, view change).
StatusChange ==
  /\ started /\ status # "Stopped"
  /\ \E s \in {"Normal", "PoolFull"} : s # status /\ status' = s
  /\ UNCHANGED <<connected, started, client, recvTxC, cacheSet, cachePc, loopPc, respTo, outBlock,
                 proposed, broadcast, readyC, blockC, published, ledgerH, coreVars, stopped, remote>>

\* TxCache.listenEvent takes a transaction; a full set is posted.
CacheRecv ==
  /\ cachePc = "listen" /\ started /\ ~stopped
  /\ recvTxC # <<>>
  /\ cacheSet' = cacheSet \cup {Head(recvTxC)}
  /\ recvTxC' = Tail(recvTxC)
  /\ cachePc' = IF Cardinality(cacheSet') >= TxSetSize THEN "posting" ELSE "listen"
  /\ UNCHANGED <<connected, started, status, client, loopPc, respTo, outBlock, proposed, broadcast,
                 readyC, blockC, published, ledgerH, coreVars, stopped, remote>>

\* The cache's timer posts a set that is not full.
CacheTick ==
  /\ cachePc = "listen" /\ started /\ ~stopped
  /\ cacheSet # {}
  /\ cachePc' = "posting"
  /\ UNCHANGED <<connected, started, status, client, recvTxC, cacheSet, loopPc, respTo, outBlock,
                 proposed, broadcast, readyC, blockC, published, ledgerH, coreVars, stopped, remote>>

\* listenEvent returns once txCache.close is closed.
CacheClose ==
  /\ cachePc = "listen" /\ stopped
  /\ cachePc' = "closed"
  /\ UNCHANGED <<connected, started, status, client, recvTxC, cacheSet, loopPc, respTo, outBlock,
                 proposed, broadcast, readyC, blockC, published, ledgerH, coreVars, stopped, remote>>

\* Execute: the adaptor publishes the next height once the executor has
\* acknowledged the last one, and drops it during a state update.
Execute ==
  /\ started /\ status # "Stopped" /\ ~updating
  /\ published = coreH /\ published < MaxHeight
  /\ readyC' = Append(readyC, published + 1)
  /\ published' = published + 1
  /\ UNCHANGED <<connected, started, status, client, recvTxC, cacheSet, cachePc, loopPc,
                 respTo, outBlock, proposed, broadcast, blockC, ledgerH, coreVars, stopped, remote>>

\* StateUpdate: the core learns it is behind and starts a catch-up.
StateUpdate ==
  /\ started /\ status # "Stopped" /\ ~updating
  /\ \E target \in published + 1 .. MaxHeight :
       /\ updating' = TRUE /\ updateHeight' = target
  /\ UNCHANGED <<connected, started, status, client, recvTxC, cacheSet, cachePc, loopPc,
                 respTo, outBlock, proposed, broadcast, readyC, blockC, published, ledgerH, coreH, ckpts,
                 updatedAt, stopped, remote>>

\* The catch-up completes: the executor has the ledger at the target and
\* calls ReportState for it.
SyncDone ==
  /\ updating /\ published < updateHeight
  /\ published' = updateHeight /\ ledgerH' = updateHeight
  /\ ReportState(updateHeight)
  /\ UNCHANGED <<connected, started, status, client, recvTxC, cacheSet, cachePc, loopPc,
                 respTo, outBlock, proposed, broadcast, readyC, blockC, stopped, remote>>

\* The executor takes the next CommitEvent: the block after its ledger
\* height is executed and reported with ReportState (heights reach
\* ReportState in order, spec 5); a block the catch-up already covered is
\* dropped.
ExecBlock ==
  /\ blockC # <<>>
  /\ LET h == Head(blockC) IN
     \/ /\ h = ledgerH + 1
        /\ ledgerH' = h
        /\ ReportState(h)
     \/ /\ h <= ledgerH
        /\ UNCHANGED <<ledgerH, coreVars>>
  /\ blockC' = Tail(blockC)
  /\ UNCHANGED <<connected, started, status, client, recvTxC, cacheSet, cachePc, loopPc,
                 respTo, outBlock, proposed, broadcast, readyC, published, stopped, remote>>

Loop == LoopReady \/ LoopSendBlock \/ LoopTxSet \/ (\E t \in Txs : LoopTxResp(t)) \/ LoopRespond \/ LoopDone

Next ==
  \/ Start \/ Stop
  \/ \E t \in Txs : PrepareReady(t) \/ PrepareCheckFull(t) \/ PrepareSendRecv(t)
  \/ Loop
  \/ \E s \in RemoteTxs : SubmitTxsFromRemote(s)
  \/ PeerChange \/ StatusChange
  \/ CacheRecv \/ CacheTick \/ CacheClose
  \/ Execute \/ StateUpdate \/ SyncDone \/ ExecBlock

\* Go's select takes each ready case with equal probability, so a case
\* enabled again and again is eventually taken: strong fairness per case of
\* the loop and of the cache. A client goroutine runs while it can; the
\* executor keeps consuming blockC and a catch-up finishes. Peers, the
\* core's status, Stop and the core's publishing get no fairness.
Fairness ==
  /\ \A t \in Txs : WF_vars(PrepareReady(t)) /\ WF_vars(PrepareCheckFull(t))
                    /\ SF_vars(PrepareSendRecv(t)) /\ SF_vars(LoopTxResp(t))
  /\ SF_vars(LoopReady) /\ WF_vars(LoopSendBlock) /\ SF_vars(LoopTxSet) /\ WF_vars(LoopRespond) /\ SF_vars(LoopDone)
  /\ SF_vars(CacheRecv) /\ WF_vars(CacheTick) /\ WF_vars(CacheClose)
  /\ WF_vars(SyncDone) /\ WF_vars(ExecBlock)

Spec == Init /\ [][Next]_vars /\ Fairness

-----------------------------------------------------------------------------
(* Properties                                                              *)

Waiting == {"ready", "sendResp", "sendRecv", "waitCh"}

\* Every Prepare returns, Stop or not: its send on TxRespC and its wait on
\* txWithResp.Ch end (spec 6: Prepare returns ok or err(Stopped)).
PrepareReturns ==
  \A t \in Txs : (client[t] \in Waiting) ~> (client[t] \notin Waiting)

\* Every state update the adaptor starts ends with ReportStateUpdated for
\* its target height, however the executor's blocks of the heights before
\* it interleave with the catch-up; then the core publishes again.
StateUpdateCompletes ==
  \A h \in Heights : (updating /\ updateHeight = h) ~> (~updating /\ updatedAt = h)

=============================================================================
