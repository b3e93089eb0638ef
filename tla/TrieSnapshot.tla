---------------------------- MODULE TrieSnapshot ----------------------------
(***************************************************************************)
(* The state snapshot traversals of src/internal/ledger/state_ledger.go:   *)
(* IterateTrie (mode "trie": every trie node, the code of contracts, the   *)
(* snapshot meta) and GenerateSnapshot (mode "leaf": the leaves only).     *)
(*                                                                         *)
(* Both walk a queue of trie roots that starts with the state root; for   *)
(* each root a jmt iterator streams the nodes of that trie, and a leaf of  *)
(* the account trie with a storage root adds that root to the queue. Keys *)
(* are put in a batch that is committed whenever it grows past 64 MiB     *)
(* (here: at any put) and at the end; the result goes to errC.            *)
(*                                                                         *)
(* The trie is a constant: Kids gives the children of a node, Acct the    *)
(* account a leaf of the account trie decodes to. The iterator (jmt,       *)
(* outside this repository) streams the nodes of a trie in some order and *)
(* may fail at any point.                                                  *)
(***************************************************************************)
EXTENDS Naturals, Sequences, FiniteSets

CONSTANTS
  Modes,       \* traversals to check: "trie" (IterateTrie), "leaf" (GenerateSnapshot)
  Nodes,       \* trie nodes of the ledger backend
  Kids,        \* node -> its children
  Acct,        \* account-trie leaf -> [storageRoot, code]
  StateRoot,   \* root of the account trie of the snapshot height
  NoRoot,      \* the empty hash: an account without storage
  IterFaults,  \* whether iter.Next may return an error
  PruneFaults  \* whether pruneCache.Rollback may return an error

ASSUME /\ Modes \subseteq {"trie", "leaf"} /\ StateRoot \in Nodes
       /\ Kids \in [Nodes -> SUBSET Nodes]
       /\ \A a \in DOMAIN Acct : Acct[a].storageRoot \in Nodes \cup {NoRoot}
       /\ IterFaults \in BOOLEAN /\ PruneFaults \in BOOLEAN

VARIABLES
  mode,     \* the traversal running: "trie" or "leaf"
  pc,       \* "start" (IterateTrie's prune cache rollback), "iter", "done", "failed"
  queue,    \* trie roots still to walk; the head is being walked
  toVisit,  \* nodes the current iterator has not streamed yet
  batch,    \* keys put and not committed
  target,   \* keys committed to the target store
  errC      \* results sent on errC

vars == <<mode, pc, queue, toVisit, batch, target, errC>>

Key(kind, id) == [kind |-> kind, id |-> id]

\* The nodes of the trie rooted at r.
RECURSIVE Subtree(_)
Subtree(r) == {r} \cup UNION {Subtree(c) : c \in Kids[r]}

LeafNodes(S) == {n \in S : Kids[n] = {}}

\* Mutant: IterateTrie streams the leaves only (IterateLeaf).
EmittedLeavesOnly(r) == LeafNodes(Subtree(r))

\* What the iterator of root r streams: Iterate gives every node,
\* IterateLeaf the leaves.
Emitted(r) == IF mode = "trie" THEN Subtree(r) ELSE LeafNodes(Subtree(r))

\* Mutant: every account leaf counts as a contract with storage.
HasStorageUnchecked(n) == n \in DOMAIN Acct

\* The leaf of the account trie is a contract account with storage.
HasStorage(n) == n \in DOMAIN Acct /\ Acct[n].storageRoot # NoRoot

Init ==
  /\ mode \in Modes
  /\ pc = IF mode = "trie" THEN "start" ELSE "iter"
  /\ queue = <<StateRoot>> /\ toVisit = Emitted(StateRoot)
  /\ batch = {} /\ target = {} /\ errC = <<>>

\* Mutant: the snapshot meta is put before the walk.
PruneRollbackWithMeta ==
  /\ pc = "start"
  /\ \E fail \in IF PruneFaults THEN BOOLEAN ELSE {FALSE} :
       errC' = IF fail THEN Append(errC, "err") ELSE errC
  /\ batch' = {Key("prune", "min"), Key("prune", "max"), Key("meta", StateRoot)}
  /\ pc' = "iter"
  /\ UNCHANGED <<queue, toVisit, target>>
  /\ UNCHANGED mode

\* IterateTrie: roll the prune cache back to the snapshot height; an error
\* is sent on errC and the walk goes on. Then the prune journal bounds.
PruneRollback ==
  /\ pc = "start"
  /\ \E fail \in IF PruneFaults THEN BOOLEAN ELSE {FALSE} :
       errC' = IF fail THEN Append(errC, "err") ELSE errC
  /\ batch' = {Key("prune", "min"), Key("prune", "max")}
  /\ pc' = "iter"
  /\ UNCHANGED <<queue, toVisit, target>>
  /\ UNCHANGED mode

\* iter.Next returns node n: put it, and commit and reset the batch if it
\* grew past maxBatchSize (here: at any put). A contract leaf of the
\* account trie then puts its code (IterateTrie, after the size check) and
\* queues its storage root.
Visit(n) ==
  /\ pc = "iter" /\ n \in toVisit
  /\ toVisit' = toVisit \ {n}
  /\ LET contract == Head(queue) = StateRoot /\ HasStorage(n)
         code == IF contract /\ mode = "trie" THEN {Key("code", n)} ELSE {}
     IN /\ \/ batch' = batch \cup {Key("node", n)} \cup code /\ UNCHANGED target
           \/ target' = target \cup batch \cup {Key("node", n)} /\ batch' = code
        /\ queue' = IF contract THEN Append(queue, Acct[n].storageRoot) ELSE queue
  /\ UNCHANGED <<pc, errC>>
  /\ UNCHANGED mode

\* iter.Next returns an error other than ErrorNoMoreData: send it and stop;
\* the batch is abandoned.
IterFail ==
  /\ pc = "iter" /\ IterFaults
  /\ errC' = Append(errC, "err")
  /\ pc' = "failed"
  /\ UNCHANGED <<queue, toVisit, batch, target>>
  /\ UNCHANGED mode

\* ErrorNoMoreData: put the root's key (no size check) and go on with the
\* next root. After the last one IterateTrie marshals the snapshot meta
\* (an error is sent and the batch abandoned) and puts it; then commit and
\* send nil.
RootDone ==
  /\ pc = "iter" /\ toVisit = {}
  /\ queue' = Tail(queue)
  /\ LET rest == Tail(queue)
         batch1 == batch \cup {Key("root", Head(queue))}
     IN IF rest # <<>>
        THEN /\ batch' = batch1 /\ toVisit' = Emitted(Head(rest))
             /\ UNCHANGED <<pc, errC, target>>
        ELSE /\ UNCHANGED toVisit
             /\ \/ /\ target' = target \cup batch1
                      \cup (IF mode = "trie" THEN {Key("meta", StateRoot)} ELSE {})
                   /\ batch' = {} /\ errC' = Append(errC, "nil") /\ pc' = "done"
                \/ /\ mode = "trie" /\ IterFaults
                   /\ errC' = Append(errC, "err") /\ pc' = "failed"
                   /\ batch' = batch1 /\ UNCHANGED target
  /\ UNCHANGED mode

\* The traversal has returned.
Returned ==
  /\ pc \in {"done", "failed"}
  /\ UNCHANGED vars

Next == PruneRollback \/ (\E n \in Nodes : Visit(n)) \/ IterFail \/ RootDone \/ Returned

Spec == Init /\ [][Next]_vars

-----------------------------------------------------------------------------
(* Properties                                                              *)

Keys == {Key(k, n) : k \in {"node", "code", "root", "meta"}, n \in Nodes}
        \cup {Key("prune", "min"), Key("prune", "max")}

TypeOK ==
  /\ mode \in Modes
  /\ pc \in {"start", "iter", "done", "failed"}
  /\ queue \in Seq(Nodes) /\ toVisit \subseteq Nodes
  /\ batch \subseteq Keys /\ target \subseteq Keys
  /\ errC \in Seq({"err", "nil"})

\* The reference for what a snapshot must hold: the graph of trie links and
\* of account leaves to their storage roots, and what the state root reaches.
Links == UNION {{<<p, c>> : c \in Kids[p]} : p \in Nodes}
         \cup {<<a, Acct[a].storageRoot>> : a \in {x \in DOMAIN Acct : HasStorage(x)}}
RECURSIVE ClosureOf(_)
ClosureOf(S) ==
  LET S2 == S \cup {e[2] : e \in {l \in Links : l[1] \in S}}
  IN IF S2 = S THEN S ELSE ClosureOf(S2)
Reachable == ClosureOf({StateRoot})
TrieRoots == {StateRoot} \cup {Acct[a].storageRoot : a \in {x \in Reachable : HasStorage(x)}}

RequiredKeys ==
  IF mode = "trie"
  THEN {Key("node", n) : n \in Reachable} \cup {Key("root", r) : r \in TrieRoots}
  ELSE {Key("node", n) : n \in LeafNodes(Reachable)} \cup {Key("root", r) : r \in TrieRoots}

\* When the traversal reports success, the target store holds every node
\* (IterateTrie) or every leaf (GenerateSnapshot) of the account trie and
\* of every storage trie it reaches, and every trie root's key: the BFS
\* over the queue of roots misses no trie, whatever order the iterators
\* stream in and wherever a 64 MiB flush falls.
SnapshotComplete ==
  pc = "done" => RequiredKeys \subseteq target

\* A target store that holds the snapshot meta holds the whole snapshot,
\* even when an iterator failed after batches were flushed: a reader may
\* trust the meta key (spec 4.8: no partial commit beyond the last flush).
MetaMarksComplete ==
  Key("meta", StateRoot) \in target => RequiredKeys \subseteq target

=============================================================================
