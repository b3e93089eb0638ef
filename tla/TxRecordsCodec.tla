--------------------------- MODULE TxRecordsCodec ---------------------------
(***************************************************************************)
(* The byte format of the local transaction journal,                      *)
(* src/internal/txpool/tx_records.go: how batchWrite and rotate frame     *)
(* records, and how load and GetAllTxRecords read them back.              *)
(*                                                                         *)
(* A record is {u64 little-endian length}{payload}. Here the length field *)
(* has three bytes: the low byte; one standing for bytes 1 to 6 (a length *)
(* with one of them set is at least 256, longer than any file here, and   *)
(* can still be allocated); one standing for the top byte (a length with  *)
(* it set is at least 2^56, and make([]byte, length) kills the process).  *)
(* A payload is the RbftMarshal bytes of a transaction (the constant     *)
(* Marshal); bytes that are no transaction's fail RbftUnmarshal.          *)
(*                                                                         *)
(* One life of the node writes the file (the first rotate, then appends,  *)
(* more rotates, commits); it ends with a stop or a crash, which may tear *)
(* the write in progress. The next start runs load on the file left.      *)
(* journal is the reference: the transactions whose records were written  *)
(* whole, in file order (spec 4.3 and 5: Load(Append*(txs)) = txs modulo  *)
(* malformed records, which are skipped).                                 *)
(***************************************************************************)
EXTENDS Naturals, Sequences, SequencesExt, FiniteSets

CONSTANTS
  Txs,           \* local transactions, each submitted once
  Marshal,       \* tx -> its RbftMarshal bytes (non-empty, bytes in 1..3)
  Account,       \* tx -> its sender account
  BatchWrite,    \* bound: transactions in one consumeTxs buffer
  BatchSize,     \* TxRecordsBatchSize: load's batch; rotate's write chunk
  WriteFaults,   \* whether a Write may stop short with an error (ENOSPC, EIO)
  RotateFaults,  \* whether rotate's OpenFile, Rename or reopen may fail
  MaxRotations   \* bound on rotates, the first one at start included

ASSUME /\ IsInjective(Marshal)
       /\ \A t \in Txs : Marshal[t] \in Seq(1..3) /\ Marshal[t] # <<>> /\ Len(Marshal[t]) <= 3
       /\ BatchWrite \in Nat \ {0} /\ BatchSize \in Nat \ {0}
       /\ WriteFaults \in BOOLEAN /\ RotateFaults \in BOOLEAN /\ MaxRotations \in Nat

VARIABLES
  phase,      \* "run" (the node writes the journal), "load" (the next start)
  pool,       \* local transactions alive in the pool
  admitted,   \* transactions ever submitted
  writer,     \* r.writer: "nil" or "open"
  file,       \* the bytes of tx_records.pb
  rotations,
  lpc,        \* load's goroutine: "run", "done", "panicked"
  pos,        \* bytes of the file bufio has consumed
  batch,      \* load's batch
  batchCh,    \* batches load has sent
  journal     \* reference: transactions recorded whole, in file order

vars == <<phase, pool, admitted, writer, file, rotations, lpc, pos, batch, batchCh, journal>>

-----------------------------------------------------------------------------
(* Framing                                                                 *)

HeaderLen == 3

\* Mutant: the length prefix counts one byte too many.
FrameLenOffByOne(t) == <<Len(Marshal[t]) + 1, 0, 0>> \o Marshal[t]

\* binary.LittleEndian.PutUint64(lengthBytes, length), then the payload.
Frame(t) == <<Len(Marshal[t]), 0, 0>> \o Marshal[t]

Encode(txs) == FlattenSeq([i \in DOMAIN txs |-> Frame(txs[i])])

\* The records of txs that lie whole in the first k bytes of Encode(txs).
Whole(txs, k) == SubSeq(txs, 1, Cardinality({j \in 1..Len(txs) : Len(Encode(SubSeq(txs, 1, j))) <= k}))

\* binary.LittleEndian.Uint64 of the length field at offset p; a length
\* with a middle byte set runs past the end of the file.
LengthAt(f, p) == IF f[p + 2] # 0 THEN Len(f) + 1 ELSE f[p + 1]
Huge(f, p) == f[p + 3] # 0

\* What Write leaves: all the bytes, or with WriteFaults any shorter prefix
\* and an error.
Written(bytes) == {Len(bytes)} \cup (IF WriteFaults THEN 0..Len(bytes) - 1 ELSE {})

\* Mutant: a record ending at the last byte counts as a short read.
RECURSIVE GetAllLastDropped(_, _)
GetAllLastDropped(f, p) ==
  IF p + HeaderLen > Len(f) THEN <<>>
  ELSE IF Huge(f, p) THEN <<"panic">>
  ELSE LET n == LengthAt(f, p) IN
       IF p + HeaderLen + n >= Len(f) THEN <<>>
       ELSE <<SubSeq(f, p + HeaderLen + 1, p + HeaderLen + n)>> \o GetAllLastDropped(f, p + HeaderLen + n)

\* GetAllTxRecords from offset p: Peek of the length (io.EOF when fewer
\* bytes are left ends the loop), Discard, make and ReadFull (a short read
\* consumes the rest; the next Peek ends the loop). A make of a huge length
\* ends the process ("panic").
RECURSIVE GetAll(_, _)
GetAll(f, p) ==
  IF p + HeaderLen > Len(f) THEN <<>>
  ELSE IF Huge(f, p) THEN <<"panic">>
  ELSE LET n == LengthAt(f, p) IN
       IF p + HeaderLen + n > Len(f) THEN <<>>
       ELSE <<SubSeq(f, p + HeaderLen + 1, p + HeaderLen + n)>> \o GetAll(f, p + HeaderLen + n)

GetAllTxRecords(f) == GetAll(f, 0)

-----------------------------------------------------------------------------
(* rotate                                                                  *)

\* The ranges over all and txMap.items are map iterations: any order that
\* keeps each account's transactions together.
Orders(S) ==
  {s \in SetToSeqs(S) :
     \A i, j, k \in DOMAIN s : i < j /\ j < k /\ Account[s[i]] = Account[s[k]]
                                 => Account[s[j]] = Account[s[i]]}

\* The chunks rotate writes: a chunk ends when it holds BatchSize records
\* or when the record count equals len(all), the number of accounts; the
\* remaining batch is written after the loop.
RECURSIVE Chunked(_, _, _, _)
Chunked(s, cur, r, a) ==
  IF s = <<>> THEN (IF cur = <<>> THEN <<>> ELSE <<cur>>)
  ELSE LET cur2 == Append(cur, Head(s)) IN
       IF Len(cur2) >= BatchSize \/ r + 1 = a
       THEN <<cur2>> \o Chunked(Tail(s), <<>>, r + 1, a)
       ELSE Chunked(Tail(s), cur2, r + 1, a)

\* rotate: close the writer, create path.new, write the chunks (an error
\* is logged and the loop goes on), rename path.new over the journal and
\* reopen it for appending. OpenFile, Rename and the reopen may fail and
\* return with the writer nil.
Rotate ==
  /\ phase = "run" /\ rotations < MaxRotations
  /\ rotations' = rotations + 1
  /\ \/ /\ RotateFaults
        /\ writer' = "nil"
        /\ UNCHANGED <<file, journal>>
     \/ \E order \in Orders(pool) :
          LET chunks == Chunked(order, <<>>, 0, Cardinality({Account[t] : t \in pool}))
          IN \E ks \in [DOMAIN chunks -> 0..BatchSize * 6] :
               /\ \A c \in DOMAIN chunks : ks[c] \in Written(Encode(chunks[c]))
               /\ file' = FlattenSeq([c \in DOMAIN chunks |-> SubSeq(Encode(chunks[c]), 1, ks[c])])
               /\ journal' = FlattenSeq([c \in DOMAIN chunks |-> Whole(chunks[c], ks[c])])
               /\ writer' \in IF RotateFaults THEN {"open", "nil"} ELSE {"open"}
  /\ UNCHANGED <<phase, pool, admitted, lpc, pos, batch, batchCh>>

-----------------------------------------------------------------------------
(* The node's life                                                         *)

\* consumeTxs writes a buffer of newly admitted local transactions with
\* batchWrite: with no writer nothing is written ("no active txRecords");
\* otherwise one Write of all the records, which may stop short. A crash
\* may tear the Write: a prefix reaches the file and the next start loads.
BatchAppend(buf) ==
  /\ phase = "run"
  /\ ToSet(buf) \cap admitted = {}
  /\ pool' = pool \cup ToSet(buf) /\ admitted' = admitted \cup ToSet(buf)
  /\ \/ writer = "nil" /\ UNCHANGED <<file, journal, phase, lpc>>
     \/ /\ writer = "open"
        /\ \/ \E k \in Written(Encode(buf)) :
                /\ file' = file \o SubSeq(Encode(buf), 1, k)
                /\ journal' = journal \o Whole(buf, k)
                /\ UNCHANGED <<phase, lpc>>
           \/ \E k \in 1..Len(Encode(buf)) - 1 :
                /\ file' = file \o SubSeq(Encode(buf), 1, k)
                /\ journal' = journal \o Whole(buf, k)
                /\ phase' = "load" /\ lpc' = "run"
  /\ UNCHANGED <<writer, rotations, pos, batch, batchCh>>

\* The transaction is committed and leaves the pool.
Commit(t) ==
  /\ phase = "run" /\ t \in pool
  /\ pool' = pool \ {t}
  /\ UNCHANGED <<phase, admitted, writer, file, rotations, lpc, pos, batch, batchCh, journal>>

\* The node stops or crashes between two writes; the next start loads.
Crash ==
  /\ phase = "run"
  /\ phase' = "load" /\ lpc' = "run"
  /\ UNCHANGED <<pool, admitted, writer, file, rotations, pos, batch, batchCh, journal>>

-----------------------------------------------------------------------------
(* load                                                                    *)

\* Mutant: the partial batch is sent at EOF only when it has two records.
LoadEOFOffByOne ==
  /\ batchCh' = IF Len(batch) > 1 THEN Append(batchCh, batch) ELSE batchCh
  /\ lpc' = "done"

\* Peek returns io.EOF: the partial batch is sent and load reports done.
LoadEOF ==
  /\ batchCh' = IF Len(batch) > 0 THEN Append(batchCh, batch) ELSE batchCh
  /\ lpc' = "done"

\* One turn of load's goroutine: Peek the length, Discard it, make the
\* data slice (a huge length ends the process), ReadFull (a short read
\* consumes the rest and continues), RbftUnmarshal (an error continues),
\* append to the batch and send it once it holds BatchSize transactions.
LoadStep ==
  /\ phase = "load" /\ lpc = "run"
  /\ IF pos + HeaderLen > Len(file)
     THEN LoadEOF /\ UNCHANGED <<pos, batch>>
     ELSE IF Huge(file, pos)
     THEN lpc' = "panicked" /\ UNCHANGED <<pos, batch, batchCh>>
     ELSE LET n == LengthAt(file, pos)
              data == SubSeq(file, pos + HeaderLen + 1, pos + HeaderLen + n)
              txs == {t \in Txs : Marshal[t] = data}
          IN /\ UNCHANGED lpc
             /\ IF pos + HeaderLen + n > Len(file)
                THEN pos' = Len(file) /\ UNCHANGED <<batch, batchCh>>
                ELSE /\ pos' = pos + HeaderLen + n
                     /\ IF txs = {} THEN UNCHANGED <<batch, batchCh>>
                        ELSE LET b == Append(batch, CHOOSE t \in txs : TRUE) IN
                             IF Len(b) >= BatchSize
                             THEN batchCh' = Append(batchCh, b) /\ batch' = <<>>
                             ELSE batch' = b /\ UNCHANGED batchCh
  /\ UNCHANGED <<phase, pool, admitted, writer, file, rotations, journal>>

\* load has returned (or the process died); the start goes on.
Loaded ==
  /\ phase = "load" /\ lpc \in {"done", "panicked"}
  /\ UNCHANGED vars

Init ==
  /\ phase = "run" /\ pool = {} /\ admitted = {}
  /\ writer = "nil" /\ file = <<>> /\ rotations = 0
  /\ lpc = "idle" /\ pos = 0 /\ batch = <<>> /\ batchCh = <<>> /\ journal = <<>>

Next ==
  \/ Rotate \/ Crash \/ LoadStep \/ Loaded
  \/ \E buf \in BoundedSeq(Txs, BatchWrite) \ {<<>>} : IsInjective(buf) /\ BatchAppend(buf)
  \/ \E t \in Txs : Commit(t)

Spec == Init /\ [][Next]_vars

-----------------------------------------------------------------------------
(* Properties                                                              *)

TypeOK ==
  /\ phase \in {"run", "load"} /\ lpc \in {"idle", "run", "done", "panicked"}
  /\ pool \subseteq admitted /\ admitted \subseteq Txs
  /\ writer \in {"nil", "open"} /\ file \in Seq(0..3)
  /\ pos \in 0..Len(file) /\ batch \in Seq(Txs) /\ batchCh \in Seq(Seq(Txs))
  /\ journal \in Seq(Txs)

\* When load has read the journal, the batches it sent hold exactly the
\* transactions whose records were written whole, in file order (spec 5,
\* journal round-trip), the record a crash tore at the end of the file
\* skipped at EOF. Only whole Writes are checked here: a Write cut short
\* in the middle of the file breaks this (MCTxRecordsCodec_short.cfg).
LoadRoundTrip ==
  lpc \in {"done", "panicked"} => lpc = "done" /\ FlattenSeq(batchCh) = journal

\* GetAllTxRecords on the file left returns exactly the payloads of the
\* records written whole, in order.
GetAllRoundTrip ==
  phase = "load" => GetAllTxRecords(file) = [i \in DOMAIN journal |-> Marshal[journal[i]]]

=============================================================================
