------------------------------ MODULE SoloLog ------------------------------
(***************************************************************************)
(* What the solo engine promises its executor (spec 8.6 and 4.4): a single *)
(* total order of batches, each of at most BlockMaxTxNum transactions and  *)
(* none sharing a transaction with another, delivered as the blocks        *)
(* Applied+1, Applied+2, ... in that order, with no gap and no repeat.     *)
(*                                                                         *)
(*   log     the batches ordered so far                                    *)
(*   blocks  the blocks delivered on commitC so far                        *)
(* SoloNode implements this specification (SoloNode!SoloRefinesLog).      *)
(***************************************************************************)
EXTENDS Naturals, Sequences, SequencesExt

CONSTANTS Txs, BlockMaxTxNum, Applied

VARIABLES log, blocks

\* The batches a sequencer may form.
Batches == {b \in BoundedSeq(Txs, BlockMaxTxNum) : IsInjective(b)}

Ordered == UNION {ToSet(log[i]) : i \in DOMAIN log}

Init == log = <<>> /\ blocks = <<>>

\* The sequencer orders a batch of fresh, distinct transactions; an empty
\* batch is an empty block.
Order(b) ==
  /\ ToSet(b) \cap Ordered = {}
  /\ log' = Append(log, b)
  /\ UNCHANGED blocks

\* The next ordered batch is delivered as the next block.
Deliver ==
  /\ Len(blocks) < Len(log)
  /\ blocks' = Append(blocks, [height |-> Applied + Len(blocks) + 1,
                               txs |-> log[Len(blocks) + 1]])
  /\ UNCHANGED log

Next == (\E b \in Batches : Order(b)) \/ Deliver

Spec == Init /\ [][Next]_<<log, blocks>>

=============================================================================
