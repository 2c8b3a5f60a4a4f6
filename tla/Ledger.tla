------------------------------- MODULE Ledger -------------------------------
(***************************************************************************)
(* What the node promises about the blocks it keeps, whatever happens to   *)
(* its process: the sequence of stored blocks is a path of the block tree  *)
(* from genesis, it grows by one child of its last block at a time, and it *)
(* is only ever cut back to an earlier block of the same path, never below *)
(* genesis.  Module Chain implements it.                                   *)
(***************************************************************************)
EXTENDS Naturals, Sequences

CONSTANTS
    Blocks,   \* all blocks that exist
    Path      \* Path[b]: the blocks from genesis to b, prevBlock by prevBlock

VARIABLE ledger   \* the stored blocks, ledger[h + 1] is the block at height h

Init == ledger = << >> \/ \E b \in Blocks : ledger = <<b>> /\ Path[b] = <<b>>

\* A block is added on top of the path.
Extend == \E b \in Blocks : ledger' = Append(ledger, b) /\ Path[b] = ledger'

\* The path is cut back to one of its blocks.
Rewind == \E n \in 1..Len(ledger) : ledger' = SubSeq(ledger, 1, n)

Next == Extend \/ Rewind

Spec == Init /\ [][Next]_ledger
=============================================================================
