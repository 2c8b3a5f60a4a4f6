------------------------------ MODULE MCChain -------------------------------
(* The block tree Chain is checked on: a branch a1..a4, a heavy branch c2, c3
   that leaves it at a1, and d1 on genesis, heavier than all of them.  Work is
   one per block, c2 counts for three and d1 for nine.  a1 and c3 have covenants
   that count twice when they are replayed twice. *)
EXTENDS Chain

ParentOf ==
    [g |-> "none", a1 |-> "g", a2 |-> "a1", a3 |-> "a2", a4 |-> "a3",
     c2 |-> "a1", c3 |-> "c2", d1 |-> "g"]

TreeBlocks == DOMAIN ParentOf

TreePath ==
    LET path[b \in TreeBlocks] ==
            IF ParentOf[b] = "none" THEN <<b>> ELSE Append(path[ParentOf[b]], b)
    IN  path

TreeWork ==
    [b \in TreeBlocks |->
        Len(TreePath[b]) + (CASE b \in {"c2", "c3"} -> 2 [] b = "d1" -> 8 [] OTHER -> 0)]

TreeTwice ==
    [b \in TreeBlocks |-> CASE b = "a1" -> "a1 twice" [] b = "c3" -> "c3 twice" [] OTHER -> b]
=============================================================================
