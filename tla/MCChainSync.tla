---------------------------- MODULE MCChainSync -----------------------------
(* A branch a1..a4 and a heavier branch b2, b3 that leaves it at a1.  On b3 the
   second peer has one of three blocks: a bad header, one without its proof, and
   a bad body. *)
EXTENDS ChainSync

ParentOf ==
    [g |-> "none", a1 |-> "g", a2 |-> "a1", a3 |-> "a2", a4 |-> "a3",
     b2 |-> "a1", b3 |-> "b2", header |-> "b3", proof |-> "b3", body |-> "b3"]

TreeBlocks == DOMAIN ParentOf

TreePath ==
    LET path[b \in TreeBlocks] ==
            IF ParentOf[b] = "none" THEN <<b>> ELSE Append(path[ParentOf[b]], b)
    IN  path

TreeWork ==
    [b \in TreeBlocks |->
        2 * Len(TreePath[b]) + IF b \in {"g", "a1", "a2", "a3", "a4"} THEN 0 ELSE 3]

HonestTips == [p1 |-> {"a3"}, p2 |-> {"b3"}]
PeerTips == [p1 |-> {"a3"}, p2 |-> {"b3", "header", "proof", "body"}]
=============================================================================
