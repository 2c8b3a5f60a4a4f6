--------------------------- MODULE MCBlockServing ---------------------------
(* The block tree BlockServing is checked on: a1 and b1 on genesis. *)
EXTENDS BlockServing

TreePath == [g |-> <<"g">>, a1 |-> <<"g", "a1">>, b1 |-> <<"g", "b1">>]
TreeBlocks == DOMAIN TreePath
=============================================================================
