-------------------------------- MODULE MCWallet -------------------------------
(* A payment of the wallet, its child that bids for a name, a payment that conflicts
   with the first and opens the name; another that opens it, and an update of the name
   that follows this one: these two are not the wallet's. *)
EXTENDS Wallet

MCTxs == {"pay", "child", "other", "open", "update"}
MCOuts == [pay |-> 1, child |-> 1, other |-> 1, open |-> 1, update |-> 0, genesis |-> 2]
MCInputs ==
    [pay |-> {<<"genesis", 1>>}, child |-> {<<"pay", 1>>}, other |-> {<<"genesis", 1>>},
     open |-> {<<"genesis", 2>>}, update |-> {<<"open", 1>>}]
MCCovs ==
    [t \in MCTxs |-> CASE t = "child" -> {<<"bid", "name">>}
                       [] t \in {"other", "open"} -> {<<"open", "name">>}
                       [] t = "update" -> {<<"update", "name">>}
                       [] OTHER -> {}]
MCRate == [pay |-> 1, child |-> 3, other |-> 2, open |-> 5, update |-> 4]
MCSize == [t \in MCTxs |-> 1]
MCMine == {<<"genesis", 1>>, <<"pay", 1>>, <<"child", 1>>, <<"other", 1>>}
=============================================================================
