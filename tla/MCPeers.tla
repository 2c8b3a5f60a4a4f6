------------------------------ MODULE MCPeers ------------------------------
(* A node of the network "seed", which the name "name" stands for as well,   *)
(* and this node, which listens at the default port and at another one.      *)
EXTENDS Peers

MCResolved == [a \in Addrs |-> IF a = "name" THEN {"seed"} ELSE {a}]
MCAtDefaultPort == [a \in Addrs |-> IF a = "self brontide" THEN "self"
                                    ELSE IF a = "name" THEN "seed" ELSE a]
============================================================================
