---------------------------- MODULE MCNameAuction -----------------------------
(* One name that is auctioned again and again; or a name of the genesis block
   that auctions its subdomains, and one of them. *)
EXTENDS NameAuction

NoParents == [n \in {} |-> "name"]
OneNameCoins == [n \in {"name"} |-> 6]

MCNames == {"top", "sub"}
MCParentOf == [n \in {"sub"} |-> "top"]
SubdomainCoins == [top |-> 3, sub |-> 4]
=============================================================================
