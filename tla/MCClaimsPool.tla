---------------------------- MODULE MCClaimsPool ----------------------------
(* Small instances of the claims pallet behind two transaction pools. *)
EXTENDS ClaimsPool

MCGenesis == [a \in Accounts |-> 0]
=============================================================================
