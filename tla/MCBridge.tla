------------------------------ MODULE MCBridge ------------------------------
(* Small instances of the bridge with a relayer that holds two keys. *)
EXTENDS Bridge, TLC

CONSTANT alice

MCGenesis == [a \in Accounts |-> IF a = alice THEN 1 ELSE 0]
=============================================================================
