--------------------------- MODULE MCEvmAccounts ----------------------------
(* Small instances of the account mapping. *)
EXTENDS EvmAccounts, TLC

Symmetry == Permutations(Natives) \cup Permutations(Addresses)
=============================================================================
