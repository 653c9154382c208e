-------------------------- MODULE MCBlockExecution --------------------------
(* Validator lists that change in order and in length. *)
EXTENDS BlockExecution

CONSTANTS v1, v2
TwoValidators == {v1, v2}
Changing == {<<v1>>, <<v2, v1>>}
=============================================================================
