--------------------------- MODULE BlockExecution ---------------------------
(***************************************************************************)
(* The execution of blocks: CheckWeight and ChargeTransactionPayment are   *)
(* members of one SignedExtra, so that an extrinsic is admitted, charged   *)
(* and corrected for the same weight, and Executive runs the hooks, the    *)
(* extrinsics of all classes and the end of the block in turn.             *)
(***************************************************************************)
EXTENDS BlockFees, BlockWeights

executionVars == <<feesVars, vars>>

ExecutionInit == FeesInit /\ Init

\* The hooks decide on the author and consume weight.
Executive_initialize_block ==
    /\ initialize_block
    /\ \E hooks \in 0..(MaxMandatory - BaseBlock) : register_block_weight(hooks)

\* A signed extrinsic of either class.
Executive_apply_signed ==
    \E p \in Payers, weight \in 0..MaxWeight, tip \in 0..MaxTip, to \in Accounts :
       \E spent \in 0..free[p], used \in 0..weight :
          /\ apply_normal(weight, used) \/ apply_operational(weight, used)
          /\ apply_signed(p, weight, used, tip, spent, to)

\* An Ethereum transaction; the unit GasWeightMapping makes its gas its weight.
Executive_apply_ethereum ==
    \E p \in Payers, gas_limit \in 1..MaxWeight : \E gas \in 1..gas_limit :
       apply_normal(gas_limit, gas) /\ transact(p, gas)

\* An inherent pays nothing.
Executive_apply_inherent ==
    /\ open
    /\ \E weight \in 0..MaxWeight : \E used \in 0..weight : apply_mandatory(weight, used)
    /\ UNCHANGED feesVars

Executive_finalize_block == finalize_block /\ UNCHANGED vars

ExecutionNext ==
    \/ Executive_initialize_block \/ Executive_finalize_block
    \/ Executive_apply_signed \/ Executive_apply_ethereum \/ Executive_apply_inherent

ExecutionSpec == ExecutionInit /\ [][ExecutionNext]_executionVars

=============================================================================
