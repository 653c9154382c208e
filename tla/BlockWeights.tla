---------------------------- MODULE BlockWeights ----------------------------
(***************************************************************************)
(* The weight a block may consume: the limits the runtime sets for the     *)
(* dispatch classes (BlockWeights of runtime/src/lib.rs), and CheckWeight  *)
(* of frame_system (external), which applies them to every extrinsic and   *)
(* gives back what a dispatch did not use.                                 *)
(***************************************************************************)
EXTENDS Integers

CONSTANTS
    MAXIMUM_BLOCK_WEIGHT,
    NORMAL_WEIGHT,        \* NORMAL_DISPATCH_RATIO * MAXIMUM_BLOCK_WEIGHT
    AVERAGE_INIT,         \* AVERAGE_ON_INITIALIZE_RATIO * MAXIMUM_BLOCK_WEIGHT
    BaseBlock,            \* BlockExecutionWeight
    BaseExtrinsic,        \* ExtrinsicBaseWeight
    MaxMandatory          \* bound: the mandatory weight of a block

ASSUME WeightConstants ==
    /\ MAXIMUM_BLOCK_WEIGHT \in Nat /\ NORMAL_WEIGHT \in Nat /\ AVERAGE_INIT \in Nat
    /\ BaseBlock \in Nat /\ BaseExtrinsic \in Nat /\ MaxMandatory \in Nat
    /\ NORMAL_WEIGHT =< MAXIMUM_BLOCK_WEIGHT

VARIABLES normal, operational, mandatory   \* the weight consumed by each class

vars == <<normal, operational, mandatory>>
total == normal + operational + mandatory

TypeOK == normal \in Nat /\ operational \in Nat /\ mandatory \in Nat

\* Mutant: the ratio reserved, instead of what it leaves.
RatioReserved == NORMAL_WEIGHT
\* The space operational extrinsics have beyond the limit of the block.
reserved == MAXIMUM_BLOCK_WEIGHT - NORMAL_WEIGHT

\* The largest single extrinsic of a class with the limit max_total.
max_extrinsic(max_total) == max_total - AVERAGE_INIT - BaseExtrinsic

\* CheckWeight: does an extrinsic of weight w fit?
NormalFits(w) ==
    /\ w =< max_extrinsic(NORMAL_WEIGHT)
    /\ normal + BaseExtrinsic + w =< NORMAL_WEIGHT
    /\ total + BaseExtrinsic + w =< MAXIMUM_BLOCK_WEIGHT \/ normal + BaseExtrinsic + w =< 0
OperationalFits(w) ==
    /\ w =< max_extrinsic(MAXIMUM_BLOCK_WEIGHT)
    /\ operational + BaseExtrinsic + w =< MAXIMUM_BLOCK_WEIGHT
    /\ \/ total + BaseExtrinsic + w =< MAXIMUM_BLOCK_WEIGHT
       \/ operational + BaseExtrinsic + w =< reserved

Init == normal = 0 /\ operational = 0 /\ mandatory = BaseBlock

\* A new block: the base weight, and what the hooks of the pallets consume.
register_block_weight(hooks) ==
    /\ normal' = 0 /\ operational' = 0
    /\ mandatory' = BaseBlock + hooks

\* An extrinsic of weight w, of which the dispatch uses only `used`.
apply_normal(w, used) ==
    /\ NormalFits(w)
    /\ normal' = normal + BaseExtrinsic + used
    /\ UNCHANGED <<operational, mandatory>>
apply_operational(w, used) ==
    /\ OperationalFits(w)
    /\ operational' = operational + BaseExtrinsic + used
    /\ UNCHANGED <<normal, mandatory>>
\* Inherents have no limit.
apply_mandatory(w, used) ==
    /\ mandatory + BaseExtrinsic + w =< MaxMandatory
    /\ mandatory' = mandatory + BaseExtrinsic + used
    /\ UNCHANGED <<normal, operational>>

Next ==
    \/ \E hooks \in 0..MaxMandatory : BaseBlock + hooks =< MaxMandatory /\ register_block_weight(hooks)
    \/ \E w \in 0..(MAXIMUM_BLOCK_WEIGHT + MaxMandatory) : \E used \in 0..w :
          apply_normal(w, used) \/ apply_operational(w, used) \/ apply_mandatory(w, used)

Spec == Init /\ [][Next]_vars

---------------------------------------------------------------------------
(* Properties *)

\* Whatever inherents and hooks consume, and although operational extrinsics
\* may exceed the limit of the block, the extrinsics users pay for never take
\* more than MAXIMUM_BLOCK_WEIGHT together, the normal ones never more than
\* their ratio of it.
UserWeightFits ==
    normal =< NORMAL_WEIGHT /\ normal + operational =< MAXIMUM_BLOCK_WEIGHT

=============================================================================
