------------------------------- MODULE Claims -------------------------------
(***************************************************************************)
(* The claims pallet (modules/claims): the bridge that turns transactions  *)
(* of foreign networks into CLV and back.  The account configured for a    *)
(* network mints a claim for a foreign transaction; the owner of the claim *)
(* takes it out with an Ethereum signature; any account burns CLV to have  *)
(* it released on a foreign network.  A chain that ran the previous        *)
(* version of the pallet, which knew one network, moves its data over in   *)
(* on_runtime_upgrade.                                                     *)
(*                                                                         *)
(* Every call is #[transactional]: a call that fails changes nothing and   *)
(* is not a step.                                                          *)
(***************************************************************************)
EXTENDS Currency

CONSTANTS Networks,            \* BridgeNetworks
          BSC,                 \* the network the legacy storage belongs to
          TxHashes,            \* foreign transactions
          EthereumAddresses,
          ModuleAccount,       \* account_id(): where the fees go
          None,
          Limits, Fees, Values, \* arguments of the calls
          GenesisBalances      \* free balances before the first step

ASSUME ClaimsAssumption ==
    /\ BSC \in Networks
    /\ ModuleAccount \in Accounts
    /\ None \notin Accounts \cup EthereumAddresses
    /\ None \notin [address : EthereumAddresses, amount : Balance, claimed : BOOLEAN]
    /\ None \notin Balance \X Balance
    /\ Limits \subseteq Balance /\ Fees \subseteq Balance /\ Values \subseteq Balance
    /\ GenesisBalances \in [Accounts -> Balance]

(* The two configurations of the pallet in the repository: 0 in the        *)
(* runtime, 1 in the pallet's mock.                                        *)
ASSUME DepositAssumption == ExistentialDeposit \in {0, 1}

VARIABLES
    ElasticBridgeAccounts,   \* [Networks -> account or None]
    ElasticClaimLimits,      \* [Networks -> Balance]
    BridgeFees,              \* [Networks -> <<mint fee, burn fee>> or None]
    ElasticClaims,           \* [Networks -> [TxHashes -> claim or None]]
    PalletStorageVersion,
    BridgeAccount, ClaimLimit, Claims, MintFee, BurnFee,   \* legacy storage
    runtime,   \* "legacy": this code has not run yet on this chain
    free       \* balances (pallet_balances)

elasticVars == <<ElasticBridgeAccounts, ElasticClaimLimits, BridgeFees, ElasticClaims>>
legacyVars == <<BridgeAccount, ClaimLimit, Claims, MintFee, BurnFee>>
vars == <<elasticVars, PalletStorageVersion, legacyVars, runtime, free>>

ClaimInfo == [address : EthereumAddresses, amount : Balance, claimed : BOOLEAN]

(* Correct typing of the storage items of the pallet. *)
TypeOK ==
    /\ ElasticBridgeAccounts \in [Networks -> Accounts \cup {None}]
    /\ ElasticClaimLimits \in [Networks -> Balance]
    /\ BridgeFees \in [Networks -> (Balance \X Balance) \cup {None}]
    /\ ElasticClaims \in [Networks -> [TxHashes -> ClaimInfo \cup {None}]]
    /\ PalletStorageVersion \in {1, 2}
    /\ BridgeAccount \in Accounts \cup {None}
    /\ ClaimLimit \in Balance
    /\ Claims \in [TxHashes -> ClaimInfo \cup {None}]
    /\ MintFee \in Balance
    /\ BurnFee \in Balance
    /\ runtime \in {"legacy", "elastic"}
    /\ free \in [Accounts -> Balance]

\* The getter of BridgeFees: a missing key reads as (0, 0).
bridge_fees(n) == IF BridgeFees[n] = None THEN <<0, 0>> ELSE BridgeFees[n]

-----------------------------------------------------------------------------
(* Signatures.  A signature is what its signer signed; recovering it over  *)
(* any other message yields no address a claim was minted for.  The signed *)
(* message holds the destination and the transaction, not the network.     *)

Signatures == [signer : EthereumAddresses, dest : Accounts, tx : TxHashes]

\* Mutant: the destination is not part of the signed message.
recover_any_dest(sig, dest, tx) == IF sig.tx = tx THEN sig.signer ELSE None

eth_recover(sig, dest, tx) ==
    IF sig.dest = dest /\ sig.tx = tx THEN sig.signer ELSE None

\* validate_unsigned accepts the call: asked by the transaction pool and
\* again when a block with the call is executed.
do_validate(n, dest, tx, sig) ==
    LET signer == eth_recover(sig, dest, tx)
        info == ElasticClaims[n][tx]
    IN /\ signer # None
       /\ info # None
       /\ info.address = signer
       /\ ~ info.claimed

\* The checks of do_claim, all made before its first write.
do_claim_succeeds(n, dest, tx, sig) ==
    LET info == ElasticClaims[n][tx]
        signer == eth_recover(sig, dest, tx)
    IN /\ info # None
       /\ ~ info.claimed
       /\ signer # None
       /\ info.address = signer

-----------------------------------------------------------------------------
(* Genesis: a new chain, or a chain that still holds the legacy storage    *)
(* and is about to get this runtime.                                       *)

NoClaims == [tx \in TxHashes |-> None]

InitLegacy ==
    \/ /\ runtime = "legacy"
       /\ BridgeAccount \in Accounts \cup {None}
       /\ ClaimLimit \in Limits
       /\ Claims \in [TxHashes ->
             [address : EthereumAddresses, amount : Values, claimed : BOOLEAN]
             \cup {None}]
       /\ MintFee \in Fees
       /\ BurnFee \in Fees
    \/ /\ runtime = "elastic"
       /\ BridgeAccount = None
       /\ ClaimLimit = 0
       /\ Claims = NoClaims
       /\ MintFee = 0
       /\ BurnFee = 0

Init == /\ ElasticBridgeAccounts = [n \in Networks |-> None]
        /\ ElasticClaimLimits = [n \in Networks |-> 0]
        /\ BridgeFees = [n \in Networks |-> None]
        /\ ElasticClaims = [n \in Networks |-> NoClaims]
        /\ PalletStorageVersion = 1
        /\ InitLegacy
        /\ free = GenesisBalances

-----------------------------------------------------------------------------
(* A block that starts with a new runtime runs the hook before any         *)
(* extrinsic.  The hook leaves ClaimLimit in place.                        *)

\* Mutant: the legacy claims are moved to every network.
claims_of_every_network(n) ==
    [tx \in TxHashes |-> IF ElasticClaims[n][tx] = None
                         THEN Claims[tx] ELSE ElasticClaims[n][tx]]

migrated_claims(n) ==
    IF n = BSC
    THEN [tx \in TxHashes |-> IF ElasticClaims[n][tx] = None
                              THEN Claims[tx] ELSE ElasticClaims[n][tx]]
    ELSE ElasticClaims[n]

\* Mutant: the migration does not record that it has run.
upgrade_unrecorded ==
    /\ ElasticClaims' = [n \in Networks |-> migrated_claims(n)]
    /\ ElasticClaimLimits' =
          [ElasticClaimLimits EXCEPT ![BSC] =
              IF ClaimLimit > 0 THEN ClaimLimit ELSE ElasticClaimLimits[BSC]]
    /\ Claims' = NoClaims
    /\ UNCHANGED <<ElasticBridgeAccounts, BridgeFees, PalletStorageVersion,
                   BridgeAccount, ClaimLimit, MintFee, BurnFee>>

on_runtime_upgrade ==
    IF PalletStorageVersion >= 2
    THEN UNCHANGED <<elasticVars, PalletStorageVersion, legacyVars>>
    ELSE /\ ElasticClaims' = [n \in Networks |-> migrated_claims(n)]
         /\ ElasticClaimLimits' =
               [ElasticClaimLimits EXCEPT ![BSC] =
                   IF ClaimLimit > 0 THEN ClaimLimit ELSE ElasticClaimLimits[BSC]]
         /\ ElasticBridgeAccounts' =
               [ElasticBridgeAccounts EXCEPT ![BSC] =
                   IF ElasticBridgeAccounts[BSC] = None
                   THEN BridgeAccount ELSE ElasticBridgeAccounts[BSC]]
         /\ BridgeFees' =
               [BridgeFees EXCEPT ![BSC] =
                   IF (MintFee > 0 \/ BurnFee > 0) /\ BridgeFees[BSC] = None
                   THEN <<MintFee, BurnFee>> ELSE BridgeFees[BSC]]
         /\ MintFee' = 0
         /\ BurnFee' = 0
         /\ Claims' = NoClaims
         /\ BridgeAccount' = None
         /\ UNCHANGED ClaimLimit
         /\ PalletStorageVersion' = 2

RuntimeUpgrade == /\ on_runtime_upgrade
                  /\ runtime' = "elastic"
                  /\ UNCHANGED free

-----------------------------------------------------------------------------
(* The calls. *)

set_bridge_account_elastic(n, to) ==
    /\ runtime = "elastic"
    /\ ElasticBridgeAccounts' = [ElasticBridgeAccounts EXCEPT ![n] = to]
    /\ UNCHANGED <<ElasticClaimLimits, BridgeFees, ElasticClaims,
                   PalletStorageVersion, legacyVars, runtime, free>>

set_claim_limit_elastic(n, limit) ==
    /\ runtime = "elastic"
    /\ ElasticClaimLimits' = [ElasticClaimLimits EXCEPT ![n] = limit]
    /\ UNCHANGED <<ElasticBridgeAccounts, BridgeFees, ElasticClaims,
                   PalletStorageVersion, legacyVars, runtime, free>>

set_bridge_fee_elastic(n, mint_fee, burn_fee) ==
    /\ runtime = "elastic"
    /\ BridgeFees' = [BridgeFees EXCEPT ![n] = <<mint_fee, burn_fee>>]
    /\ UNCHANGED <<ElasticBridgeAccounts, ElasticClaimLimits, ElasticClaims,
                   PalletStorageVersion, legacyVars, runtime, free>>

\* a - b, or 0 when b is larger.
saturating_sub(a, b) == IF a >= b THEN a - b ELSE 0

\* Mutant: the limit is not looked at.
limit_ignored(n, value) == TRUE

\* Mutant: the whole limit cannot be used.
limit_exceeds(n, value) == ElasticClaimLimits[n] > value

limit_allows(n, value) == ElasticClaimLimits[n] >= value

\* Mutant: the fee is minted on top of the value.
full_amount(n, value) == value

claim_amount(n, value) ==
    LET fee == bridge_fees(n)[1]
    IN IF fee > 0 THEN saturating_sub(value, fee) ELSE value

do_mint_claim(from, n, tx, who, value) ==
    LET fee == bridge_fees(n)[1]
    IN /\ ElasticBridgeAccounts[n] = from
       /\ ElasticClaims[n][tx] = None
       /\ limit_allows(n, value)
       /\ fee > 0 => value > fee
       /\ ElasticClaims' = [ElasticClaims EXCEPT ![n][tx] =
             [address |-> who, amount |-> claim_amount(n, value), claimed |-> FALSE]]
       /\ ElasticClaimLimits' = [ElasticClaimLimits EXCEPT ![n] =
             saturating_sub(ElasticClaimLimits[n], claim_amount(n, value))]
       /\ free' = IF fee > 0 THEN deposit_creating(free, ModuleAccount, fee) ELSE free

mint_claim_elastic(signer, n, tx, who, value) ==
    /\ runtime = "elastic"
    /\ do_mint_claim(signer, n, tx, who, value)
    /\ UNCHANGED <<ElasticBridgeAccounts, BridgeFees, PalletStorageVersion,
                   legacyVars, runtime>>

\* Mutant: the claim is paid but not marked as claimed.
claim_unmarked(n, dest, tx, sig) ==
    /\ do_claim_succeeds(n, dest, tx, sig)
    /\ free' = deposit_creating(free, dest, ElasticClaims[n][tx].amount)
    /\ UNCHANGED ElasticClaims

do_claim(n, dest, tx, sig) ==
    /\ do_claim_succeeds(n, dest, tx, sig)
    /\ free' = deposit_creating(free, dest, ElasticClaims[n][tx].amount)
    /\ ElasticClaims' = [ElasticClaims EXCEPT ![n][tx] =
          [address |-> ElasticClaims[n][tx].address,
           amount |-> ElasticClaims[n][tx].amount,
           claimed |-> TRUE]]

\* An unsigned call: executed only when validate_unsigned accepts it.
claim_elastic(n, dest, tx, sig) ==
    /\ runtime = "elastic"
    /\ do_validate(n, dest, tx, sig)
    /\ do_claim(n, dest, tx, sig)
    /\ UNCHANGED <<ElasticBridgeAccounts, ElasticClaimLimits, BridgeFees,
                   PalletStorageVersion, legacyVars, runtime>>

\* The amount announced to the foreign network in the ElasticBurned event.
burn_amount(n, amount) ==
    LET fee == bridge_fees(n)[2]
    IN IF fee > 0 THEN saturating_sub(amount, fee) ELSE amount

do_burn(who, n, amount) ==
    LET fee == bridge_fees(n)[2]
    IN /\ fee > 0 => amount > fee
       /\ can_withdraw_keep_alive(free, who, amount)
       /\ free' = IF fee > 0
                  THEN deposit_creating(withdraw(free, who, amount), ModuleAccount, fee)
                  ELSE withdraw(free, who, amount)

burn_elastic(who, n, amount) ==
    /\ runtime = "elastic"
    /\ do_burn(who, n, amount)
    /\ UNCHANGED <<elasticVars, PalletStorageVersion, legacyVars, runtime>>

Next ==
    \/ RuntimeUpgrade
    \/ \E n \in Networks :
          \/ \E to \in Accounts : set_bridge_account_elastic(n, to)
          \/ \E limit \in Limits : set_claim_limit_elastic(n, limit)
          \/ \E mint_fee, burn_fee \in Fees : set_bridge_fee_elastic(n, mint_fee, burn_fee)
          \/ \E signer \in Accounts, tx \in TxHashes, who \in EthereumAddresses,
                value \in Values : mint_claim_elastic(signer, n, tx, who, value)
          \/ \E dest \in Accounts, tx \in TxHashes, sig \in Signatures :
                claim_elastic(n, dest, tx, sig)
          \/ \E who \in Accounts, amount \in Values : burn_elastic(who, n, amount)

Spec == Init /\ [][Next]_vars

-----------------------------------------------------------------------------
(* Properties. *)

(* The storage that is in force, wherever the runtime keeps it: a legacy   *)
(* chain keeps the data of BSC in the legacy items until it is upgraded.   *)
ledger == IF runtime = "legacy"
          THEN [ElasticClaims EXCEPT ![BSC] = Claims]
          ELSE ElasticClaims

allowance == IF runtime = "legacy"
             THEN [ElasticClaimLimits EXCEPT ![BSC] = ClaimLimit]
             ELSE ElasticClaimLimits

Ledger == INSTANCE BridgeLedger WITH
             ledger <- ledger, allowance <- allowance, holdings <- free,
             FeeAccount <- ModuleAccount

(* The pallet implements the bridge ledger: no transaction is minted or    *)
(* paid twice, no entry is altered or lost, the limits are spent exactly,  *)
(* and every runtime upgrade, the migration included, is invisible to the  *)
(* users of the bridge.                                                    *)
ImplementsLedger == Ledger!Spec

(* Data is never in force in both storages: until the upgrade the elastic  *)
(* storage is empty, and once the elastic calls can run, either the legacy *)
(* storage is empty or the migration is over.  So no order of upgrades and *)
(* calls makes on_runtime_upgrade overwrite what the elastic calls wrote,  *)
(* although it does not look before it sets the limit, and never clears    *)
(* the legacy limit.                                                       *)
OneStorageInForce ==
    /\ runtime = "legacy" =>
          /\ PalletStorageVersion = 1
          /\ ElasticClaims = [n \in Networks |-> NoClaims]
          /\ ElasticClaimLimits = [n \in Networks |-> 0]
          /\ ElasticBridgeAccounts = [n \in Networks |-> None]
          /\ BridgeFees = [n \in Networks |-> None]
    /\ runtime = "elastic" /\ PalletStorageVersion = 1 =>
          /\ Claims = NoClaims
          /\ ClaimLimit = 0
          /\ BridgeAccount = None
          /\ MintFee = 0 /\ BurnFee = 0

=============================================================================
