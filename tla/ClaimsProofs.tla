---------------------------- MODULE ClaimsProofs ----------------------------
(***************************************************************************)
(* Proofs about the claims pallet, alone and behind the transaction pools  *)
(* of the nodes, for all sets of networks, transactions, accounts, nodes   *)
(* and amounts: its storage keeps its type, legacy and elastic storage are *)
(* never in force together, the pallet implements the bridge ledger, whose *)
(* entries are paid once, the pools hold only claims that succeed, and a   *)
(* claim is paid only as its owner has signed it.                          *)
(***************************************************************************)
EXTENDS ClaimsPool, TLAPS

USE DEF Balance

(* A deposit keeps balances within the balance type. *)
LEMMA DepositType ==
    ASSUME NEW f \in [Accounts -> Balance], NEW who \in Accounts, NEW v \in Balance
    PROVE  deposit_creating(f, who, v) \in [Accounts -> Balance]
  BY CurrencyAssumption DEF deposit_creating, credited

(* With an existential deposit of at most one, a deposit is what the       *)
(* ledger calls a payment: all of the value, unless it does not fit.       *)
LEMMA DepositIsPay ==
    ASSUME NEW f \in [Accounts -> Balance], NEW who \in Accounts, NEW v \in Balance
    PROVE  deposit_creating(f, who, v) = Ledger!Pay(f, who, v)
  <1>1. /\ f[who] \in Nat /\ v \in Nat /\ MaxBalance \in Nat
        /\ ExistentialDeposit = 0 \/ ExistentialDeposit = 1
    BY CurrencyAssumption, DepositAssumption
  <1>2. f[who] + credited(f, who, v) =
           IF f[who] + v <= MaxBalance THEN f[who] + v ELSE f[who]
    BY <1>1 DEF credited
  <1>3. QED BY <1>2 DEF deposit_creating, Ledger!Pay

(* A withdrawal the pallet allows takes no more than the account has. *)
LEMMA WithdrawType ==
    ASSUME NEW f \in [Accounts -> Balance], NEW who \in Accounts, NEW v \in Balance,
           can_withdraw_keep_alive(f, who, v)
    PROVE  /\ v <= f[who]
           /\ withdraw(f, who, v) \in [Accounts -> Balance]
  BY CurrencyAssumption DEF can_withdraw_keep_alive, withdraw

(* The fees in force are balances. *)
LEMMA FeesType ==
    ASSUME TypeOK, NEW n \in Networks
    PROVE  bridge_fees(n)[1] \in Balance /\ bridge_fees(n)[2] \in Balance
  BY CurrencyAssumption DEF TypeOK, bridge_fees

(* The storage before the first step, on a new and on a legacy chain, is     *)
(* well typed.                                                               *)
LEMMA InitType == Init => TypeOK
  BY ClaimsAssumption, CurrencyAssumption
  DEF Init, InitLegacy, TypeOK, NoClaims, ClaimInfo

-----------------------------------------------------------------------------
(* What a mint does, as the proofs use it. *)
LEMMA MintStep ==
    ASSUME TypeOK, NEW signer \in Accounts, NEW n \in Networks, NEW tx \in TxHashes,
           NEW who \in EthereumAddresses, NEW value \in Values,
           mint_claim_elastic(signer, n, tx, who, value)
    PROVE  \E amount \in Balance, fee \in Balance :
              /\ amount + fee <= ElasticClaimLimits[n]
              /\ ElasticClaims[n][tx] = None
              /\ ElasticClaims' = [ElasticClaims EXCEPT ![n][tx] =
                    [address |-> who, amount |-> amount, claimed |-> FALSE]]
              /\ ElasticClaimLimits' = [ElasticClaimLimits EXCEPT ![n] =
                    ElasticClaimLimits[n] - amount]
              /\ free' = deposit_creating(free, ModuleAccount, fee)
  <1> DEFINE fee == bridge_fees(n)[1]
             amount == IF fee > 0 THEN saturating_sub(value, fee) ELSE value
  <1>1. fee \in Balance /\ value \in Balance /\ ElasticClaimLimits[n] \in Balance
    BY FeesType, ClaimsAssumption DEF TypeOK
  <1>2. /\ ElasticClaims[n][tx] = None
        /\ ElasticClaimLimits[n] >= value
        /\ fee > 0 => value > fee
        /\ ElasticClaims' = [ElasticClaims EXCEPT ![n][tx] =
              [address |-> who, amount |-> amount, claimed |-> FALSE]]
        /\ ElasticClaimLimits' = [ElasticClaimLimits EXCEPT ![n] =
              saturating_sub(ElasticClaimLimits[n], amount)]
        /\ free' = IF fee > 0 THEN deposit_creating(free, ModuleAccount, fee) ELSE free
    BY DEF mint_claim_elastic, do_mint_claim, limit_allows, claim_amount
  <1>3. /\ amount \in Balance
        /\ amount + fee <= ElasticClaimLimits[n]
        /\ saturating_sub(ElasticClaimLimits[n], amount) = ElasticClaimLimits[n] - amount
    BY <1>1, <1>2, CurrencyAssumption DEF saturating_sub
  <1>4. free' = deposit_creating(free, ModuleAccount, fee)
    <2>1. CASE fee > 0
      BY <2>1, <1>2
    <2>2. CASE fee = 0
      BY <2>2, <1>2, ClaimsAssumption, CurrencyAssumption
      DEF TypeOK, deposit_creating, credited
    <2>3. QED BY <1>1, <2>1, <2>2, CurrencyAssumption
  <1>5. QED BY <1>1, <1>2, <1>3, <1>4

-----------------------------------------------------------------------------
(* on_runtime_upgrade keeps the types, with and without a migration.         *)
LEMMA UpgradeType == TypeOK /\ RuntimeUpgrade => TypeOK'
  <1> SUFFICES ASSUME TypeOK, RuntimeUpgrade PROVE TypeOK'
    OBVIOUS
  <1>1. CASE PalletStorageVersion >= 2
    BY <1>1 DEF TypeOK, RuntimeUpgrade, on_runtime_upgrade, elasticVars, legacyVars
  <1>2. CASE ~ (PalletStorageVersion >= 2)
    <2>1. \A n \in Networks : migrated_claims(n) \in [TxHashes -> ClaimInfo \cup {None}]
      BY DEF TypeOK, migrated_claims
    <2>2. ElasticClaims' \in [Networks -> [TxHashes -> ClaimInfo \cup {None}]]
      BY <1>2, <2>1 DEF RuntimeUpgrade, on_runtime_upgrade
    <2>3. BridgeFees' \in [Networks -> (Balance \X Balance) \cup {None}]
      BY <1>2 DEF TypeOK, RuntimeUpgrade, on_runtime_upgrade
    <2>4. ElasticClaimLimits' \in [Networks -> Balance]
      BY <1>2 DEF TypeOK, RuntimeUpgrade, on_runtime_upgrade
    <2>5. ElasticBridgeAccounts' \in [Networks -> Accounts \cup {None}]
      BY <1>2 DEF TypeOK, RuntimeUpgrade, on_runtime_upgrade
    <2>6. /\ MintFee' = 0 /\ BurnFee' = 0 /\ BridgeAccount' = None
          /\ Claims' = NoClaims /\ ClaimLimit' = ClaimLimit
          /\ PalletStorageVersion' = 2 /\ runtime' = "elastic" /\ free' = free
      BY <1>2 DEF RuntimeUpgrade, on_runtime_upgrade
    <2>7. NoClaims \in [TxHashes -> ClaimInfo \cup {None}] /\ 0 \in Balance
      BY CurrencyAssumption DEF NoClaims
    <2>8. QED
      BY <2>2, <2>3, <2>4, <2>5, <2>6, <2>7 DEF TypeOK
  <1>3. QED BY <1>1, <1>2

(* One step of any call or upgrade keeps the storage well typed. *)
LEMMA NextType == TypeOK /\ [Next]_vars => TypeOK'
  <1> SUFFICES ASSUME TypeOK, [Next]_vars PROVE TypeOK'
    OBVIOUS
  <1>1. CASE RuntimeUpgrade
    BY <1>1, UpgradeType
  <1>2. ASSUME NEW n \in Networks, NEW to \in Accounts, set_bridge_account_elastic(n, to)
        PROVE  TypeOK'
    BY <1>2 DEF set_bridge_account_elastic, TypeOK, legacyVars
  <1>3. ASSUME NEW n \in Networks, NEW limit \in Limits, set_claim_limit_elastic(n, limit)
        PROVE  TypeOK'
    BY <1>3, ClaimsAssumption DEF set_claim_limit_elastic, TypeOK, legacyVars
  <1>4. ASSUME NEW n \in Networks, NEW mint_fee \in Fees, NEW burn_fee \in Fees,
               set_bridge_fee_elastic(n, mint_fee, burn_fee)
        PROVE  TypeOK'
    BY <1>4, ClaimsAssumption DEF set_bridge_fee_elastic, TypeOK, legacyVars
  <1>5. ASSUME NEW n \in Networks, NEW signer \in Accounts, NEW tx \in TxHashes,
               NEW who \in EthereumAddresses, NEW value \in Values,
               mint_claim_elastic(signer, n, tx, who, value)
        PROVE  TypeOK'
    <2>1. PICK amount \in Balance, fee \in Balance :
             /\ amount + fee <= ElasticClaimLimits[n]
             /\ ElasticClaims' = [ElasticClaims EXCEPT ![n][tx] =
                   [address |-> who, amount |-> amount, claimed |-> FALSE]]
             /\ ElasticClaimLimits' = [ElasticClaimLimits EXCEPT ![n] =
                   ElasticClaimLimits[n] - amount]
             /\ free' = deposit_creating(free, ModuleAccount, fee)
      BY <1>5, MintStep
    <2>2. ElasticClaims' \in [Networks -> [TxHashes -> ClaimInfo \cup {None}]]
      BY <2>1 DEF TypeOK, ClaimInfo
    <2>3. ElasticClaimLimits' \in [Networks -> Balance]
      BY <2>1, CurrencyAssumption DEF TypeOK
    <2>4. free' \in [Accounts -> Balance]
      BY <2>1, DepositType, ClaimsAssumption DEF TypeOK
    <2>5. QED
      BY <1>5, <2>2, <2>3, <2>4 DEF TypeOK, mint_claim_elastic, legacyVars
  <1>6. ASSUME NEW n \in Networks, NEW dest \in Accounts, NEW tx \in TxHashes,
               NEW sig \in Signatures, claim_elastic(n, dest, tx, sig)
        PROVE  TypeOK'
    <2>1. ElasticClaims[n][tx] \in ClaimInfo
      BY <1>6 DEF TypeOK, claim_elastic, do_claim, do_claim_succeeds
    <2>2. ElasticClaims' \in [Networks -> [TxHashes -> ClaimInfo \cup {None}]]
      BY <1>6, <2>1 DEF TypeOK, ClaimInfo, claim_elastic, do_claim
    <2>3. free' \in [Accounts -> Balance]
      BY <1>6, <2>1, DepositType DEF TypeOK, ClaimInfo, claim_elastic, do_claim
    <2>4. QED
      BY <1>6, <2>2, <2>3 DEF TypeOK, claim_elastic, legacyVars
  <1>7. ASSUME NEW n \in Networks, NEW who \in Accounts, NEW amount \in Values,
               burn_elastic(who, n, amount)
        PROVE  TypeOK'
    <2>1. withdraw(free, who, amount) \in [Accounts -> Balance]
      BY <1>7, WithdrawType, ClaimsAssumption DEF TypeOK, burn_elastic, do_burn
    <2>2. free' \in [Accounts -> Balance]
      BY <1>7, <2>1, FeesType, DepositType, ClaimsAssumption
      DEF burn_elastic, do_burn
    <2>3. QED
      BY <1>7, <2>2 DEF TypeOK, burn_elastic, elasticVars, legacyVars
  <1>8. CASE UNCHANGED vars
    BY <1>8 DEF TypeOK, vars, elasticVars, legacyVars
  <1>9. QED
    BY <1>1, <1>2, <1>3, <1>4, <1>5, <1>6, <1>7, <1>8 DEF Next

(* The storage items of the pallet always have their type: in particular   *)
(* no limit and no balance leaves the range of the balance type.           *)
THEOREM TypeCorrect == Spec => []TypeOK
  BY InitType, NextType, PTL DEF Spec

-----------------------------------------------------------------------------
(* No step puts data in force in both storages.                              *)
LEMMA NextOneStorage ==
    TypeOK /\ OneStorageInForce /\ [Next]_vars => OneStorageInForce'
  <1> SUFFICES ASSUME TypeOK, OneStorageInForce, [Next]_vars
               PROVE  OneStorageInForce'
    OBVIOUS
  <1>1. CASE RuntimeUpgrade
    <2>1. runtime' = "elastic"
      BY <1>1 DEF RuntimeUpgrade
    <2>2. PalletStorageVersion' # 1
      BY <1>1 DEF RuntimeUpgrade, on_runtime_upgrade, TypeOK
    <2>3. QED BY <2>1, <2>2 DEF OneStorageInForce
  <1>2. CASE /\ runtime = "elastic"
             /\ UNCHANGED <<runtime, PalletStorageVersion, legacyVars>>
    BY <1>2 DEF OneStorageInForce, legacyVars, NoClaims
  <1>3. CASE UNCHANGED vars
    BY <1>3 DEF OneStorageInForce, vars, elasticVars, legacyVars, NoClaims
  <1>4. Next => \/ RuntimeUpgrade
                \/ /\ runtime = "elastic"
                   /\ UNCHANGED <<runtime, PalletStorageVersion, legacyVars>>
    BY DEF Next, set_bridge_account_elastic, set_claim_limit_elastic,
           set_bridge_fee_elastic, mint_claim_elastic, claim_elastic, burn_elastic
  <1>5. QED BY <1>1, <1>2, <1>3, <1>4

(* Legacy and elastic storage are never in force together, whatever the    *)
(* order of runtime upgrades and calls.                                    *)
THEOREM OneStorage == Spec => []OneStorageInForce
  <1>1. Init => OneStorageInForce
    BY DEF Init, InitLegacy, OneStorageInForce
  <1>2. QED BY <1>1, TypeCorrect, NextOneStorage, PTL DEF Spec

-----------------------------------------------------------------------------
(* The refinement.  In the ledger an upgrade is not a step. *)

(* The storage in force at the start is an initial ledger.                   *)
LEMMA InitRefines == Init => Ledger!Init
  <1> SUFFICES ASSUME Init PROVE Ledger!Init
    OBVIOUS
  <1>1. TypeOK
    BY InitType
  <1>2. ledger \in [Networks -> [TxHashes -> ClaimInfo \cup {None}]]
    BY <1>1 DEF TypeOK, ledger
  <1>3. allowance \in [Networks -> Balance]
    BY <1>1 DEF TypeOK, allowance
  <1>4. QED
    BY <1>1, <1>2, <1>3
    DEF TypeOK, ClaimInfo, Ledger!Init, Ledger!Entry, Ledger!Amount

(* on_runtime_upgrade, the migration included, leaves the ledger as it is.   *)
LEMMA UpgradeRefines ==
    ASSUME TypeOK, OneStorageInForce, RuntimeUpgrade
    PROVE  UNCHANGED <<ledger, allowance, free>>
  <1>1. runtime' = "elastic" /\ free' = free
    BY DEF RuntimeUpgrade
  <1>2. CASE PalletStorageVersion >= 2
    <2>1. runtime = "elastic"
      BY <1>2 DEF OneStorageInForce, TypeOK
    <2>2. QED
      BY <1>1, <1>2, <2>1
      DEF RuntimeUpgrade, on_runtime_upgrade, elasticVars, ledger, allowance
  <1>3. CASE PalletStorageVersion = 1
    <2>1. /\ ElasticClaims' = [n \in Networks |-> migrated_claims(n)]
          /\ ElasticClaimLimits' =
               [ElasticClaimLimits EXCEPT ![BSC] =
                   IF ClaimLimit > 0 THEN ClaimLimit ELSE ElasticClaimLimits[BSC]]
      BY <1>3 DEF RuntimeUpgrade, on_runtime_upgrade
    <2>2. CASE runtime = "legacy"
      <3>1. /\ ElasticClaims = [n \in Networks |-> NoClaims]
            /\ ElasticClaimLimits = [n \in Networks |-> 0]
        BY <2>2 DEF OneStorageInForce
      <3>2. \A n \in Networks :
               migrated_claims(n) = IF n = BSC THEN Claims ELSE ElasticClaims[n]
        BY <3>1 DEF migrated_claims, NoClaims, TypeOK
      <3>3. ElasticClaims' = [ElasticClaims EXCEPT ![BSC] = Claims]
        <4>1. ElasticClaims' = [n \in Networks |->
                                  IF n = BSC THEN Claims ELSE ElasticClaims[n]]
          BY <2>1, <3>2
        <4>2. QED BY <4>1, <3>1
      <3>4. ElasticClaimLimits' = [ElasticClaimLimits EXCEPT ![BSC] = ClaimLimit]
        <4>1. ClaimLimit \in Nat /\ ElasticClaimLimits[BSC] = 0
          BY <3>1, ClaimsAssumption, CurrencyAssumption DEF TypeOK
        <4>2. (IF ClaimLimit > 0 THEN ClaimLimit ELSE ElasticClaimLimits[BSC]) = ClaimLimit
          BY <4>1
        <4>3. QED BY <2>1, <4>2
      <3>5. QED BY <1>1, <2>2, <3>3, <3>4 DEF ledger, allowance
    <2>3. CASE runtime = "elastic"
      <3>1. Claims = NoClaims /\ ClaimLimit = 0
        BY <1>3, <2>3 DEF OneStorageInForce
      <3>2. \A n \in Networks : migrated_claims(n) = ElasticClaims[n]
        BY <3>1 DEF migrated_claims, NoClaims, TypeOK
      <3>3. ElasticClaims' = ElasticClaims
        BY <2>1, <3>2 DEF TypeOK
      <3>4. ElasticClaimLimits' = ElasticClaimLimits
        BY <2>1, <3>1 DEF TypeOK
      <3>5. QED BY <1>1, <2>3, <3>3, <3>4 DEF ledger, allowance
    <2>4. QED BY <2>2, <2>3 DEF TypeOK
  <1>4. QED BY <1>2, <1>3 DEF TypeOK

(* mint_claim_elastic is a mint of the ledger.                               *)
LEMMA MintRefines ==
    ASSUME TypeOK, NEW signer \in Accounts, NEW n \in Networks, NEW tx \in TxHashes,
           NEW who \in EthereumAddresses, NEW value \in Values,
           mint_claim_elastic(signer, n, tx, who, value)
    PROVE  Ledger!Mint(n, tx)
  <1>1. runtime = "elastic" /\ runtime' = "elastic"
    BY DEF mint_claim_elastic
  <1>2. PICK amount \in Balance, fee \in Balance :
              /\ amount + fee <= ElasticClaimLimits[n]
              /\ ElasticClaims[n][tx] = None
              /\ ElasticClaims' = [ElasticClaims EXCEPT ![n][tx] =
                    [address |-> who, amount |-> amount, claimed |-> FALSE]]
              /\ ElasticClaimLimits' = [ElasticClaimLimits EXCEPT ![n] =
                    ElasticClaimLimits[n] - amount]
              /\ free' = deposit_creating(free, ModuleAccount, fee)
    BY MintStep
  <1>3. free' = Ledger!Pay(free, ModuleAccount, fee)
    BY <1>2, DepositIsPay, ClaimsAssumption DEF TypeOK
  <1>4. QED
    BY <1>1, <1>2, <1>3 DEF Ledger!Mint, Ledger!Amount, ledger, allowance

(* claim_elastic is a claim of the ledger.                                   *)
LEMMA ClaimRefines ==
    ASSUME TypeOK, NEW n \in Networks, NEW dest \in Accounts, NEW tx \in TxHashes,
           NEW sig \in Signatures, claim_elastic(n, dest, tx, sig)
    PROVE  Ledger!Claim(n, tx)
  <1>1. /\ runtime = "elastic" /\ runtime' = "elastic"
        /\ ElasticClaimLimits' = ElasticClaimLimits
    BY DEF claim_elastic
  <1>2. /\ ElasticClaims[n][tx] \in ClaimInfo
        /\ ElasticClaims[n][tx] # None
        /\ ~ ElasticClaims[n][tx].claimed
    BY DEF TypeOK, claim_elastic, do_claim, do_claim_succeeds
  <1>3. ElasticClaims' = [ElasticClaims EXCEPT ![n][tx].claimed = TRUE]
    BY <1>2 DEF TypeOK, ClaimInfo, claim_elastic, do_claim
  <1>4. free' = Ledger!Pay(free, dest, ElasticClaims[n][tx].amount)
    BY <1>2, DepositIsPay DEF TypeOK, ClaimInfo, claim_elastic, do_claim
  <1>5. QED
    BY <1>1, <1>2, <1>3, <1>4 DEF Ledger!Claim, ledger, allowance

(* burn_elastic is a burn of the ledger.                                     *)
LEMMA BurnRefines ==
    ASSUME TypeOK, NEW n \in Networks, NEW who \in Accounts, NEW amount \in Values,
           burn_elastic(who, n, amount)
    PROVE  Ledger!Burn(who)
  <1> DEFINE fee == bridge_fees(n)[2]
             left == withdraw(free, who, amount)
  <1>1. /\ UNCHANGED <<ledger, allowance>>
        /\ fee > 0 => amount > fee
        /\ can_withdraw_keep_alive(free, who, amount)
        /\ free' = IF fee > 0 THEN deposit_creating(left, ModuleAccount, fee) ELSE left
    BY DEF burn_elastic, do_burn, elasticVars, ledger, allowance
  <1>2. fee \in Balance /\ amount \in Balance
    BY FeesType, ClaimsAssumption
  <1>3. amount <= free[who] /\ left \in [Accounts -> Balance]
    BY <1>1, <1>2, WithdrawType DEF TypeOK
  <1>4. free' = Ledger!Pay(left, ModuleAccount, fee)
    <2>1. CASE fee > 0
      BY <1>1, <1>2, <1>3, <2>1, DepositIsPay, ClaimsAssumption
    <2>2. CASE fee = 0
      BY <1>1, <1>2, <1>3, <2>2, ClaimsAssumption, CurrencyAssumption DEF Ledger!Pay
    <2>3. QED BY <1>2, <2>1, <2>2, CurrencyAssumption
  <1>5. fee <= amount
    BY <1>1, <1>2, CurrencyAssumption
  <1>6. QED
    BY <1>1, <1>2, <1>3, <1>4, <1>5 DEF Ledger!Burn, Ledger!Amount, withdraw

(* The claims pallet, with its upgrades, implements the bridge ledger.     *)
THEOREM Refinement == Spec => ImplementsLedger
  <1>1. TypeOK /\ OneStorageInForce /\ [Next]_vars => [Ledger!Next]_(Ledger!vars)
    <2> SUFFICES ASSUME TypeOK, OneStorageInForce, [Next]_vars
                 PROVE  Ledger!Next \/ UNCHANGED <<ledger, allowance, free>>
      BY DEF Ledger!vars
    <2>1. CASE RuntimeUpgrade
      BY <2>1, UpgradeRefines
    <2>2. ASSUME NEW n \in Networks, NEW to \in Accounts, set_bridge_account_elastic(n, to)
          PROVE  UNCHANGED <<ledger, allowance, free>>
      BY <2>2 DEF set_bridge_account_elastic, ledger, allowance
    <2>3. ASSUME NEW n \in Networks, NEW limit \in Limits, set_claim_limit_elastic(n, limit)
          PROVE  Ledger!SetAllowance
      BY <2>3, ClaimsAssumption
      DEF set_claim_limit_elastic, ledger, allowance, Ledger!SetAllowance, Ledger!Amount
    <2>4. ASSUME NEW n \in Networks, NEW mint_fee \in Fees, NEW burn_fee \in Fees,
                 set_bridge_fee_elastic(n, mint_fee, burn_fee)
          PROVE  UNCHANGED <<ledger, allowance, free>>
      BY <2>4 DEF set_bridge_fee_elastic, ledger, allowance
    <2>5. CASE UNCHANGED vars
      BY <2>5 DEF vars, elasticVars, legacyVars, ledger, allowance
    <2>6. QED
      BY <2>1, <2>2, <2>3, <2>4, <2>5, MintRefines, ClaimRefines, BurnRefines
      DEF Next, Ledger!Next
  <1>2. QED
    BY <1>1, InitRefines, TypeCorrect, OneStorage, PTL
    DEF Spec, ImplementsLedger, Ledger!Spec

(* What the bridge ledger promises of a step, from entries old to new and    *)
(* from balances had to have: entries keep owner and amount and stay paid.   *)
(* Nobody but the fee account gets more without being paid an entry of that  *)
(* very amount.                                                              *)
EntryKept(old, new) ==
    old # None => /\ new # None
                  /\ new.address = old.address /\ new.amount = old.amount
                  /\ old.claimed => new.claimed

PaidOut(n, tx, old, new, gain) ==
    old[n][tx] # None /\ ~old[n][tx].claimed /\ new[n][tx].claimed /\ gain = old[n][tx].amount

KeepsPromises(old, new, had, have) ==
    /\ \A n \in Networks, tx \in TxHashes : EntryKept(old[n][tx], new[n][tx])
    /\ \A a \in Accounts \ {ModuleAccount} : have[a] > had[a] =>
          \E n \in Networks, tx \in TxHashes : PaidOut(n, tx, old, new, have[a] - had[a])

(* A transaction is paid once, as it was minted: entries are final, over     *)
(* upgrades and the migration too, and no call enriches anybody but by       *)
(* paying an entry.                                                          *)
EntriesAreFinal == [][KeepsPromises(ledger, ledger', free, free')]_<<ledger, allowance, free>>

(* A payment raises one balance, and by no more than its amount.             *)
LEMMA PayGain ==
    ASSUME NEW h \in [Accounts -> Balance], NEW who \in Accounts, NEW v \in Balance,
           NEW a \in Accounts
    PROVE  /\ a # who => Ledger!Pay(h, who, v)[a] = h[a]
           /\ Ledger!Pay(h, who, v)[a] = h[a] \/ Ledger!Pay(h, who, v)[a] = h[a] + v
  BY CurrencyAssumption DEF Ledger!Pay

(* Every step of the bridge ledger keeps its promises.                       *)
LEMMA LedgerStep ==
    ASSUME ledger \in [Networks -> [TxHashes -> Ledger!Entry \cup {None}]],
           free \in [Accounts -> Balance], None \notin Ledger!Entry, Ledger!Next
    PROVE  KeepsPromises(ledger, ledger', free, free')
<1> USE DEF Ledger!Amount
<1>1. CASE Ledger!SetAllowance
  <2>1. ledger' = ledger /\ free' = free
    BY <1>1 DEF Ledger!SetAllowance
  <2>2. \A a \in Accounts : ~(free'[a] > free[a])
    BY <2>1, CurrencyAssumption
  <2> QED
    BY <2>1, <2>2, Zenon DEF KeepsPromises, EntryKept
<1>2. ASSUME NEW n \in Networks, NEW tx \in TxHashes, Ledger!Mint(n, tx)
      PROVE  KeepsPromises(ledger, ledger', free, free')
  <2>1. PICK who \in EthereumAddresses, amount \in Balance, fee \in Balance :
           /\ ledger[n][tx] = None
           /\ ledger' = [ledger EXCEPT ![n][tx] =
                            [address |-> who, amount |-> amount, claimed |-> FALSE]]
           /\ free' = Ledger!Pay(free, ModuleAccount, fee)
    BY <1>2 DEF Ledger!Mint
  <2>2. \A a \in Accounts \ {ModuleAccount} : free'[a] = free[a]
    BY <2>1, PayGain, ClaimsAssumption
  <2>3. \A a \in Accounts \ {ModuleAccount} : ~(free'[a] > free[a])
    BY <2>2, CurrencyAssumption
  <2>4. ASSUME NEW m \in Networks, NEW t \in TxHashes
        PROVE  EntryKept(ledger[m][t], ledger'[m][t])
    BY <2>1 DEF EntryKept
  <2> QED
    BY <2>3, <2>4, Zenon DEF KeepsPromises
<1>3. ASSUME NEW n \in Networks, NEW tx \in TxHashes, Ledger!Claim(n, tx)
      PROVE  KeepsPromises(ledger, ledger', free, free')
  <2>1. PICK dest \in Accounts :
           /\ ledger[n][tx] # None /\ ~ledger[n][tx].claimed
           /\ ledger' = [ledger EXCEPT ![n][tx].claimed = TRUE]
           /\ free' = Ledger!Pay(free, dest, ledger[n][tx].amount)
    BY <1>3 DEF Ledger!Claim
  <2>2. ledger[n][tx] \in Ledger!Entry
    BY <2>1
  <2>3. ledger[n][tx].amount \in Balance
    BY <2>2 DEF Ledger!Entry
  <2>4. ASSUME NEW m \in Networks, NEW t \in TxHashes
        PROVE  EntryKept(ledger[m][t], ledger'[m][t])
    <3>1. CASE m = n /\ t = tx
      <4>1. ledger'[m][t] = [ledger[n][tx] EXCEPT !.claimed = TRUE]
        BY <2>1, <3>1
      <4>2. ledger'[m][t] \in Ledger!Entry
        BY <2>2, <4>1 DEF Ledger!Entry
      <4> QED
        BY <2>2, <3>1, <4>1, <4>2 DEF EntryKept, Ledger!Entry
    <3>2. CASE ~(m = n /\ t = tx)
      <4>1. ledger'[m][t] = ledger[m][t]
        BY <2>1, <3>2
      <4> QED
        BY <4>1 DEF EntryKept
    <3> QED
      BY <3>1, <3>2
  <2>5. ASSUME NEW a \in Accounts \ {ModuleAccount}, free'[a] > free[a]
        PROVE  PaidOut(n, tx, ledger, ledger', free'[a] - free[a])
    <3>1. free'[a] = free[a] \/ free'[a] = free[a] + ledger[n][tx].amount
      BY <2>1, <2>3, PayGain
    <3>2. free[a] \in Nat /\ ledger[n][tx].amount \in Nat
      BY <2>3, CurrencyAssumption
    <3>3. free'[a] - free[a] = ledger[n][tx].amount
      BY <2>5, <3>1, <3>2
    <3>4. ledger'[n][tx].claimed
      BY <2>1, <2>2 DEF Ledger!Entry
    <3> QED
      BY <2>1, <3>3, <3>4 DEF PaidOut
  <2> QED
    BY <2>4, <2>5, Zenon DEF KeepsPromises
<1>4. ASSUME NEW who \in Accounts, Ledger!Burn(who)
      PROVE  KeepsPromises(ledger, ledger', free, free')
  <2>1. PICK amount \in Balance, fee \in Balance :
           /\ amount <= free[who]
           /\ free' = Ledger!Pay([free EXCEPT ![who] = free[who] - amount], ModuleAccount, fee)
           /\ ledger' = ledger
    BY <1>4 DEF Ledger!Burn
  <2> DEFINE left == [free EXCEPT ![who] = free[who] - amount]
  <2>2. left \in [Accounts -> Balance] /\ \A a \in Accounts : left[a] <= free[a]
    BY <2>1, CurrencyAssumption
  <2> HIDE DEF left
  <2>3. ASSUME NEW a \in Accounts \ {ModuleAccount}
        PROVE  ~(free'[a] > free[a])
    <3>1. free' = Ledger!Pay(left, ModuleAccount, fee)
      BY <2>1 DEF left
    <3>2. Ledger!Pay(left, ModuleAccount, fee)[a] = left[a]
      BY <2>2, PayGain, ClaimsAssumption
    <3> QED
      BY <2>2, <3>1, <3>2, CurrencyAssumption
  <2> QED
    BY <2>1, <2>3, Zenon DEF KeepsPromises, EntryKept
<1> QED
  BY <1>1, <1>2, <1>3, <1>4 DEF Ledger!Next

(* Every transaction is minted and paid once and as it was minted, and no    *)
(* call of the pallet enriches anybody but by paying an entry: what follows  *)
(* for the users of the bridge from the refinement.                          *)
THEOREM PaidOnce == Spec => EntriesAreFinal
<1>1. TypeOK /\ [Ledger!Next]_(Ledger!vars) =>
         [KeepsPromises(ledger, ledger', free, free')]_<<ledger, allowance, free>>
  <2> SUFFICES ASSUME TypeOK, Ledger!Next
               PROVE  KeepsPromises(ledger, ledger', free, free')
    BY DEF Ledger!vars
  <2>1. /\ ledger \in [Networks -> [TxHashes -> Ledger!Entry \cup {None}]]
        /\ None \notin Ledger!Entry
    BY ClaimsAssumption DEF TypeOK, ClaimInfo, ledger, Ledger!Entry, Ledger!Amount
  <2> QED
    BY <2>1, LedgerStep DEF TypeOK
<1> QED
  BY <1>1, TypeCorrect, Refinement, PTL DEF ImplementsLedger, Ledger!Spec, EntriesAreFinal

-----------------------------------------------------------------------------
(* The transaction pools.                                                    *)

(* The inductive invariant: a call in a pool is valid, its message was     *)
(* signed, and it came in under the elastic runtime, so that no migration  *)
(* is ahead that could bring its claim back.                               *)
PInv ==
    /\ TypeOK /\ OneStorageInForce
    /\ pool \in [Nodes -> SUBSET Calls]
    /\ \A node \in Nodes : \A c \in pool[node] :
          runtime = "elastic" /\ valid(c) /\ c.sig \in signed

(* Minted, existing claims are left alone by all the calls but claim, and  *)
(* by the migration.                                                       *)
LEMMA OtherBlockKeepsClaims ==
    ASSUME PInv, OtherBlock
    PROVE  /\ Next
           /\ runtime' = "elastic"
           /\ \A n \in Networks, tx \in TxHashes :
                 ElasticClaims[n][tx] # None => ElasticClaims'[n][tx] = ElasticClaims[n][tx]
<1> DEFINE Kept == \A n \in Networks, tx \in TxHashes :
                 ElasticClaims[n][tx] # None => ElasticClaims'[n][tx] = ElasticClaims[n][tx]
<1>1. CASE RuntimeUpgrade
  <2>1. runtime' = "elastic" /\ UNCHANGED ledger
    BY <1>1, UpgradeRefines DEF PInv, RuntimeUpgrade
  <2>2. runtime = "legacy" => Kept
    BY DEF PInv, OneStorageInForce, NoClaims
  <2>3. runtime # "legacy" => Kept
    BY <2>1 DEF ledger
  <2> QED
    BY <1>1, <2>1, <2>2, <2>3 DEF Next
<1>2. ASSUME NEW n \in Networks, NEW to \in Accounts, set_bridge_account_elastic(n, to)
      PROVE  Next /\ runtime' = "elastic" /\ Kept
  BY <1>2 DEF Next, set_bridge_account_elastic
<1>3. ASSUME NEW n \in Networks, NEW limit \in Limits, set_claim_limit_elastic(n, limit)
      PROVE  Next /\ runtime' = "elastic" /\ Kept
  BY <1>3 DEF Next, set_claim_limit_elastic
<1>4. ASSUME NEW n \in Networks, NEW mint_fee \in Fees, NEW burn_fee \in Fees,
             set_bridge_fee_elastic(n, mint_fee, burn_fee)
      PROVE  Next /\ runtime' = "elastic" /\ Kept
  BY <1>4 DEF Next, set_bridge_fee_elastic
<1>5. ASSUME NEW n \in Networks, NEW signer \in Accounts, NEW tx \in TxHashes,
             NEW who \in EthereumAddresses, NEW value \in Values,
             mint_claim_elastic(signer, n, tx, who, value)
      PROVE  Next /\ runtime' = "elastic" /\ Kept
  <2>1. Next /\ runtime' = "elastic"
    BY <1>5 DEF Next, mint_claim_elastic
  <2>2. Kept
    BY <1>5 DEF mint_claim_elastic, do_mint_claim, PInv, TypeOK
  <2> QED
    BY <2>1, <2>2
<1>6. ASSUME NEW n \in Networks, NEW who \in Accounts, NEW amount \in Values,
             burn_elastic(who, n, amount)
      PROVE  Next /\ runtime' = "elastic" /\ Kept
  BY <1>6 DEF Next, burn_elastic, elasticVars
<1> QED
  BY <1>1, <1>2, <1>3, <1>4, <1>5, <1>6 DEF OtherBlock

(* What the inclusion of a claim writes.                                   *)
LEMMA IncludeStep ==
    ASSUME PInv, NEW node \in Nodes, NEW c \in Calls, Include(node, c)
    PROVE  /\ Next /\ runtime' = "elastic"
           /\ c.network \in Networks /\ c.tx \in TxHashes
           /\ c.sig \in signed /\ c.sig.dest = c.dest /\ c.sig.tx = c.tx
           /\ ElasticClaims[c.network][c.tx] # None
           /\ ElasticClaims[c.network][c.tx].address = c.sig.signer
           /\ free' = deposit_creating(free, c.dest, ElasticClaims[c.network][c.tx].amount)
           /\ \A n \in Networks, tx \in TxHashes :
                 ~(n = c.network /\ tx = c.tx) => ElasticClaims'[n][tx] = ElasticClaims[n][tx]
<1>1. /\ c.network \in Networks /\ c.dest \in Accounts
      /\ c.tx \in TxHashes /\ c.sig \in Signatures
  BY DEF Calls
<1>2. claim_elastic(c.network, c.dest, c.tx, c.sig)
  BY DEF Include
<1>3. Next
  BY <1>1, <1>2 DEF Next
<1>4. c.sig \in signed
  BY DEF Include, PInv
<1>5. /\ ElasticClaims[c.network][c.tx] # None
      /\ eth_recover(c.sig, c.dest, c.tx) # None
      /\ ElasticClaims[c.network][c.tx].address = eth_recover(c.sig, c.dest, c.tx)
  BY <1>2 DEF claim_elastic, do_validate
<1>6. /\ c.sig.dest = c.dest /\ c.sig.tx = c.tx
      /\ ElasticClaims[c.network][c.tx].address = c.sig.signer
  BY <1>5 DEF eth_recover
<1>7. /\ runtime' = "elastic"
      /\ free' = deposit_creating(free, c.dest, ElasticClaims[c.network][c.tx].amount)
      /\ \A n \in Networks, tx \in TxHashes :
            ~(n = c.network /\ tx = c.tx) => ElasticClaims'[n][tx] = ElasticClaims[n][tx]
  BY <1>1, <1>2 DEF claim_elastic, do_claim, PInv, TypeOK
<1> QED
  BY <1>1, <1>3, <1>4, <1>5, <1>6, <1>7

(* Inclusion invalidates only calls with the tag of the included one: two  *)
(* valid calls for one claim have the claim's owner for a signer.          *)
LEMMA IncludeKeepsValid ==
    ASSUME PInv, NEW node \in Nodes, NEW c \in Calls, Include(node, c),
           NEW m \in Nodes, NEW x \in pool'[m]
    PROVE  x \in pool[m] /\ valid(x)'
<1>1. x \in pool[m] /\ (provides(x) # provides(c) \/ valid(x)')
  BY DEF Include
<1>2. x \in Calls /\ x.network \in Networks /\ x.tx \in TxHashes /\ valid(x)
  BY <1>1 DEF PInv, Calls
<1>3. CASE provides(x) # provides(c)
  <2>1. eth_recover(x.sig, x.dest, x.tx) # eth_recover(c.sig, c.dest, c.tx)
    BY <1>3 DEF provides
  <2>2. ElasticClaims[x.network][x.tx].address = eth_recover(x.sig, x.dest, x.tx)
    BY <1>2 DEF valid, do_validate
  <2>3. ElasticClaims[c.network][c.tx].address = eth_recover(c.sig, c.dest, c.tx)
    BY DEF Include, claim_elastic, do_validate
  <2>4. ~(x.network = c.network /\ x.tx = c.tx)
    BY <2>1, <2>2, <2>3
  <2>5. ElasticClaims'[x.network][x.tx] = ElasticClaims[x.network][x.tx]
    BY <1>2, <2>4, IncludeStep
  <2> QED
    BY <1>1, <1>2, <2>5 DEF valid, do_validate
<1> QED
  BY <1>1, <1>3

(* A call that a node accepts is valid and adds to one pool.               *)
LEMMA AcceptKeepsInv ==
    ASSUME PInv, NEW node \in Nodes, NEW c \in Calls, Accept(node, c), c.sig \in signed
    PROVE  PInv'
<1>1. /\ UNCHANGED <<vars, signed>> /\ runtime = "elastic" /\ valid(c)
      /\ pool' = [pool EXCEPT ![node] = @ \cup {c}]
  BY DEF Accept
<1>2. TypeOK' /\ OneStorageInForce'
  BY <1>1, NextType, NextOneStorage DEF PInv
<1>3. pool' \in [Nodes -> SUBSET Calls]
  BY <1>1 DEF PInv
<1>4. \A m \in Nodes : \A x \in pool'[m] : runtime = "elastic" /\ valid(x) /\ x.sig \in signed
  BY <1>1 DEF PInv
<1>5. runtime' = runtime /\ ElasticClaims' = ElasticClaims
  BY <1>1 DEF vars, elasticVars
<1>6. \A x : valid(x)' <=> valid(x)
  BY <1>5 DEF valid, do_validate
<1> QED
  BY <1>1, <1>2, <1>3, <1>4, <1>5, <1>6 DEF PInv

(* Every step keeps the invariant.                                         *)
LEMMA NextPInv == PInv /\ [PoolNext]_poolVars => PInv'
<1> SUFFICES ASSUME PInv, [PoolNext]_poolVars PROVE PInv'
  OBVIOUS
<1>0. ASSUME [Next]_vars PROVE TypeOK' /\ OneStorageInForce'
  BY <1>0, NextType, NextOneStorage DEF PInv
<1>1. CASE UNCHANGED vars /\ UNCHANGED pool /\ signed \subseteq signed'
  <2>1. runtime' = runtime /\ ElasticClaims' = ElasticClaims
    BY <1>1 DEF vars, elasticVars
  <2>2. \A x : valid(x)' <=> valid(x)
    BY <2>1 DEF valid, do_validate
  <2> QED
    BY <1>0, <1>1, <2>1, <2>2 DEF PInv
<1>2. ASSUME NEW sig \in Signatures, Sign(sig) PROVE PInv'
  BY <1>1, <1>2 DEF Sign
<1>3. ASSUME NEW node \in Nodes, NEW c \in Calls, Submit(node, c) PROVE PInv'
  BY <1>3, AcceptKeepsInv DEF Submit
<1>4. ASSUME NEW node \in Nodes, NEW c \in Calls, Include(node, c) PROVE PInv'
  <2>1. Next /\ runtime' = "elastic" /\ UNCHANGED signed
    BY <1>4, IncludeStep DEF Include
  <2>2. \A m \in Nodes : \A x \in pool'[m] : x \in pool[m] /\ valid(x)'
    BY <1>4, IncludeKeepsValid
  <2>3. pool' \in [Nodes -> SUBSET Calls]
    BY <1>4 DEF Include, PInv
  <2>4. \A m \in Nodes : \A x \in pool'[m] : x.sig \in signed
    BY <2>2 DEF PInv
  <2> QED
    BY <1>0, <2>1, <2>2, <2>3, <2>4 DEF PInv
<1>5. ASSUME NEW from \in Nodes, NEW to \in Nodes, NEW c \in pool[from], Gossip(from, to, c)
      PROVE  PInv'
  <2>1. c \in Calls /\ c.sig \in signed
    BY DEF PInv
  <2> QED
    BY <1>5, <2>1, AcceptKeepsInv DEF Gossip
<1>6. CASE OtherBlock
  <2>1. UNCHANGED <<pool, signed>>
    BY <1>6 DEF OtherBlock
  <2>2. ASSUME NEW m \in Nodes, NEW x \in pool[m] PROVE valid(x)'
    <3>1. valid(x) /\ x.network \in Networks /\ x.tx \in TxHashes
      BY DEF PInv, Calls
    <3>2. ElasticClaims'[x.network][x.tx] = ElasticClaims[x.network][x.tx]
      BY <1>6, <3>1, OtherBlockKeepsClaims DEF valid, do_validate
    <3> QED
      BY <3>1, <3>2 DEF valid, do_validate
  <2> QED
    BY <1>0, <1>6, <2>1, <2>2, OtherBlockKeepsClaims DEF PInv
<1>7. CASE UNCHANGED poolVars
  BY <1>1, <1>7 DEF poolVars
<1> QED
  BY <1>2, <1>3, <1>4, <1>5, <1>6, <1>7 DEF PoolNext

(* The pools are empty at the start.                                       *)
LEMMA PoolInitPInv == PoolInit => PInv
  BY InitType DEF PoolInit, PInv, Init, InitLegacy, OneStorageInForce

(* No pool ever holds a claim that would fail, on any number of nodes and  *)
(* in any order of submission, gossip, inclusion, minting and upgrades.    *)
THEOREM NoDeadClaim == PoolSpec => []PoolsHoldNoDeadClaim
<1>1. PInv => PoolsHoldNoDeadClaim
  BY DEF PInv, PoolsHoldNoDeadClaim, valid, do_validate, do_claim_succeeds
<1> QED
  BY <1>1, PoolInitPInv, NextPInv, PTL DEF PoolSpec

(* Only the inclusion of a call marks a claim as paid.                     *)
LEMMA StepPaysAsSigned ==
    ASSUME PInv, [PoolNext]_poolVars, NEW n \in Networks, NEW tx \in TxHashes,
           ElasticClaims[n][tx] # None,
           ~ ElasticClaims[n][tx].claimed,
           ElasticClaims'[n][tx].claimed
    PROVE  \E sig \in signed :
              /\ sig.signer = ElasticClaims[n][tx].address
              /\ sig.tx = tx
              /\ free' = deposit_creating(free, sig.dest, ElasticClaims[n][tx].amount)
<1>1. ElasticClaims'[n][tx] # ElasticClaims[n][tx]
  OBVIOUS
<1>2. ElasticClaims' # ElasticClaims
  BY <1>1
<1>3. ~ OtherBlock
  BY <1>1, OtherBlockKeepsClaims
<1>4. PICK node \in Nodes, c \in Calls : Include(node, c)
  BY <1>2, <1>3 DEF PoolNext, poolVars, vars, elasticVars, Sign, Submit, Gossip, Accept
<1>5. n = c.network /\ tx = c.tx
  BY <1>1, <1>4, IncludeStep
<1> QED
  BY <1>4, <1>5, IncludeStep

(* A claim is paid only to a destination that its owner has signed for     *)
(* this transaction.                                                       *)
THEOREM OwnerDecides == PoolSpec => PaidAsSigned
<1>1. PInv /\ [PoolNext]_poolVars =>
        [\A n \in Networks, tx \in TxHashes :
          /\ ElasticClaims[n][tx] # None
          /\ ~ ElasticClaims[n][tx].claimed
          /\ ElasticClaims'[n][tx].claimed
          => \E sig \in signed :
                /\ sig.signer = ElasticClaims[n][tx].address
                /\ sig.tx = tx
                /\ free' = deposit_creating(free, sig.dest, ElasticClaims[n][tx].amount)
        ]_poolVars
  BY StepPaysAsSigned
<1> QED
  BY <1>1, PoolInitPInv, NextPInv, PTL DEF PoolSpec, PaidAsSigned

(* Behind the transaction pools of any number of nodes the pallet still      *)
(* implements the bridge ledger: signing, gossip and the pools only decide   *)
(* which of its steps are taken.                                             *)
THEOREM PoolImplementsLedger == PoolSpec => ImplementsLedger /\ EntriesAreFinal
<1>1. PoolInit => Init
  BY DEF PoolInit
<1>2. PInv /\ [PoolNext]_poolVars => [Next]_vars
  <2> SUFFICES ASSUME PInv, [PoolNext]_poolVars PROVE [Next]_vars
    OBVIOUS
  <2>1. ASSUME NEW sig \in Signatures, Sign(sig) PROVE [Next]_vars
    BY <2>1 DEF Sign
  <2>2. ASSUME NEW node \in Nodes, NEW c \in Calls, Accept(node, c) PROVE [Next]_vars
    BY <2>2 DEF Accept
  <2>3. ASSUME NEW node \in Nodes, NEW c \in Calls, Include(node, c) PROVE [Next]_vars
    BY <2>3 DEF Include, Calls, Next
  <2>4. CASE OtherBlock
    BY <2>4, OtherBlockKeepsClaims
  <2>5. ASSUME NEW from \in Nodes, NEW to \in Nodes, NEW c \in pool[from], Gossip(from, to, c)
        PROVE  [Next]_vars
    <3>1. c \in Calls
      BY DEF PInv
    <3> QED
      BY <2>2, <2>5, <3>1 DEF Gossip
  <2>6. CASE UNCHANGED poolVars
    BY <2>6 DEF poolVars
  <2> QED
    BY <2>1, <2>2, <2>3, <2>4, <2>5, <2>6 DEF PoolNext, Submit
<1>3. PoolSpec => Spec
  BY <1>1, <1>2, PoolInitPInv, NextPInv, PTL DEF PoolSpec, Spec
<1> QED
  BY <1>3, Refinement, PaidOnce, PTL

=============================================================================
