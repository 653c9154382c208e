---------------------------- MODULE BridgeProofs ----------------------------
(***************************************************************************)
(* The claims pallet between relayer and foreign networks, for any number  *)
(* of networks, transactions and relayer keys: the pallet implements the   *)
(* bridge ledger there too, every claim stands for a deposit abroad, and   *)
(* no step creates or destroys CLV, whatever relays are lost, repeated or  *)
(* reordered.                                                              *)
(***************************************************************************)
EXTENDS Bridge, ClaimsProofs, SumTheorems

USE SMTT(30) DEF Balance

(* A claim on network n for the transaction tx has its deposit. *)
Backed(n, tx) ==
    ledger[n][tx] # None =>
       /\ deposits[n][tx] # None
       /\ ledger[n][tx].address = deposits[n][tx].who
       /\ ledger[n][tx].amount <= deposits[n][tx].value

(* The inductive invariant.  A relay on its way is for a deposit: the pallet *)
(* cannot see the foreign network and mints whatever the bridge account      *)
(* sends.  The storage invariant is needed for the migration.                *)
BInv ==
    /\ TypeOK /\ OneStorageInForce
    /\ deposits \in [Networks -> [TxHashes -> Deposits \cup {None}]]
    /\ relays \subseteq Relays
    /\ \A r \in relays : deposits[r.network][r.tx] # None
    /\ \A n \in Networks, tx \in TxHashes : Backed(n, tx)

(* The deposits behind a legacy chain's claims are there at the start.       *)
LEMMA InitBacked == BridgeInit => BInv
<1> SUFFICES ASSUME BridgeInit PROVE BInv
  OBVIOUS
<1>1. TypeOK /\ OneStorageInForce
  BY InitType DEF BridgeInit, Init, InitLegacy, OneStorageInForce
<1>2. \A tx \in TxHashes : Claims[tx] # None =>
         /\ Claims[tx].address \in EthereumAddresses
         /\ Claims[tx].amount \in Values
         /\ Claims[tx].amount \in Balance
  BY ClaimsAssumption, Zenon DEF BridgeInit, Init, InitLegacy, NoClaims
<1>3. deposits \in [Networks -> [TxHashes -> Deposits \cup {None}]]
  BY <1>2 DEF BridgeInit, Deposits
<1>4. \A n \in Networks, tx \in TxHashes : ledger[n][tx] # None => n = BSC /\ ledger[n][tx] = Claims[tx]
  BY ClaimsAssumption DEF BridgeInit, Init, InitLegacy, ledger, NoClaims
<1>5. ASSUME NEW n \in Networks, NEW tx \in TxHashes, ledger[n][tx] # None
      PROVE  Backed(n, tx)
  <2>1. /\ n = BSC /\ ledger[n][tx] = Claims[tx] /\ Claims[tx] # None
        /\ Claims[tx].amount \in Nat /\ Claims[tx].amount \in Balance
        /\ Claims[tx].address \in EthereumAddresses
    BY <1>2, <1>4, <1>5
  <2>2. deposits[n][tx] = [who |-> Claims[tx].address, value |-> Claims[tx].amount]
    BY <2>1 DEF BridgeInit
  <2>3. deposits[n][tx] # None
    BY <2>1, <2>2, RelayerAssumption
  <2> QED
    BY <2>1, <2>2, <2>3 DEF Backed
<1> QED
  BY <1>1, <1>3, <1>5 DEF BInv, BridgeInit, Backed

(* A claim taken out or an unchanged ledger keeps the claims backed.         *)
LEMMA SameEntriesBacked ==
    ASSUME BInv, UNCHANGED deposits,
           \A n \in Networks, tx \in TxHashes :
              ledger'[n][tx] # None =>
                 /\ ledger[n][tx] # None
                 /\ ledger'[n][tx].address = ledger[n][tx].address
                 /\ ledger'[n][tx].amount = ledger[n][tx].amount
    PROVE  \A n \in Networks, tx \in TxHashes : Backed(n, tx)'
  BY DEF BInv, Backed

(* Governance and upgrades leave the ledger as it is.                        *)
LEMMA GovernanceKeepsLedger ==
    ASSUME BInv, Governance
    PROVE  [Next]_vars /\ UNCHANGED <<ledger, deposits, relays>>
<1>1. CASE RuntimeUpgrade
  BY <1>1, UpgradeRefines DEF Governance, BInv, Next
<1>2. ASSUME NEW n \in Networks, NEW to \in RelayerKeys, set_bridge_account_elastic(n, to)
      PROVE  Next /\ UNCHANGED ledger
  BY <1>2, RelayerAssumption, Zenon DEF Next, set_bridge_account_elastic, ledger
<1>3. ASSUME NEW n \in Networks, NEW limit \in Limits, set_claim_limit_elastic(n, limit)
      PROVE  Next /\ UNCHANGED ledger
  BY <1>3, Zenon DEF Next, set_claim_limit_elastic, ledger
<1>4. ASSUME NEW n \in Networks, NEW mint_fee \in Fees, NEW burn_fee \in Fees,
             set_bridge_fee_elastic(n, mint_fee, burn_fee)
      PROVE  Next /\ UNCHANGED ledger
  BY <1>4, Zenon DEF Next, set_bridge_fee_elastic, ledger
<1> QED
  BY <1>1, <1>2, <1>3, <1>4 DEF Governance

(* A delivered relay mints a claim of at most the deposit it stands for.     *)
LEMMA DeliverBacked ==
    ASSUME BInv, NEW r \in Relays, Deliver(r)
    PROVE  Next /\ \A n \in Networks, tx \in TxHashes : Backed(n, tx)'
<1> DEFINE N == r.network
           T == r.tx
           d == deposits[N][T]
<1>1. /\ r \in relays /\ N \in Networks /\ T \in TxHashes /\ r.signer \in Accounts
      /\ d \in Deposits /\ d # None
  BY RelayerAssumption DEF BInv, Deliver, Relays
<1>2. d.who \in EthereumAddresses /\ d.value \in Values /\ d.value \in Balance
  BY <1>1, ClaimsAssumption, Zenon DEF Deposits
<1>3. mint_claim_elastic(r.signer, N, T, d.who, d.value)
  BY DEF Deliver
<1>4. Next
  BY <1>1, <1>2, <1>3 DEF Next
<1>5. bridge_fees(N)[1] \in Balance
  BY <1>1, FeesType DEF BInv
<1>6. claim_amount(N, d.value) <= d.value
  BY <1>2, <1>5, CurrencyAssumption DEF claim_amount, saturating_sub
<1>7. /\ runtime = "elastic" /\ runtime' = "elastic"
      /\ ElasticClaims' = [ElasticClaims EXCEPT ![N][T] =
            [address |-> d.who, amount |-> claim_amount(N, d.value), claimed |-> FALSE]]
  BY <1>3 DEF mint_claim_elastic, do_mint_claim
<1>8. ASSUME NEW n \in Networks, NEW tx \in TxHashes PROVE Backed(n, tx)'
  <2>1. deposits' = deposits
    BY DEF Deliver
  <2>2. CASE n = N /\ tx = T
    <3>1. ledger'[n][tx] = [address |-> d.who, amount |-> claim_amount(N, d.value), claimed |-> FALSE]
      BY <1>1, <1>7, <2>2, Zenon DEF ledger, BInv, TypeOK
    <3> QED
      BY <1>1, <1>6, <2>1, <2>2, <3>1 DEF Backed
  <2>3. CASE ~(n = N /\ tx = T)
    <3>1. ledger'[n][tx] = ledger[n][tx]
      BY <1>1, <1>7, <2>3 DEF ledger, BInv, TypeOK
    <3> QED
      BY <2>1, <3>1 DEF BInv, Backed
  <2> QED
    BY <2>2, <2>3
<1> QED
  BY <1>4, <1>8

(* Every step keeps the invariant.                                           *)
LEMMA NextBacked == BInv /\ [BridgeNext]_bridgeVars => BInv'
<1> SUFFICES ASSUME BInv, [BridgeNext]_bridgeVars PROVE BInv'
  OBVIOUS
<1>0. ASSUME [Next]_vars PROVE TypeOK' /\ OneStorageInForce'
  BY <1>0, NextType, NextOneStorage DEF BInv
<1>1. CASE Governance
  BY <1>0, <1>1, GovernanceKeepsLedger DEF BInv, Backed
<1>2. ASSUME NEW r \in Relays, Relay(r) PROVE BInv'
  <2>1. UNCHANGED vars /\ UNCHANGED <<ledger, deposits>>
    BY <1>2 DEF Relay, vars, elasticVars, legacyVars, ledger
  <2> QED
    BY <1>0, <1>2, <2>1 DEF BInv, Backed, Relay
<1>3. ASSUME NEW r \in Relays, Deliver(r) PROVE BInv'
  BY <1>0, <1>3, DeliverBacked DEF BInv, Deliver
<1>4. ASSUME NEW r \in Relays, Lose(r) PROVE BInv'
  <2>1. UNCHANGED vars /\ UNCHANGED <<ledger, deposits>>
    BY <1>4 DEF Lose, vars, elasticVars, legacyVars, ledger
  <2> QED
    BY <1>0, <1>4, <2>1 DEF BInv, Backed, Lose
<1>5. ASSUME NEW n \in Networks, NEW tx \in TxHashes, NEW d \in Deposits, Deposit(n, tx, d)
      PROVE  BInv'
  <2>1. /\ UNCHANGED vars /\ UNCHANGED <<ledger, relays>> /\ deposits[n][tx] = None
        /\ deposits' = [deposits EXCEPT ![n][tx] = d]
    BY <1>5 DEF Deposit, vars, elasticVars, legacyVars, ledger
  <2>2. deposits' \in [Networks -> [TxHashes -> Deposits \cup {None}]]
    BY <2>1 DEF BInv
  <2>3. \A m \in Networks, x \in TxHashes :
           deposits[m][x] # None => deposits'[m][x] = deposits[m][x]
    BY <2>1 DEF BInv
  <2>4. \A r \in relays' : deposits'[r.network][r.tx] # None
    BY <2>1, <2>3 DEF BInv, Relays
  <2>5. \A m \in Networks, x \in TxHashes : Backed(m, x)'
    BY <2>1, <2>3 DEF BInv, Backed
  <2> QED
    BY <1>0, <2>1, <2>2, <2>4, <2>5 DEF BInv
<1>6. ASSUME NEW n \in Networks, NEW who \in Accounts, NEW amount \in Values,
             BurnAndRelease(who, n, amount)
      PROVE  BInv'
  <2>1. Next /\ UNCHANGED <<ledger, deposits, relays>>
    BY <1>6 DEF BurnAndRelease, Next, burn_elastic, elasticVars, ledger
  <2> QED
    BY <1>0, <2>1 DEF BInv, Backed
<1>7. ASSUME NEW n \in Networks, NEW dest \in Accounts, NEW tx \in TxHashes,
             NEW sig \in Signatures, Withdraw(n, dest, tx, sig)
      PROVE  BInv'
  <2>1. Next /\ UNCHANGED <<deposits, relays>>
    BY <1>7 DEF Withdraw, Next
  <2>2. /\ runtime = "elastic" /\ runtime' = "elastic"
        /\ ElasticClaims[n][tx] # None
        /\ ElasticClaims' = [ElasticClaims EXCEPT ![n][tx] =
              [address |-> ElasticClaims[n][tx].address,
               amount |-> ElasticClaims[n][tx].amount,
               claimed |-> TRUE]]
    BY <1>7 DEF Withdraw, claim_elastic, do_claim, do_claim_succeeds
  <2>3. \A m \in Networks, x \in TxHashes :
              ledger'[m][x] # None =>
                 /\ ledger[m][x] # None
                 /\ ledger'[m][x].address = ledger[m][x].address
                 /\ ledger'[m][x].amount = ledger[m][x].amount
    BY <2>2 DEF ledger, BInv, TypeOK
  <2> QED
    BY <1>0, <2>1, <2>3, SameEntriesBacked DEF BInv
<1>8. CASE UNCHANGED bridgeVars
  <2>1. UNCHANGED vars /\ UNCHANGED <<ledger, deposits, relays>>
    BY <1>8 DEF bridgeVars, vars, elasticVars, legacyVars, ledger
  <2> QED
    BY <1>0, <2>1 DEF BInv, Backed
<1> QED
  BY <1>1, <1>2, <1>3, <1>4, <1>5, <1>6, <1>7, <1>8 DEF BridgeNext

(* The environment takes no step of the pallet that the pallet does not      *)
(* allow.                                                                    *)
LEMMA BridgeStep ==
    ASSUME BInv, [BridgeNext]_bridgeVars
    PROVE  [Next]_vars
<1>1. CASE Governance
  BY <1>1, GovernanceKeepsLedger
<1>2. ASSUME NEW r \in Relays, Relay(r) \/ Lose(r)
      PROVE  [Next]_vars
  BY <1>2 DEF Relay, Lose
<1>3. ASSUME NEW r \in Relays, Deliver(r)
      PROVE  [Next]_vars
  BY <1>3, DeliverBacked
<1>4. ASSUME NEW n \in Networks, NEW tx \in TxHashes, NEW d \in Deposits, Deposit(n, tx, d)
      PROVE  [Next]_vars
  BY <1>4 DEF Deposit
<1>5. ASSUME NEW n \in Networks, NEW who \in Accounts, NEW amount \in Values,
             BurnAndRelease(who, n, amount)
      PROVE  [Next]_vars
  BY <1>5 DEF BurnAndRelease, Next
<1>6. ASSUME NEW n \in Networks, NEW dest \in Accounts, NEW tx \in TxHashes,
             NEW sig \in Signatures, Withdraw(n, dest, tx, sig)
      PROVE  [Next]_vars
  BY <1>6 DEF Withdraw, Next
<1>7. CASE UNCHANGED bridgeVars
  BY <1>7 DEF bridgeVars
<1> QED
  BY <1>1, <1>2, <1>3, <1>4, <1>5, <1>6, <1>7 DEF BridgeNext

(* With the relayer and the foreign networks around it the claims pallet     *)
(* still implements the bridge ledger, and its entries are final: the other  *)
(* steps are steps of the pallet, or leave it alone.                         *)
THEOREM BridgeImplementsLedger == BridgeSpec => ImplementsLedger /\ EntriesAreFinal
<1>1. BridgeInit => Init
  BY DEF BridgeInit
<1>2. BInv /\ [BridgeNext]_bridgeVars => [Next]_vars
  BY BridgeStep
<1>3. BridgeSpec => Spec
  BY <1>1, <1>2, InitBacked, NextBacked, PTL DEF BridgeSpec, Spec
<1> QED
  BY <1>3, Refinement, PaidOnce, PTL

(* Every claim stands for a deposit of its owner abroad, of at least its     *)
(* amount, over lost, repeated and reordered relays, key rotations and the   *)
(* migration.                                                                *)
THEOREM ClaimsBacked == BridgeSpec => []ClaimsHaveDeposits
<1>1. BInv => ClaimsHaveDeposits
  BY DEF BInv, Backed, ClaimsHaveDeposits, Minted, Pairs
<1> QED
  BY <1>1, InitBacked, NextBacked, PTL DEF BridgeSpec

-----------------------------------------------------------------------------
(* Conservation, as long as what is locked abroad fits the balance type: a   *)
(* deposit of pallet_balances that would overflow is dropped in silence.     *)

(* The inductive invariant: with the claims backed, what was there at        *)
(* genesis bounds all the money but that of the minted deposits.             *)
CInv ==
    /\ BInv
    /\ released \in [Networks -> Nat]
    /\ Surplus <= SumFunction(GenesisBalances)

(* The foreign transactions are finitely many.                               *)
LEMMA PairsFinite == IsFiniteSet(Pairs)
  BY FS_Product, RelayerAssumption DEF Pairs

(* A deposit that fits the balance type adds its value to the sum of the     *)
(* balances, and a withdrawal takes it out.                                  *)
LEMMA BalanceSums ==
    ASSUME NEW b \in [Accounts -> Balance], NEW who \in Accounts, NEW v \in Nat
    PROVE  /\ b[who] + v <= MaxBalance =>
                 SumFunctionOnSet(deposit_creating(b, who, v), Accounts)
                    = SumFunctionOnSet(b, Accounts) + v
           /\ SumFunctionOnSet(withdraw(b, who, v), Accounts) = SumFunctionOnSet(b, Accounts) - v
<1>1. \A a \in Accounts : b[a] \in Nat /\ b[a] \in Int
  BY CurrencyAssumption
<1>2. IsFiniteSet(Accounts)
  BY RelayerAssumption
<1>3. SumFunctionOnSet(b, Accounts) \in Int
  BY <1>1, <1>2, SumInt
<1>4. ASSUME b[who] + v <= MaxBalance
      PROVE  SumFunctionOnSet(deposit_creating(b, who, v), Accounts)
                = SumFunctionOnSet(b, Accounts) + v
  <2> DEFINE c == deposit_creating(b, who, v)
  <2>1. credited(b, who, v) = v
    BY <1>1, <1>4, CurrencyAssumption, DepositAssumption DEF credited
  <2>2. c[who] = b[who] + v /\ \A a \in Accounts \ {who} : c[a] = b[a]
    BY <2>1 DEF deposit_creating
  <2> HIDE DEF c
  <2>3. \A a \in Accounts : b[a] \in Int /\ c[a] \in Int
    <3>1. b[who] \in Int /\ c[who] \in Int
      BY <1>1, <2>2
    <3>2. \A a \in Accounts : b[a] \in Int
      BY <1>1, Zenon
    <3> QED
      BY <2>2, <3>1, <3>2, Zenon
  <2>4. SumFunctionOnSet(c, Accounts) = SumFunctionOnSet(b, Accounts) - b[who] + c[who]
    BY <1>2, <2>2, <2>3, SumUpdate
  <2>5. SumFunctionOnSet(c, Accounts) = SumFunctionOnSet(b, Accounts) + v
    BY <1>3, <2>2, <2>3, <2>4
  <2> QED
    BY <2>5 DEF c
<1>5. SumFunctionOnSet(withdraw(b, who, v), Accounts) = SumFunctionOnSet(b, Accounts) - v
  <2> DEFINE c == withdraw(b, who, v)
  <2>1. c[who] = b[who] - v /\ \A a \in Accounts \ {who} : c[a] = b[a]
    BY DEF withdraw
  <2> HIDE DEF c
  <2>2. \A a \in Accounts : b[a] \in Int /\ c[a] \in Int
    <3>1. b[who] \in Int /\ c[who] \in Int
      BY <1>1, <2>1
    <3>2. \A a \in Accounts : b[a] \in Int
      BY <1>1, Zenon
    <3> QED
      BY <2>1, <3>1, <3>2, Zenon
  <2>3. SumFunctionOnSet(c, Accounts) = SumFunctionOnSet(b, Accounts) - b[who] + c[who]
    BY <1>2, <2>1, <2>2, SumUpdate
  <2>4. SumFunctionOnSet(c, Accounts) = SumFunctionOnSet(b, Accounts) - v
    BY <1>3, <2>1, <2>2, <2>3
  <2> QED
    BY <2>4 DEF c
<1> QED
  BY <1>4, <1>5

(* The value of an entry is a natural number, and only deposits are covered. *)
LEMMA PairValues ==
    ASSUME BInv, NEW p \in Pairs
    PROVE  /\ p[1] \in Networks /\ p[2] \in TxHashes /\ p = <<p[1], p[2]>>
           /\ Unclaimed[p] \in Nat
           /\ Covered[p] \in Nat
           /\ Locked[p] \in Nat
           /\ Covered[p] <= Locked[p]
<1> DEFINE n == p[1]
           tx == p[2]
<1>1. n \in Networks /\ tx \in TxHashes /\ p = <<n, tx>>
  BY DEF Pairs
<1>2. ledger[n][tx] # None => ledger[n][tx].amount \in Nat
  <2>1. ledger[n][tx] \in ClaimInfo \cup {None}
    BY <1>1 DEF BInv, TypeOK, ledger
  <2> QED
    BY <2>1, CurrencyAssumption DEF ClaimInfo
<1>3. deposits[n][tx] # None => deposits[n][tx].value \in Nat
  BY <1>1, ClaimsAssumption, CurrencyAssumption DEF BInv, Deposits
<1>4. ledger[n][tx] # None => deposits[n][tx] # None
  BY <1>1 DEF BInv, Backed
<1>5. p \in Minted <=> ledger[n][tx] # None
  BY DEF Minted
<1>6. Unclaimed[p] \in Nat
  BY <1>2, <1>5 DEF Unclaimed
<1>7. Covered[p] \in Nat /\ Locked[p] \in Nat /\ Covered[p] <= Locked[p]
  BY <1>3, <1>4, <1>5 DEF Covered, Locked
<1> QED
  BY <1>1, <1>6, <1>7

(* The sums of the surplus are naturals.                                     *)
LEMMA BridgeSums ==
    ASSUME BInv, released \in [Networks -> Nat]
    PROVE  /\ SumFunction(free) = SumFunctionOnSet(free, Accounts)
           /\ SumFunction(Unclaimed) = SumFunctionOnSet(Unclaimed, Pairs)
           /\ SumFunction(released) = SumFunctionOnSet(released, Networks)
           /\ SumFunction(Covered) = SumFunctionOnSet(Covered, Pairs)
           /\ SumFunction(free) \in Nat
           /\ SumFunction(Unclaimed) \in Nat
           /\ SumFunction(released) \in Nat
           /\ SumFunction(Covered) \in Nat
           /\ SumFunction(Locked) \in Nat
           /\ SumFunction(GenesisBalances) \in Nat
           /\ SumFunction(Covered) <= SumFunction(Locked)
<1>1. /\ DOMAIN free = Accounts /\ DOMAIN GenesisBalances = Accounts
      /\ \A a \in Accounts : free[a] \in Nat /\ GenesisBalances[a] \in Nat
  BY ClaimsAssumption, CurrencyAssumption DEF BInv, TypeOK
<1>2. DOMAIN Unclaimed = Pairs /\ DOMAIN Covered = Pairs /\ DOMAIN Locked = Pairs
  BY DEF Unclaimed, Covered, Locked
<1>3. /\ SumFunction(free) = SumFunctionOnSet(free, Accounts)
      /\ SumFunction(GenesisBalances) = SumFunctionOnSet(GenesisBalances, Accounts)
      /\ SumFunction(Unclaimed) = SumFunctionOnSet(Unclaimed, Pairs)
      /\ SumFunction(released) = SumFunctionOnSet(released, Networks)
      /\ SumFunction(Covered) = SumFunctionOnSet(Covered, Pairs)
      /\ SumFunction(Locked) = SumFunctionOnSet(Locked, Pairs)
  BY <1>1, <1>2 DEF SumFunction
<1>4. /\ SumFunctionOnSet(free, Accounts) \in Nat
      /\ SumFunctionOnSet(GenesisBalances, Accounts) \in Nat
      /\ SumFunctionOnSet(released, Networks) \in Nat
  BY <1>1, RelayerAssumption, SumNat
<1>5. /\ SumFunctionOnSet(Unclaimed, Pairs) \in Nat
      /\ SumFunctionOnSet(Covered, Pairs) \in Nat
      /\ SumFunctionOnSet(Locked, Pairs) \in Nat
  BY PairValues, PairsFinite, SumNat
<1>6. SumFunctionOnSet(Covered, Pairs) <= SumFunctionOnSet(Locked, Pairs)
  <2>1. \A p \in Pairs : Covered[p] \in Int /\ Locked[p] \in Int /\ Covered[p] <= Locked[p]
    BY PairValues
  <2> QED
    BY <2>1, PairsFinite, SumLeq
<1> QED
  BY <1>3, <1>4, <1>5, <1>6

(* All the money there is, on the chain and released, fits the balance type. *)
LEMMA MoneyFits ==
    ASSUME CInv, DepositsFit
    PROVE  SumFunction(free) + SumFunction(Unclaimed) + SumFunction(released)
              + (SumFunction(Locked) - SumFunction(Covered)) <= MaxBalance
  BY BridgeSums, CurrencyAssumption DEF CInv, DepositsFit, Surplus

(* Steps that leave balances, entries and covered deposits alone.            *)
LEMMA QuietConserves ==
    ASSUME CInv, UNCHANGED <<free, ledger, released>>,
           \A n \in Networks, tx \in TxHashes :
              ledger[n][tx] # None => deposits'[n][tx] = deposits[n][tx]
    PROVE  Surplus' = Surplus
<1>1. Minted' = Minted
  BY DEF Minted
<1>2. Unclaimed' = Unclaimed
  BY <1>1 DEF Unclaimed
<1>3. Covered' = Covered
  <2>1. \A p \in Minted : deposits'[p[1]][p[2]] = deposits[p[1]][p[2]]
    BY PairValues DEF Minted, CInv
  <2> QED
    BY <1>1, <2>1 DEF Covered
<1> QED
  BY <1>2, <1>3 DEF Surplus

(* A mint covers a deposit with a claim and the fee.                         *)
LEMMA DeliverConserves ==
    ASSUME CInv, DepositsFit, NEW r \in Relays, Deliver(r)
    PROVE  Surplus' = Surplus
<1> DEFINE N == r.network
           T == r.tx
           q == <<N, T>>
           d == deposits[N][T]
           fee == bridge_fees(N)[1]
           amount == claim_amount(N, d.value)
<1>1. BInv /\ TypeOK /\ released \in [Networks -> Nat]
  BY DEF CInv, BInv
<1>2. /\ N \in Networks /\ T \in TxHashes /\ q \in Pairs
      /\ d \in Deposits /\ d # None /\ d.value \in Nat
  BY <1>1, RelayerAssumption, ClaimsAssumption, CurrencyAssumption
  DEF BInv, Deliver, Relays, Deposits, Pairs
<1>3. /\ runtime = "elastic" /\ runtime' = "elastic"
      /\ ElasticClaims[N][T] = None
      /\ fee > 0 => d.value > fee
      /\ ElasticClaims' = [ElasticClaims EXCEPT ![N][T] =
            [address |-> d.who, amount |-> amount, claimed |-> FALSE]]
      /\ free' = IF fee > 0 THEN deposit_creating(free, ModuleAccount, fee) ELSE free
      /\ deposits' = deposits /\ released' = released
  BY DEF Deliver, mint_claim_elastic, do_mint_claim
<1>4. fee \in Nat
  <2>1. fee \in Balance
    BY <1>1, <1>2, FeesType
  <2> QED
    BY <2>1, CurrencyAssumption
<1>5. amount \in Nat /\ amount + fee = d.value
  <2>1. amount = IF fee > 0 THEN saturating_sub(d.value, fee) ELSE d.value
    BY DEF claim_amount
  <2> HIDE DEF amount, fee, d
  <2> QED
    BY <1>2, <1>3, <1>4, <2>1 DEF saturating_sub
<1>6. /\ ledger[N][T] = None
      /\ ledger'[N][T] = [address |-> d.who, amount |-> amount, claimed |-> FALSE]
      /\ \A n \in Networks, tx \in TxHashes :
            <<n, tx>> # q => ledger'[n][tx] = ledger[n][tx]
  BY <1>1, <1>2, <1>3, Zenon DEF ledger, TypeOK
<1>7. ledger'[N][T] # None
  <2>1. amount \in Balance
    BY <1>2, <1>4, <1>5, ClaimsAssumption, CurrencyAssumption DEF Deposits
  <2>2. d.who \in EthereumAddresses
    BY <1>2 DEF Deposits
  <2> HIDE DEF amount, d
  <2>3. [address |-> d.who, amount |-> amount, claimed |-> FALSE]
           \in [address : EthereumAddresses, amount : Balance, claimed : BOOLEAN]
    BY <2>1, <2>2
  <2> QED
    BY <1>6, <2>3, ClaimsAssumption, Zenon
<1>8. /\ Unclaimed[q] = 0 /\ Covered[q] = 0
      /\ Unclaimed'[q] = amount /\ Covered'[q] = d.value /\ Locked[q] = d.value
  <2>1. q \notin Minted /\ q \in Minted'
    BY <1>2, <1>6, <1>7, Zenon DEF Minted
  <2> HIDE DEF amount
  <2> QED
    BY <1>2, <1>3, <1>6, <2>1 DEF Unclaimed, Covered, Locked
<1>9. ASSUME NEW p \in Pairs \ {q}
      PROVE  Unclaimed'[p] = Unclaimed[p] /\ Covered'[p] = Covered[p]
  <2>1. /\ p[1] \in Networks /\ p[2] \in TxHashes /\ <<p[1], p[2]>> # q
    BY <1>1, PairValues
  <2>2. ledger'[p[1]][p[2]] = ledger[p[1]][p[2]]
    BY <1>6, <2>1
  <2>3. p \in Minted' <=> p \in Minted
    BY <2>2 DEF Minted
  <2> QED
    BY <1>3, <2>2, <2>3 DEF Unclaimed, Covered
<1> HIDE DEF q, amount, fee, d
<1>10. \A p \in Pairs : /\ Unclaimed[p] \in Int /\ Covered[p] \in Int
                        /\ Unclaimed'[p] \in Int /\ Covered'[p] \in Int
  <2>1. \A p \in Pairs : Unclaimed[p] \in Int /\ Covered[p] \in Int
    BY <1>1, PairValues
  <2>2. Unclaimed'[q] \in Int /\ Covered'[q] \in Int
    BY <1>2, <1>5, <1>8
  <2> QED
    BY <1>9, <2>1, <2>2
<1>11. SumFunctionOnSet(Unclaimed', Pairs) = SumFunctionOnSet(Unclaimed, Pairs) + amount
  <2>1. SumFunctionOnSet(Unclaimed', Pairs)
           = SumFunctionOnSet(Unclaimed, Pairs) - Unclaimed[q] + Unclaimed'[q]
    BY <1>2, <1>9, <1>10, PairsFinite, SumUpdate
  <2> QED
    BY <1>1, <1>5, <1>8, <2>1, BridgeSums
<1>12. SumFunctionOnSet(Covered', Pairs) = SumFunctionOnSet(Covered, Pairs) + d.value
  <2>1. SumFunctionOnSet(Covered', Pairs)
           = SumFunctionOnSet(Covered, Pairs) - Covered[q] + Covered'[q]
    BY <1>2, <1>9, <1>10, PairsFinite, SumUpdate
  <2> QED
    BY <1>1, <1>2, <1>8, <2>1, BridgeSums
<1>13. SumFunction(Covered) + d.value <= SumFunction(Locked)
  <2>1. ASSUME NEW p \in Pairs
        PROVE  Covered'[p] \in Int /\ Locked[p] \in Int /\ Covered'[p] <= Locked[p]
    <3>1. CASE p = q
      BY <1>2, <1>8, <3>1
    <3>2. CASE p # q
      BY <1>1, <1>9, <3>2, PairValues
    <3> QED
      BY <3>1, <3>2
  <2>2. SumFunctionOnSet(Covered', Pairs) <= SumFunctionOnSet(Locked, Pairs)
    BY <2>1, PairsFinite, SumLeq
  <2>3. SumFunction(Locked) = SumFunctionOnSet(Locked, Pairs)
    BY DEF SumFunction, Locked
  <2> QED
    BY <1>1, <1>12, <2>2, <2>3, BridgeSums
<1>14. SumFunctionOnSet(free', Accounts) = SumFunctionOnSet(free, Accounts) + fee
  <2>1. free \in [Accounts -> Balance] /\ ModuleAccount \in Accounts
    BY <1>1, ClaimsAssumption DEF TypeOK
  <2>2. free[ModuleAccount] + fee <= MaxBalance
    <3>1. \A a \in Accounts : free[a] \in Nat
      BY <2>1, CurrencyAssumption
    <3>2. free[ModuleAccount] <= SumFunctionOnSet(free, Accounts)
      BY <2>1, <3>1, RelayerAssumption, SumBound
    <3> QED
      BY <1>1, <1>2, <1>4, <1>5, <1>13, <2>1, <3>1, <3>2, BridgeSums, MoneyFits, CurrencyAssumption
  <2>3. CASE fee > 0
    BY <1>3, <1>4, <2>1, <2>2, <2>3, BalanceSums
  <2>4. CASE ~(fee > 0)
    <3>1. fee = 0 /\ SumFunctionOnSet(free, Accounts) \in Nat
      BY <1>1, <1>4, <2>4, BridgeSums
    <3> QED
      BY <1>3, <2>4, <3>1
  <2> QED
    BY <2>3, <2>4
<1>15. /\ SumFunction(free') = SumFunctionOnSet(free', Accounts)
       /\ SumFunction(Unclaimed') = SumFunctionOnSet(Unclaimed', Pairs)
       /\ SumFunction(Covered') = SumFunctionOnSet(Covered', Pairs)
  <2>1. DOMAIN free' = Accounts
    BY <1>1, <1>3, ClaimsAssumption DEF deposit_creating, TypeOK
  <2>2. DOMAIN Unclaimed' = Pairs /\ DOMAIN Covered' = Pairs
    BY DEF Unclaimed, Covered
  <2> QED
    BY <2>1, <2>2 DEF SumFunction
<1> QED
  BY <1>1, <1>2, <1>3, <1>4, <1>5, <1>11, <1>12, <1>14, <1>15, BridgeSums DEF Surplus

(* A claim that is taken out moves its amount to the destination.            *)
LEMMA WithdrawConserves ==
    ASSUME CInv, DepositsFit, NEW n \in Networks, NEW dest \in Accounts, NEW tx \in TxHashes,
           NEW sig \in Signatures, Withdraw(n, dest, tx, sig)
    PROVE  Surplus' = Surplus
<1> DEFINE q == <<n, tx>>
           amount == ElasticClaims[n][tx].amount
<1>1. BInv /\ TypeOK /\ released \in [Networks -> Nat] /\ q \in Pairs
  BY DEF CInv, BInv, Pairs
<1>2. /\ runtime = "elastic" /\ runtime' = "elastic"
      /\ ElasticClaims[n][tx] # None /\ ~ElasticClaims[n][tx].claimed
      /\ ElasticClaims' = [ElasticClaims EXCEPT ![n][tx] =
            [address |-> ElasticClaims[n][tx].address,
             amount |-> ElasticClaims[n][tx].amount,
             claimed |-> TRUE]]
      /\ free' = deposit_creating(free, dest, amount)
      /\ deposits' = deposits /\ released' = released
  BY DEF Withdraw, claim_elastic, do_claim, do_claim_succeeds
<1>3. ElasticClaims[n][tx] \in ClaimInfo /\ amount \in Nat
  BY <1>1, <1>2, CurrencyAssumption DEF TypeOK, ClaimInfo
<1>4. /\ ledger[n][tx] # None /\ ~ledger[n][tx].claimed /\ ledger[n][tx].amount = amount
      /\ ledger'[n][tx] = [address |-> ElasticClaims[n][tx].address,
                           amount |-> amount, claimed |-> TRUE]
      /\ \A m \in Networks, x \in TxHashes :
            <<m, x>> # q => ledger'[m][x] = ledger[m][x]
  BY <1>1, <1>2, Zenon DEF ledger, TypeOK
<1>5. ledger'[n][tx] # None /\ ledger'[n][tx].claimed
  <2>1. [address |-> ElasticClaims[n][tx].address, amount |-> amount, claimed |-> TRUE]
           \in [address : EthereumAddresses, amount : Balance, claimed : BOOLEAN]
    BY <1>3 DEF ClaimInfo
  <2> QED
    BY <1>4, <2>1, ClaimsAssumption, Zenon
<1>6. Unclaimed[q] = amount /\ Unclaimed'[q] = 0 /\ Covered'[q] = Covered[q]
  <2>1. q \in Minted /\ q \in Minted'
    BY <1>1, <1>4, <1>5 DEF Minted
  <2> HIDE DEF amount
  <2> QED
    BY <1>1, <1>2, <1>4, <1>5, <2>1 DEF Unclaimed, Covered
<1>7. ASSUME NEW p \in Pairs \ {q}
      PROVE  Unclaimed'[p] = Unclaimed[p] /\ Covered'[p] = Covered[p]
  <2>1. p[1] \in Networks /\ p[2] \in TxHashes /\ <<p[1], p[2]>> # q
    BY <1>1, PairValues
  <2>2. ledger'[p[1]][p[2]] = ledger[p[1]][p[2]]
    BY <1>4, <2>1
  <2>3. p \in Minted' <=> p \in Minted
    BY <2>2 DEF Minted
  <2> QED
    BY <1>2, <2>2, <2>3 DEF Unclaimed, Covered
<1> HIDE DEF q, amount
<1>8. SumFunctionOnSet(Unclaimed', Pairs) = SumFunctionOnSet(Unclaimed, Pairs) - amount
  <2>1. \A p \in Pairs : Unclaimed[p] \in Int /\ Unclaimed'[p] \in Int
    <3>1. \A p \in Pairs : Unclaimed[p] \in Int
      BY <1>1, PairValues
    <3> QED
      BY <1>6, <1>7, <3>1
  <2>2. SumFunctionOnSet(Unclaimed', Pairs)
           = SumFunctionOnSet(Unclaimed, Pairs) - Unclaimed[q] + Unclaimed'[q]
    BY <1>1, <1>7, <2>1, PairsFinite, SumUpdate
  <2> QED
    BY <1>1, <1>3, <1>6, <2>2, BridgeSums
<1>9. Covered' = Covered
  <2>1. \A p \in Pairs : Covered'[p] = Covered[p]
    BY <1>6, <1>7
  <2> QED
    BY <2>1 DEF Covered
<1>10. SumFunctionOnSet(free', Accounts) = SumFunctionOnSet(free, Accounts) + amount
  <2>1. free \in [Accounts -> Balance] /\ \A a \in Accounts : free[a] \in Nat
    BY <1>1, CurrencyAssumption DEF TypeOK
  <2>2. free[dest] <= SumFunctionOnSet(free, Accounts)
    BY <2>1, RelayerAssumption, SumBound
  <2>3. amount <= SumFunctionOnSet(Unclaimed, Pairs)
    <3>1. Unclaimed[q] <= SumFunctionOnSet(Unclaimed, Pairs)
      BY <1>1, PairValues, PairsFinite, SumBound
    <3> QED
      BY <1>6, <3>1
  <2>4. free[dest] + amount <= MaxBalance
    BY <1>1, <1>3, <2>1, <2>2, <2>3, BridgeSums, MoneyFits, CurrencyAssumption
  <2> QED
    BY <1>2, <1>3, <2>1, <2>4, BalanceSums
<1>11. /\ SumFunction(free') = SumFunctionOnSet(free', Accounts)
       /\ SumFunction(Unclaimed') = SumFunctionOnSet(Unclaimed', Pairs)
  <2>1. DOMAIN free' = Accounts /\ DOMAIN Unclaimed' = Pairs
    BY <1>1, <1>2 DEF deposit_creating, TypeOK, Unclaimed
  <2> QED
    BY <2>1 DEF SumFunction
<1> QED
  BY <1>1, <1>2, <1>3, <1>8, <1>9, <1>10, <1>11, BridgeSums DEF Surplus

(* A burn moves its amount abroad, less the fee, which stays.                *)
LEMMA BurnConserves ==
    ASSUME CInv, DepositsFit, NEW n \in Networks, NEW who \in Accounts, NEW amount \in Values,
           BurnAndRelease(who, n, amount)
    PROVE  Surplus' = Surplus /\ released' \in [Networks -> Nat]
<1> DEFINE fee == bridge_fees(n)[2]
           left == burn_amount(n, amount)
           b == withdraw(free, who, amount)
<1>1. /\ BInv /\ TypeOK /\ released \in [Networks -> Nat]
      /\ free \in [Accounts -> Balance] /\ ModuleAccount \in Accounts
      /\ amount \in Balance /\ amount \in Nat
  BY ClaimsAssumption, CurrencyAssumption DEF CInv, BInv, TypeOK
<1>2. /\ fee > 0 => amount > fee
      /\ can_withdraw_keep_alive(free, who, amount)
      /\ free' = IF fee > 0 THEN deposit_creating(b, ModuleAccount, fee) ELSE b
      /\ released' = [released EXCEPT ![n] = released[n] + left]
      /\ UNCHANGED <<ledger, deposits>>
  BY DEF BurnAndRelease, burn_elastic, do_burn, elasticVars, ledger
<1>3. fee \in Nat
  <2>1. fee \in Balance
    BY <1>1, FeesType
  <2> QED
    BY <2>1, CurrencyAssumption
<1>4. left \in Nat /\ left + fee = amount
  <2>1. left = IF fee > 0 THEN saturating_sub(amount, fee) ELSE amount
    BY DEF burn_amount
  <2> HIDE DEF left, fee
  <2> QED
    BY <1>1, <1>2, <1>3, <2>1 DEF saturating_sub
<1>5. b \in [Accounts -> Balance]
  <2>1. free[who] - amount \in Balance
    BY <1>1, <1>2, CurrencyAssumption DEF can_withdraw_keep_alive
  <2> QED
    BY <1>1, <2>1 DEF withdraw
<1> HIDE DEF left, fee, b
<1>6. SumFunctionOnSet(b, Accounts) = SumFunctionOnSet(free, Accounts) - amount
  BY <1>1, BalanceSums DEF b
<1>7. SumFunctionOnSet(free', Accounts) = SumFunctionOnSet(b, Accounts) + fee
  <2>1. \A a \in Accounts : b[a] \in Nat
    BY <1>5, CurrencyAssumption
  <2>2. SumFunctionOnSet(b, Accounts) \in Nat /\ b[ModuleAccount] <= SumFunctionOnSet(b, Accounts)
    BY <1>1, <2>1, RelayerAssumption, SumNat, SumBound
  <2>3. b[ModuleAccount] \in Nat
    BY <1>1, <2>1
  <2>4. b[ModuleAccount] + fee <= MaxBalance
    BY <1>1, <1>3, <1>4, <1>6, <2>2, <2>3, BridgeSums, MoneyFits, CurrencyAssumption
  <2>5. CASE fee > 0
    BY <1>1, <1>2, <1>3, <1>5, <2>4, <2>5, BalanceSums
  <2>6. CASE ~(fee > 0)
    <3>1. fee = 0
      BY <1>3, <2>6
    <3> QED
      BY <1>2, <2>2, <2>6, <3>1
  <2> QED
    BY <2>5, <2>6
<1>8. released' \in [Networks -> Nat]
  BY <1>1, <1>2, <1>4
<1>9. SumFunctionOnSet(released', Networks) = SumFunctionOnSet(released, Networks) + left
  <2>1. /\ released'[n] = released[n] + left /\ released[n] \in Nat
        /\ \A m \in Networks \ {n} : released'[m] = released[m]
    BY <1>1, <1>2
  <2>2. \A m \in Networks : released[m] \in Int /\ released'[m] \in Int
    BY <1>1, <1>8
  <2>3. SumFunctionOnSet(released', Networks)
           = SumFunctionOnSet(released, Networks) - released[n] + released'[n]
    BY <2>1, <2>2, RelayerAssumption, SumUpdate
  <2> QED
    BY <1>1, <1>4, <2>1, <2>3, BridgeSums
<1>10. /\ SumFunction(free') = SumFunctionOnSet(free', Accounts)
       /\ SumFunction(released') = SumFunctionOnSet(released', Networks)
  <2>1. DOMAIN free' = Accounts
    BY <1>2, <1>5 DEF deposit_creating
  <2>2. DOMAIN released' = Networks
    BY <1>8
  <2> QED
    BY <2>1, <2>2 DEF SumFunction
<1>11. Unclaimed' = Unclaimed /\ Covered' = Covered
  BY <1>2 DEF Unclaimed, Covered, Minted
<1> QED
  BY <1>1, <1>3, <1>4, <1>6, <1>7, <1>8, <1>9, <1>10, <1>11, BridgeSums DEF Surplus

(* Every step keeps the surplus, while the deposits fit.                     *)
LEMMA NextConserves ==
    ASSUME CInv, DepositsFit, [BridgeNext]_bridgeVars
    PROVE  CInv' /\ Surplus' = Surplus
<1>1. BInv'
  BY NextBacked DEF CInv
<1> DEFINE Kept == Surplus' = Surplus /\ released' \in [Networks -> Nat]
<1>2. released \in [Networks -> Nat]
  BY DEF CInv
<1>3. ASSUME UNCHANGED vars, UNCHANGED released,
             \A n \in Networks, tx \in TxHashes :
                ledger[n][tx] # None => deposits'[n][tx] = deposits[n][tx]
      PROVE  Kept
  <2>1. UNCHANGED <<free, ledger>>
    BY <1>3 DEF vars, elasticVars, legacyVars, ledger
  <2> QED
    BY <1>2, <1>3, <2>1, QuietConserves
<1>4. ASSUME Governance
      PROVE  Kept
  <2>1. UNCHANGED <<ledger, deposits>>
    BY <1>4, GovernanceKeepsLedger DEF CInv
  <2>2. UNCHANGED <<free, released>>
    BY <1>4 DEF Governance, RuntimeUpgrade, set_bridge_account_elastic,
                set_claim_limit_elastic, set_bridge_fee_elastic
  <2> QED
    BY <1>2, <2>1, <2>2, QuietConserves
<1>5. ASSUME NEW r \in Relays, Relay(r) \/ Lose(r)
      PROVE  Kept
  BY <1>3, <1>5 DEF Relay, Lose
<1>6. ASSUME NEW r \in Relays, Deliver(r)
      PROVE  Kept
  BY <1>2, <1>6, DeliverConserves DEF Deliver
<1>7. ASSUME NEW n \in Networks, NEW tx \in TxHashes, NEW d \in Deposits, Deposit(n, tx, d)
      PROVE  Kept
  <2>1. /\ UNCHANGED vars /\ UNCHANGED released
        /\ deposits[n][tx] = None
        /\ deposits' = [deposits EXCEPT ![n][tx] = d]
    BY <1>7 DEF Deposit
  <2>2. \A m \in Networks, x \in TxHashes :
           ledger[m][x] # None => deposits'[m][x] = deposits[m][x]
    BY <2>1 DEF CInv, BInv, Backed
  <2> QED
    BY <1>3, <2>1, <2>2
<1>8. ASSUME NEW n \in Networks, NEW who \in Accounts, NEW amount \in Values,
             BurnAndRelease(who, n, amount)
      PROVE  Kept
  BY <1>8, BurnConserves
<1>9. ASSUME NEW n \in Networks, NEW dest \in Accounts, NEW tx \in TxHashes,
             NEW sig \in Signatures, Withdraw(n, dest, tx, sig)
      PROVE  Kept
  BY <1>2, <1>9, WithdrawConserves DEF Withdraw
<1>10. ASSUME UNCHANGED bridgeVars
       PROVE  Kept
  BY <1>3, <1>10 DEF bridgeVars
<1>11. Kept
  BY <1>4, <1>5, <1>6, <1>7, <1>8, <1>9, <1>10 DEF BridgeNext
<1> QED
  BY <1>1, <1>11 DEF CInv

(* At genesis every claim of a legacy chain is covered by its deposit.       *)
LEMMA InitConserves == BridgeInit => CInv
<1> SUFFICES ASSUME BridgeInit
             PROVE  CInv
  OBVIOUS
<1>1. BInv /\ free = GenesisBalances /\ released \in [Networks -> Nat]
  BY InitBacked DEF BridgeInit, Init
<1>2. \A n \in Networks : released[n] = 0
  BY DEF BridgeInit
<1>3. SumFunctionOnSet(released, Networks) = 0
  BY <1>2, RelayerAssumption, SumZero
<1>4. ASSUME NEW p \in Pairs
      PROVE  Unclaimed[p] \in Int /\ Covered[p] \in Int /\ Unclaimed[p] <= Covered[p]
  <2>1. p[1] \in Networks /\ p[2] \in TxHashes /\ Unclaimed[p] \in Nat /\ Covered[p] \in Nat
    BY <1>1, PairValues
  <2>2. CASE p \in Minted
    <3>1. Backed(p[1], p[2])
      BY <1>1, <2>1 DEF BInv
    <3>2. ledger[p[1]][p[2]].amount <= Covered[p]
      BY <2>2, <3>1 DEF Minted, Covered, Backed
    <3> QED
      BY <2>1, <2>2, <3>2 DEF Unclaimed
  <2>3. CASE p \notin Minted
    BY <2>1, <2>3 DEF Unclaimed
  <2> QED
    BY <2>2, <2>3
<1>5. SumFunctionOnSet(Unclaimed, Pairs) <= SumFunctionOnSet(Covered, Pairs)
  BY <1>4, PairsFinite, SumLeq
<1>6. Surplus <= SumFunction(GenesisBalances)
  BY <1>1, <1>3, <1>5, BridgeSums DEF Surplus
<1> QED
  BY <1>1, <1>6 DEF CInv

(* No step creates or destroys CLV, for any number of networks, accounts and *)
(* transactions, whatever relays are lost, repeated or reordered and fees    *)
(* are set: as long as all that is locked abroad fits the balance type on    *)
(* top of the balances of genesis, no payment of mint_claim_elastic,         *)
(* claim_elastic or burn_elastic is dropped.                                 *)
THEOREM Conserved == BridgeSpec /\ []DepositsFit => Conservation
<1>1. CInv /\ DepositsFit /\ [BridgeNext]_bridgeVars => CInv'
  BY NextConserves
<1>2. CInv /\ DepositsFit /\ [BridgeNext]_bridgeVars => [Surplus' = Surplus]_bridgeVars
  BY NextConserves
<1> QED
  BY <1>1, <1>2, InitConserves, PTL DEF BridgeSpec, Conservation

=============================================================================
