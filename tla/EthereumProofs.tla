--------------------------- MODULE EthereumProofs ---------------------------
(***************************************************************************)
(* What makes the chain an Ethereum to its clients, for any accounts,      *)
(* addresses, balances, blocks, calls, filters and transactions and any    *)
(* capacities and thresholds.  The account mapping: the two maps are       *)
(* inverse, an address resolves to an account that resolves back to it, a  *)
(* claim moves all funds, no operation creates money, and without an       *)
(* existential deposit none is lost and no nonce goes back.  The start-up  *)
(* of the node: nothing that produces or fetches blocks runs in a full     *)
(* node before the two watchers are subscribed.  The pools of the Ethereum *)
(* RPC: they keep their types and limits, and the tasks that maintain them *)
(* drop nothing too early.                                                 *)
(***************************************************************************)
EXTENDS EvmAccounts, NodeService, EthPools, SumTheorems, FiniteSetTheorems, TLAPS

---------------------------------------------------------------------------
(* The account mapping *)

(* The inductive invariant.  Beyond the two-way mapping it says that only    *)
(* native accounts are mapped, since only they can sign claim_account: a     *)
(* padded account with an address of its own would hide the one it is padded *)
(* from.                                                                     *)
MapInv ==
    /\ Accounts \in [Addresses -> AccountIds \cup {None}]
    /\ EvmAddresses \in [AccountIds -> Addresses \cup {None}]
    /\ \A e \in Addresses : Accounts[e] \in Natives \cup {None}
    /\ MappingIsTwoWay

(* Nothing is mapped at genesis.                                             *)
LEMMA InitMap == EvmInit => MapInv
  BY EvmAssumption DEF EvmInit, MapInv, MappingIsTwoWay, AccountIds

(* on_killed_account removes both directions of the mapping of every account *)
(* that is reaped, and no other.                                             *)
LEMMA KilledMap ==
    ASSUME MapInv, NEW dead \in SUBSET AccountIds, on_killed_account(dead)
    PROVE  MapInv'
<1>1. /\ Accounts' \in [Addresses -> AccountIds \cup {None}]
      /\ EvmAddresses' \in [AccountIds -> Addresses \cup {None}]
      /\ \A e \in Addresses : Accounts'[e] \in Natives \cup {None}
  BY DEF MapInv, on_killed_account
<1>2. ASSUME NEW e \in Addresses, NEW a \in AccountIds
      PROVE  Accounts'[e] = a <=> EvmAddresses'[a] = e
  <2>1. a # None /\ e # None
    BY EvmAssumption
  <2>2. Accounts[e] = a <=> EvmAddresses[a] = e
    BY DEF MapInv, MappingIsTwoWay
  <2>3. Accounts'[e] = IF \E x \in dead : EvmAddresses[x] = e THEN None ELSE Accounts[e]
    BY DEF on_killed_account
  <2>4. EvmAddresses'[a] = IF a \in dead THEN None ELSE EvmAddresses[a]
    BY DEF on_killed_account
  <2>5. \A x \in dead : EvmAddresses[x] = e => Accounts[e] = x
    BY DEF MapInv, MappingIsTwoWay
  <2> QED
    BY <2>1, <2>2, <2>3, <2>4, <2>5
<1> QED
  BY <1>1, <1>2 DEF MapInv, MappingIsTwoWay

(* claim_account maps an address and an account that were both free.         *)
LEMMA ClaimMap ==
    ASSUME MapInv, NEW who \in Natives, NEW e \in Addresses, NEW sig \in Signatures,
           claim_account(who, e, sig)
    PROVE  MapInv'
<1>1. /\ EvmAddresses[who] = None /\ Accounts[e] = None
      /\ Accounts' = [x \in Addresses |-> IF x = e THEN who
                                          ELSE IF EvmAddresses[who] = x THEN None
                                          ELSE Accounts[x]]
      /\ EvmAddresses' = [EvmAddresses EXCEPT ![who] = e]
      /\ who \in AccountIds
  BY DEF claim_account, unmapped, AccountIds
<1>2. /\ Accounts' \in [Addresses -> AccountIds \cup {None}]
      /\ EvmAddresses' \in [AccountIds -> Addresses \cup {None}]
      /\ \A x \in Addresses : Accounts'[x] \in Natives \cup {None}
  BY <1>1 DEF MapInv
<1>3. ASSUME NEW x \in Addresses, NEW a \in AccountIds
      PROVE  Accounts'[x] = a <=> EvmAddresses'[a] = x
  <2>1. a # None /\ x # None
    BY EvmAssumption
  <2>2. Accounts[x] = a <=> EvmAddresses[a] = x
    BY DEF MapInv, MappingIsTwoWay
  <2>3. Accounts'[x] = IF x = e THEN who ELSE Accounts[x]
    BY <1>1, <2>1 DEF MapInv
  <2>4. EvmAddresses'[a] = IF a = who THEN e ELSE EvmAddresses[a]
    BY <1>1 DEF MapInv
  <2> QED
    BY <1>1, <2>1, <2>2, <2>3, <2>4
<1> QED
  BY <1>2, <1>3 DEF MapInv, MappingIsTwoWay

(* Every step keeps the invariant.                                           *)
LEMMA NextMap == MapInv /\ [EvmNext]_evmVars => MapInv'
<1> SUFFICES ASSUME MapInv, [EvmNext]_evmVars PROVE MapInv'
  OBVIOUS
<1>1. ASSUME NEW from, NEW to, NEW value, pay(from, to, value)
      PROVE  MapInv'
  <2>1. reaped(moved(from, to, value), reserved) \in SUBSET AccountIds
    BY DEF reaped
  <2> QED
    BY <1>1, <2>1, KilledMap DEF pay
<1>2. CASE \E who \in Natives, e \in Addresses, sig \in Signatures :
              claim_account(who, e, sig)
  BY <1>2, ClaimMap
<1>3. CASE \E from \in Natives, e \in Addresses, v \in Amounts : transfer_to_evm(from, e, v)
  BY <1>1, <1>3 DEF transfer_to_evm
<1>4. CASE \E e, to \in Addresses, v \in Amounts : transact(e, to, v)
  BY <1>1, <1>4 DEF transact
<1>5. CASE \E a \in AccountIds, v \in Amounts : Reserve(a, v)
  BY <1>5 DEF Reserve, mapVars, MapInv, MappingIsTwoWay
<1>6. CASE UNCHANGED evmVars
  BY <1>6 DEF evmVars, mapVars, MapInv, MappingIsTwoWay
<1> QED
  BY <1>2, <1>3, <1>4, <1>5, <1>6 DEF EvmNext

(* The invariant makes an address resolve to an account that resolves back.  *)
LEMMA RoundTripFromMap == MapInv => AddressRoundTrip
<1> SUFFICES ASSUME MapInv, NEW e \in Addresses
             PROVE  to_evm_address(into_account_id(e)) = e
  BY DEF AddressRoundTrip
<1>1. CASE Accounts[e] # None
  <2>1. Accounts[e] \in AccountIds
    BY <1>1 DEF MapInv, AccountIds
  <2>2. EvmAddresses[Accounts[e]] = e /\ e # None
    BY <2>1, EvmAssumption DEF MapInv, MappingIsTwoWay
  <2> QED
    BY <1>1, <2>2 DEF into_account_id, to_evm_address
<1>2. CASE Accounts[e] = None
  <2>1. padded(e) \in PaddedAccounts /\ padded(e) \in AccountIds /\ padded(e) \notin Natives
    BY EvmAssumption DEF PaddedAccounts, AccountIds
  <2>2. EvmAddresses[padded(e)] = None
    <3>1. ASSUME NEW x \in Addresses, EvmAddresses[padded(e)] = x
          PROVE  FALSE
      <4>1. Accounts[x] = padded(e)
        BY <2>1, <3>1 DEF MapInv, MappingIsTwoWay
      <4>2. padded(e) # None
        BY <2>1, EvmAssumption
      <4> QED
        BY <2>1, <4>1, <4>2 DEF MapInv
    <3> QED
      BY <2>1, <3>1 DEF MapInv
  <2>3. \A x \in Addresses : padded(x) = padded(e) => x = e
    BY DEF padded
  <2>4. (CHOOSE x \in Addresses : padded(x) = padded(e)) = e
    BY <2>3
  <2> QED
    BY <1>2, <2>1, <2>2, <2>4 DEF into_account_id, to_evm_address
<1> QED
  BY <1>1, <1>2

-----------------------------------------------------------------------------
(* Types, funds and nonces.                                                  *)

(* Genesis has the right types.                                              *)
LEMMA InitType == EvmInit => TypeOK
  BY EvmAssumption DEF EvmInit, TypeOK

(* An address resolves to an account.                                        *)
LEMMA ResolvesToAccount ==
    ASSUME TypeOK, NEW e \in Addresses
    PROVE  into_account_id(e) \in AccountIds /\ padded(e) \in AccountIds
  BY DEF TypeOK, into_account_id, AccountIds, PaddedAccounts

(* A transfer moves what there is.                                           *)
LEMMA MovedType ==
    ASSUME TypeOK, NEW from \in AccountIds, NEW to \in AccountIds, NEW value \in Amounts,
           pay(from, to, value)
    PROVE  moved(from, to, value) \in [AccountIds -> Nat]
<1>1. value \in Nat /\ value <= free[from]
  BY EvmAssumption DEF pay, can_move
<1>2. CASE from = to
  BY <1>2 DEF moved, TypeOK
<1>3. CASE from # to
  <2>1. moved(from, to, value) = [free EXCEPT ![from] = @ - value, ![to] = @ + value]
    BY <1>3 DEF moved
  <2>2. free[from] - value \in Nat /\ free[to] + value \in Nat
    BY <1>1 DEF TypeOK
  <2> QED
    BY <1>3, <2>1, <2>2 DEF TypeOK
<1> QED
  BY <1>2, <1>3

(* What a transfer reaps loses balance, nonce and mapping.                   *)
LEMMA PayType ==
    ASSUME TypeOK, NEW from \in AccountIds, NEW to \in AccountIds, NEW value \in Amounts,
           pay(from, to, value)
    PROVE  TypeOK'
<1>1. free' \in [AccountIds -> Nat] /\ reserved' \in [AccountIds -> Nat]
  BY MovedType DEF pay, TypeOK
<1>2. nonce' \in [AccountIds -> Nat]
  BY DEF pay, TypeOK
<1>3. /\ Accounts' \in [Addresses -> AccountIds \cup {None}]
      /\ EvmAddresses' \in [AccountIds -> Addresses \cup {None}]
  BY DEF pay, on_killed_account, TypeOK
<1> QED
  BY <1>1, <1>2, <1>3 DEF TypeOK

(* What claim_account does to the account data, the padded account written   *)
(* out: it is another account than the claiming one.                         *)
LEMMA ClaimEffect ==
    ASSUME TypeOK, NEW who \in Natives, NEW e \in Addresses, NEW sig \in Signatures,
           claim_account(who, e, sig)
    PROVE  /\ Accounts[e] = None /\ EvmAddresses[who] = None
           /\ who \in AccountIds /\ padded(e) \in AccountIds /\ padded(e) # who
           /\ free' = [free EXCEPT ![padded(e)] = 0,
                                   ![who] = @ + (free[padded(e)] + reserved[padded(e)])]
           /\ reserved' = [reserved EXCEPT ![padded(e)] = 0]
           /\ \E n \in {0, nonce[padded(e)]} :
                 /\ n = 0 => ExistentialDeposit # 0 \/ nonce[padded(e)] = 0
                 /\ nonce' = [nonce EXCEPT ![padded(e)] = n,
                                           ![who] = IF nonce[who] + 1 < n THEN n ELSE nonce[who] + 1]
           /\ Accounts' = [x \in Addresses |-> IF x = e THEN who
                                               ELSE IF EvmAddresses[who] = x THEN None
                                               ELSE Accounts[x]]
           /\ EvmAddresses' = [EvmAddresses EXCEPT ![who] = e]
<1> DEFINE source == into_account_id(e)
           r == [reserved EXCEPT ![source] = 0]
           dead == reaped(merge_account(source, who), r)
           n == IF source \in dead THEN 0 ELSE nonce[source]
<1>1. Accounts[e] = None /\ EvmAddresses[who] = None
  BY DEF claim_account, unmapped
<1>2. source = padded(e)
  BY <1>1 DEF into_account_id
<1>3. who \in AccountIds /\ padded(e) \in AccountIds /\ padded(e) # who
  BY EvmAssumption DEF AccountIds, PaddedAccounts
<1>4. /\ free' = merge_account(source, who)
      /\ reserved' = r
      /\ nonce' = [nonce EXCEPT ![source] = n, ![who] = merged_nonce(nonce[who] + 1, n)]
      /\ Accounts' = [x \in Addresses |-> IF x = e THEN who
                                          ELSE IF EvmAddresses[who] = x THEN None
                                          ELSE Accounts[x]]
      /\ EvmAddresses' = [EvmAddresses EXCEPT ![who] = e]
  BY DEF claim_account
<1>5. ExistentialDeposit = 0 => source \notin dead
  <2> SUFFICES ASSUME ExistentialDeposit = 0, source \in dead PROVE FALSE
    OBVIOUS
  <2>1. merge_account(source, who)[source] + r[source] < 0
    BY DEF reaped, total
  <2>2. merge_account(source, who)[source] = 0
    BY <1>2, <1>3 DEF merge_account, TypeOK
  <2>3. r[source] = 0
    BY <1>2, <1>3 DEF TypeOK
  <2> QED
    BY <2>1, <2>2, <2>3
<1>6. n \in {0, nonce[padded(e)]} /\ (n = 0 => ExistentialDeposit # 0 \/ nonce[padded(e)] = 0)
  BY <1>2, <1>5
<1>7. nonce' = [nonce EXCEPT ![padded(e)] = n,
                             ![who] = IF nonce[who] + 1 < n THEN n ELSE nonce[who] + 1]
  BY <1>2, <1>4 DEF merged_nonce
<1> QED
  BY <1>1, <1>2, <1>3, <1>4, <1>6, <1>7 DEF merge_account, total

(* Every step keeps the types.                                               *)
LEMMA NextType == TypeOK /\ [EvmNext]_evmVars => TypeOK'
<1> SUFFICES ASSUME TypeOK, [EvmNext]_evmVars PROVE TypeOK'
  OBVIOUS
<1>1. ASSUME NEW who \in Natives, NEW e \in Addresses, NEW sig \in Signatures,
             claim_account(who, e, sig)
      PROVE  TypeOK'
  <2>1. free' \in [AccountIds -> Nat] /\ reserved' \in [AccountIds -> Nat]
    BY <1>1, ClaimEffect DEF TypeOK
  <2>2. nonce' \in [AccountIds -> Nat]
    BY <1>1, ClaimEffect DEF TypeOK
  <2>3. /\ Accounts' \in [Addresses -> AccountIds \cup {None}]
        /\ EvmAddresses' \in [AccountIds -> Addresses \cup {None}]
    BY <1>1, ClaimEffect, SMTT(30) DEF TypeOK
  <2> QED
    BY <2>1, <2>2, <2>3 DEF TypeOK
<1>2. ASSUME NEW from \in Natives, NEW e \in Addresses, NEW v \in Amounts,
             transfer_to_evm(from, e, v)
      PROVE  TypeOK'
  BY <1>2, ResolvesToAccount, PayType DEF transfer_to_evm, AccountIds
<1>3. ASSUME NEW e \in Addresses, NEW to \in Addresses, NEW v \in Amounts, transact(e, to, v)
      PROVE  TypeOK'
  BY <1>3, ResolvesToAccount, PayType DEF transact
<1>4. ASSUME NEW a \in AccountIds, NEW v \in Amounts, Reserve(a, v)
      PROVE  TypeOK'
  <2>1. v \in Nat /\ free[a] - v \in Nat /\ reserved[a] + v \in Nat
    BY <1>4, EvmAssumption DEF Reserve, TypeOK
  <2> QED
    BY <1>4, <2>1 DEF Reserve, TypeOK, mapVars
<1>5. CASE UNCHANGED evmVars
  BY <1>5 DEF evmVars, mapVars, TypeOK
<1> QED
  BY <1>1, <1>2, <1>3, <1>4, <1>5 DEF EvmNext

(* The maps Accounts and EvmAddresses are inverse in every reachable state,  *)
(* whatever accounts are claimed or reaped.                                  *)
THEOREM TwoWay == EvmSpec => []MappingIsTwoWay
<1>1. MapInv => MappingIsTwoWay
  BY DEF MapInv
<1> QED
  BY <1>1, InitMap, NextMap, PTL DEF EvmSpec

(* An address always resolves to an account that resolves back to it, so     *)
(* two addresses never act through one account.                              *)
THEOREM RoundTrip == EvmSpec => []AddressRoundTrip
  BY InitMap, NextMap, RoundTripFromMap, PTL DEF EvmSpec

(* Balances, reserved balances, nonces and the maps keep their types: no     *)
(* transfer, merge or reservation takes more than there is.                  *)
THEOREM AccountsTyped == EvmSpec => []TypeOK
  BY InitType, NextType, PTL DEF EvmSpec

(* The condition of ClaimMovesAllFunds holds of every step: only             *)
(* claim_account gives an address an account, and merge_account empties the  *)
(* padded one.                                                               *)
LEMMA StepMovesAllFunds ==
    ASSUME TypeOK, EvmNext, NEW e \in Addresses, NEW who \in Natives,
           Accounts[e] = None, Accounts'[e] = who
    PROVE  /\ total(free, reserved, who)'
                 = total(free, reserved, padded(e)) + total(free, reserved, who)
           /\ total(free, reserved, padded(e))' = 0
<1>1. who # None
  BY EvmAssumption DEF AccountIds
<1>2. ASSUME NEW from, NEW to, NEW value, pay(from, to, value)
      PROVE  FALSE
  BY <1>1, <1>2 DEF pay, on_killed_account
<1>3. ASSUME NEW a, NEW v, Reserve(a, v) PROVE FALSE
  BY <1>1, <1>3 DEF Reserve, mapVars
<1>4. ASSUME NEW w \in Natives, NEW x \in Addresses, NEW sig \in Signatures,
             claim_account(w, x, sig)
      PROVE  /\ total(free, reserved, who)'
                   = total(free, reserved, padded(e)) + total(free, reserved, who)
             /\ total(free, reserved, padded(e))' = 0
  <2>1. x = e /\ w = who
    BY <1>1, <1>4, ClaimEffect
  <2>2. /\ who \in AccountIds /\ padded(e) \in AccountIds /\ padded(e) # who
        /\ free' = [free EXCEPT ![padded(e)] = 0,
                                ![who] = @ + (free[padded(e)] + reserved[padded(e)])]
        /\ reserved' = [reserved EXCEPT ![padded(e)] = 0]
    BY <1>4, <2>1, ClaimEffect
  <2>3. /\ free'[who] = free[who] + (free[padded(e)] + reserved[padded(e)])
        /\ reserved'[who] = reserved[who]
        /\ free'[padded(e)] = 0 /\ reserved'[padded(e)] = 0
    BY <2>2 DEF TypeOK
  <2>4. /\ free[who] \in Nat /\ reserved[who] \in Nat
        /\ free[padded(e)] \in Nat /\ reserved[padded(e)] \in Nat
    BY <2>2 DEF TypeOK
  <2> QED
    BY <2>3, <2>4 DEF total
<1> QED
  BY <1>2, <1>3, <1>4 DEF EvmNext, transfer_to_evm, transact

(* Claiming an address moves all the funds of its padded account, free and   *)
(* reserved, whatever the balances and the existential deposit.              *)
THEOREM AllFundsMove == EvmSpec => ClaimMovesAllFunds
<1>1. TypeOK /\ [EvmNext]_evmVars =>
        [\A e \in Addresses, who \in Natives :
           Accounts[e] = None /\ Accounts'[e] = who =>
              /\ total(free, reserved, who)'
                    = total(free, reserved, padded(e)) + total(free, reserved, who)
              /\ total(free, reserved, padded(e))' = 0]_evmVars
  BY StepMovesAllFunds
<1> QED
  BY <1>1, AccountsTyped, PTL DEF EvmSpec, ClaimMovesAllFunds

-----------------------------------------------------------------------------
(* Conservation of money.                                                    *)

(* What all the accounts hold together, free and reserved. *)
holdings == [a \in AccountIds |-> total(free, reserved, a)]
issued == SumFunctionOnSet(holdings, AccountIds)

(* No operation on the accounts creates money: the transfers, the merge of a *)
(* claim and the reservations hand over what they take away, and reaping     *)
(* burns the dust.                                                           *)
NoMoneyCreated == [][issued' <= issued]_evmVars

(* None is lost either.                                                      *)
NoMoneyLost == [][issued' = issued]_evmVars

(* No account is left below the existential deposit, unless it is empty:     *)
(* what merge_account sends is never too little to open an account with.     *)
NoDust == \A a \in AccountIds :
             total(free, reserved, a) = 0 \/ total(free, reserved, a) >= ExistentialDeposit

(* The accounts are finitely many.                                           *)
LEMMA AccountsFinite == IsFiniteSet(AccountIds)
<1>1. IsFiniteSet(PaddedAccounts)
  <2> DEFINE f == [e \in Addresses |-> padded(e)]
  <2>1. f \in Surjection(Addresses, PaddedAccounts)
    BY DEF Surjection, PaddedAccounts
  <2> QED
    BY <2>1, EvmAssumption, FS_Surjection
<1> QED
  BY <1>1, EvmAssumption, FS_Union DEF AccountIds

(* A transfer takes from one account what it gives to the other, and then    *)
(* burns the dust.                                                           *)
LEMMA PayKeepsSum ==
    ASSUME TypeOK, NEW from \in AccountIds, NEW to \in AccountIds, NEW value \in Amounts,
           pay(from, to, value)
    PROVE  /\ issued' <= issued
           /\ ExistentialDeposit = 0 => issued' = issued
<1> DEFINE f == moved(from, to, value)
           sent == [a \in AccountIds |-> total(f, reserved, a)]
<1>1. f \in [AccountIds -> Nat]
  BY MovedType
<1>2. \A a \in AccountIds : sent[a] \in Nat /\ holdings[a] \in Nat
  BY <1>1 DEF TypeOK, holdings, total
<1>3. SumFunctionOnSet(sent, AccountIds) = issued
  <2>1. CASE from = to
    <3>1. sent = holdings
      BY <2>1 DEF moved, holdings
    <3> QED
      BY <3>1 DEF issued
  <2>2. CASE from # to
    <3>1. /\ f[from] = free[from] - value /\ f[to] = free[to] + value
          /\ \A a \in AccountIds \ {from, to} : f[a] = free[a]
      BY <2>2 DEF moved, TypeOK
    <3>2. /\ free[from] \in Nat /\ free[to] \in Nat /\ value \in Nat
          /\ reserved[from] \in Nat /\ reserved[to] \in Nat
      BY EvmAssumption DEF TypeOK
    <3>3. sent[from] + sent[to] = holdings[from] + holdings[to]
      BY <3>1, <3>2 DEF holdings, total
    <3>4. \A a \in AccountIds \ {from, to} : sent[a] = holdings[a]
      BY <3>1 DEF holdings, total
    <3> HIDE DEF sent
    <3> QED
      BY <1>2, <2>2, <3>3, <3>4, AccountsFinite, SumMove DEF issued
  <2> QED
    BY <2>1, <2>2
<1>4. \A a \in AccountIds : holdings'[a] \in Nat /\ holdings'[a] <= sent[a]
  <2> SUFFICES ASSUME NEW a \in AccountIds
               PROVE  holdings'[a] \in Nat /\ holdings'[a] <= sent[a]
    OBVIOUS
  <2>1. f[a] \in Nat /\ reserved[a] \in Nat
    BY <1>1 DEF TypeOK
  <2>2. holdings'[a] = IF a \in reaped(f, reserved) THEN 0 ELSE f[a] + reserved[a]
    BY DEF pay, holdings, total
  <2> QED
    BY <2>1, <2>2 DEF total
<1>5. issued' <= issued
  <2> HIDE DEF sent
  <2> QED
    BY <1>2, <1>3, <1>4, AccountsFinite, SumLeq DEF issued
<1>6. ASSUME ExistentialDeposit = 0 PROVE issued' = issued
  <2>1. \A a \in AccountIds : holdings'[a] = sent[a]
    <3> SUFFICES ASSUME NEW a \in AccountIds PROVE holdings'[a] = sent[a]
      OBVIOUS
    <3>1. f[a] \in Nat /\ reserved[a] \in Nat
      BY <1>1 DEF TypeOK
    <3>2. a \notin reaped(f, reserved)
      BY <1>6, <3>1 DEF reaped, total
    <3> QED
      BY <3>2 DEF pay, holdings, total
  <2> HIDE DEF sent
  <2> QED
    BY <1>3, <2>1, AccountsFinite, SumCong DEF issued
<1> QED
  BY <1>5, <1>6

(* The merge of a claim moves the holdings of the padded account.            *)
LEMMA ClaimKeepsSum ==
    ASSUME TypeOK, NEW who \in Natives, NEW e \in Addresses, NEW sig \in Signatures,
           claim_account(who, e, sig)
    PROVE  issued' = issued
<1>1. /\ who \in AccountIds /\ padded(e) \in AccountIds /\ padded(e) # who
      /\ free' = [free EXCEPT ![padded(e)] = 0,
                              ![who] = @ + (free[padded(e)] + reserved[padded(e)])]
      /\ reserved' = [reserved EXCEPT ![padded(e)] = 0]
  BY ClaimEffect
<1>2. \A a \in AccountIds : holdings[a] \in Nat /\ holdings'[a] \in Nat
  BY <1>1 DEF TypeOK, holdings, total
<1>3. holdings'[padded(e)] + holdings'[who] = holdings[padded(e)] + holdings[who]
  <2>1. /\ free[who] \in Nat /\ reserved[who] \in Nat
        /\ free[padded(e)] \in Nat /\ reserved[padded(e)] \in Nat
    BY <1>1 DEF TypeOK
  <2>2. /\ free'[who] = free[who] + (free[padded(e)] + reserved[padded(e)])
        /\ reserved'[who] = reserved[who]
        /\ free'[padded(e)] = 0 /\ reserved'[padded(e)] = 0
    BY <1>1 DEF TypeOK
  <2> QED
    BY <1>1, <2>1, <2>2 DEF holdings, total
<1>4. \A a \in AccountIds \ {padded(e), who} : holdings'[a] = holdings[a]
  BY <1>1 DEF holdings, total, TypeOK
<1> QED
  BY <1>1, <1>2, <1>3, <1>4, AccountsFinite, SumMove DEF issued

(* A reservation only changes the kind of the money.                         *)
LEMMA ReserveKeepsSum ==
    ASSUME TypeOK, NEW a \in AccountIds, NEW v \in Amounts, Reserve(a, v)
    PROVE  issued' = issued
<1>1. v \in Nat /\ \A x \in AccountIds : free[x] \in Nat /\ reserved[x] \in Nat
  BY EvmAssumption DEF TypeOK
<1>2. \A x \in AccountIds : holdings'[x] = holdings[x]
  BY <1>1 DEF Reserve, holdings, total, TypeOK
<1> QED
  BY <1>2, AccountsFinite, SumCong DEF issued

(* Every operation.                                                          *)
LEMMA StepKeepsMoney ==
    ASSUME TypeOK, [EvmNext]_evmVars
    PROVE  /\ issued' <= issued
           /\ ExistentialDeposit = 0 => issued' = issued
<1>1. issued \in Int
  <2>1. \A a \in AccountIds : holdings[a] \in Int
    BY DEF TypeOK, holdings, total
  <2> QED
    BY <2>1, AccountsFinite, SumInt DEF issued
<1>2. CASE \E who \in Natives, e \in Addresses, sig \in Signatures :
              claim_account(who, e, sig)
  BY <1>1, <1>2, ClaimKeepsSum
<1>3. CASE \E from \in Natives, e \in Addresses, v \in Amounts : transfer_to_evm(from, e, v)
  BY <1>3, PayKeepsSum, ResolvesToAccount DEF transfer_to_evm, AccountIds
<1>4. CASE \E e, to \in Addresses, v \in Amounts : transact(e, to, v)
  BY <1>4, PayKeepsSum, ResolvesToAccount DEF transact
<1>5. CASE \E a \in AccountIds, v \in Amounts : Reserve(a, v)
  BY <1>1, <1>5, ReserveKeepsSum
<1>6. CASE UNCHANGED evmVars
  BY <1>1, <1>6 DEF evmVars, issued, holdings, total
<1> QED
  BY <1>2, <1>3, <1>4, <1>5, <1>6 DEF EvmNext

(* Transfers between the two worlds, claims and reservations create no       *)
(* money, and with the runtime's existential deposit of zero they lose none: *)
(* what all accounts hold together stays what genesis gave them.             *)
THEOREM MoneyConserved ==
    /\ EvmSpec => NoMoneyCreated
    /\ ExistentialDeposit = 0 => (EvmSpec => NoMoneyLost)
<1>1. TypeOK /\ [EvmNext]_evmVars => [issued' <= issued]_evmVars
  BY StepKeepsMoney
<1>2. EvmSpec => NoMoneyCreated
  BY <1>1, AccountsTyped, PTL DEF EvmSpec, NoMoneyCreated
<1>3. ASSUME ExistentialDeposit = 0 PROVE EvmSpec => NoMoneyLost
  <2>1. TypeOK /\ [EvmNext]_evmVars => [issued' = issued]_evmVars
    BY <1>3, StepKeepsMoney
  <2> QED
    BY <2>1, AccountsTyped, PTL DEF EvmSpec, NoMoneyLost
<1> QED
  BY <1>2, <1>3

(* A transfer that leaves an account too little reaps it.                    *)
LEMMA PayNoDust ==
    ASSUME TypeOK, NoDust,
           NEW from \in AccountIds, NEW to \in AccountIds, NEW value \in Amounts,
           pay(from, to, value)
    PROVE  NoDust'
<1> DEFINE f == moved(from, to, value)
           dead == reaped(f, reserved)
<1> SUFFICES ASSUME NEW a \in AccountIds
             PROVE  total(free, reserved, a)' = 0 \/ total(free, reserved, a)' >= ExistentialDeposit
  BY DEF NoDust
<1>1. total(free, reserved, a)' = IF a \in dead THEN 0 ELSE f[a] + reserved[a]
  BY DEF pay, total
<1>2. /\ free[a] \in Nat /\ reserved[a] \in Nat /\ value \in Nat /\ ExistentialDeposit \in Nat
      /\ free[a] + reserved[a] = 0 \/ free[a] + reserved[a] >= ExistentialDeposit
  BY EvmAssumption DEF TypeOK, NoDust, total
<1>3. CASE a \in dead
  BY <1>1, <1>3
<1>4. CASE a \notin dead /\ f[a] = free[a]
  BY <1>1, <1>2, <1>4
<1>5. CASE a \notin dead /\ from # to /\ a = from
  <2>1. f[a] = free[a] - value /\ value <= free[a]
    BY <1>5 DEF pay, can_move, moved, TypeOK
  <2>2. free[a] + reserved[a] < ExistentialDeposit \/ f[a] + reserved[a] >= ExistentialDeposit
    BY <1>2, <1>5, <2>1 DEF reaped, total
  <2> QED
    BY <1>1, <1>2, <1>5, <2>1, <2>2
<1>6. CASE a \notin dead /\ from # to /\ a = to
  <2>1. /\ f[a] = free[a] + value
        /\ value > 0 => free[a] + reserved[a] + value >= ExistentialDeposit
    BY <1>6 DEF pay, can_move, moved, total, TypeOK
  <2> QED
    BY <1>1, <1>2, <1>6, <2>1
<1>7. f[a] = free[a] \/ (from # to /\ a \in {from, to})
  BY DEF moved, TypeOK
<1> QED
  BY <1>3, <1>4, <1>5, <1>6, <1>7

(* A claim adds what is nothing or enough to what is nothing or enough.      *)
LEMMA ClaimNoDust ==
    ASSUME TypeOK, NoDust, NEW who \in Natives, NEW e \in Addresses, NEW sig \in Signatures,
           claim_account(who, e, sig)
    PROVE  NoDust'
<1> DEFINE source == padded(e)
<1>1. /\ who \in AccountIds /\ source \in AccountIds /\ source # who
      /\ free' = [free EXCEPT ![source] = 0, ![who] = @ + (free[source] + reserved[source])]
      /\ reserved' = [reserved EXCEPT ![source] = 0]
  BY ClaimEffect
<1> SUFFICES ASSUME NEW a \in AccountIds
             PROVE  total(free, reserved, a)' = 0 \/ total(free, reserved, a)' >= ExistentialDeposit
  BY DEF NoDust
<1> HIDE DEF source
<1>2. \A x \in AccountIds :
         /\ free[x] \in Nat /\ reserved[x] \in Nat
         /\ free[x] + reserved[x] = 0 \/ free[x] + reserved[x] >= ExistentialDeposit
  BY DEF TypeOK, NoDust, total
<1>3. CASE a = source
  BY <1>1, <1>3 DEF total, TypeOK
<1>4. CASE a = who
  <2>1. total(free, reserved, a)' = free[who] + (free[source] + reserved[source]) + reserved[who]
    BY <1>1, <1>4 DEF total, TypeOK
  <2> QED
    BY <1>1, <1>2, <2>1, EvmAssumption
<1>5. CASE a \notin {source, who}
  <2>1. total(free, reserved, a)' = free[a] + reserved[a]
    BY <1>1, <1>5 DEF total, TypeOK
  <2> QED
    BY <1>2, <2>1
<1> QED
  BY <1>3, <1>4, <1>5

(* In every reachable state an account is empty or holds the existential     *)
(* deposit, so that the transfer of merge_account, which fails when it would *)
(* open an account with less, never makes claim_account fail.                *)
THEOREM NoAccountBelowDeposit == EvmSpec => []NoDust
<1>1. EvmInit => NoDust
  <2> SUFFICES ASSUME EvmInit, NEW a \in AccountIds
               PROVE  total(free, reserved, a) = 0 \/ total(free, reserved, a) >= ExistentialDeposit
    BY DEF NoDust
  <2>1. free[a] \in {Endowment, 0} /\ reserved[a] = 0
    BY DEF EvmInit
  <2> QED
    BY <2>1, EvmAssumption DEF total
<1>2. TypeOK /\ NoDust /\ [EvmNext]_evmVars => NoDust'
  <2> SUFFICES ASSUME TypeOK, NoDust, [EvmNext]_evmVars PROVE NoDust'
    OBVIOUS
  <2>1. CASE \E who \in Natives, e \in Addresses, sig \in Signatures :
                claim_account(who, e, sig)
    BY <2>1, ClaimNoDust
  <2>2. CASE \E from \in Natives, e \in Addresses, v \in Amounts : transfer_to_evm(from, e, v)
    BY <2>2, PayNoDust, ResolvesToAccount DEF transfer_to_evm, AccountIds
  <2>3. CASE \E e, to \in Addresses, v \in Amounts : transact(e, to, v)
    BY <2>3, PayNoDust, ResolvesToAccount DEF transact
  <2>4. ASSUME NEW a \in AccountIds, NEW v \in Amounts, Reserve(a, v) PROVE NoDust'
    <3>1. v \in Nat /\ \A x \in AccountIds : free[x] \in Nat /\ reserved[x] \in Nat
      BY EvmAssumption DEF TypeOK
    <3>2. \A x \in AccountIds : total(free, reserved, x)' = total(free, reserved, x)
      BY <2>4, <3>1 DEF Reserve, total, TypeOK
    <3> QED
      BY <3>2 DEF NoDust
  <2>5. CASE UNCHANGED evmVars
    BY <2>5 DEF evmVars, NoDust, total
  <2> QED
    BY <2>1, <2>2, <2>3, <2>4, <2>5 DEF EvmNext
<1> QED
  BY <1>1, <1>2, AccountsTyped, PTL DEF EvmSpec

(* Without an existential deposit nothing is reaped, and no step takes the   *)
(* nonce of an address back.                                                 *)
LEMMA StepKeepsNonces ==
    ASSUME ExistentialDeposit = 0, TypeOK, EvmNext, NEW x \in Addresses
    PROVE  nonce[into_account_id(x)] <= (nonce[into_account_id(x)])'
<1>1. into_account_id(x) \in AccountIds
  BY ResolvesToAccount
<1>2. ASSUME NEW from \in AccountIds, NEW to \in AccountIds, NEW value \in Amounts,
             pay(from, to, value)
      PROVE  nonce[into_account_id(x)] <= (nonce[into_account_id(x)])'
  <2> DEFINE dead == reaped(moved(from, to, value), reserved)
  <2>1. dead = {}
    <3>1. ASSUME NEW a \in AccountIds PROVE ~(total(moved(from, to, value), reserved, a) < 0)
      <4>1. moved(from, to, value)[a] \in Nat /\ reserved[a] \in Nat
        BY <1>2, MovedType DEF TypeOK
      <4> QED
        BY <4>1 DEF total
    <3> QED
      BY <3>1 DEF reaped
  <2>2. Accounts' = Accounts
    BY <1>2, <2>1 DEF pay, on_killed_account, TypeOK
  <2>3. \A a \in AccountIds : nonce[a] \in Nat /\ nonce[a] <= nonce'[a]
    BY <1>2, <2>1 DEF pay, TypeOK
  <2> QED
    BY <1>1, <2>2, <2>3 DEF into_account_id
<1>3. ASSUME NEW a \in AccountIds, NEW v \in Amounts, Reserve(a, v)
      PROVE  nonce[into_account_id(x)] <= (nonce[into_account_id(x)])'
  BY <1>1, <1>3 DEF Reserve, mapVars, into_account_id, TypeOK
<1>4. ASSUME NEW who \in Natives, NEW e \in Addresses, NEW sig \in Signatures,
             claim_account(who, e, sig)
      PROVE  nonce[into_account_id(x)] <= (nonce[into_account_id(x)])'
  <2>1. PICK n \in {0, nonce[padded(e)]} :
           /\ n = 0 => nonce[padded(e)] = 0
           /\ nonce' = [nonce EXCEPT ![padded(e)] = n,
                                     ![who] = IF nonce[who] + 1 < n THEN n ELSE nonce[who] + 1]
    BY <1>4, ClaimEffect
  <2>2. /\ Accounts[e] = None /\ EvmAddresses[who] = None
        /\ who \in AccountIds /\ padded(e) \in AccountIds /\ padded(e) # who
        /\ Accounts' = [y \in Addresses |-> IF y = e THEN who
                                            ELSE IF EvmAddresses[who] = y THEN None
                                            ELSE Accounts[y]]
    BY <1>4, ClaimEffect
  <2>3. n = nonce[padded(e)] /\ n \in Nat /\ nonce[who] \in Nat
    BY <2>1, <2>2 DEF TypeOK
  <2>4. \A a \in AccountIds : nonce[a] \in Nat /\ nonce[a] <= nonce'[a]
    BY <2>1, <2>2, <2>3 DEF TypeOK
  <2>5. nonce[padded(e)] <= nonce'[who]
    BY <2>1, <2>2, <2>3 DEF TypeOK
  <2>6. CASE x = e
    <3>1. into_account_id(x) = padded(e) /\ into_account_id(x)' = who
      BY <2>2, <2>6, EvmAssumption DEF into_account_id, AccountIds
    <3> QED
      BY <2>5, <3>1
  <2>7. CASE x # e
    <3>1. into_account_id(x)' = into_account_id(x)
      BY <2>2, <2>7, EvmAssumption DEF into_account_id
    <3> QED
      BY <1>1, <2>4, <3>1
  <2> QED
    BY <2>6, <2>7
<1> QED
  BY <1>2, <1>3, <1>4, ResolvesToAccount DEF EvmNext, transfer_to_evm, transact, AccountIds

(* With the runtime's existential deposit of zero the nonce the EVM sees for *)
(* an address never falls, over transfers, claims and changes of account.    *)
THEOREM NonceNeverFalls ==
    ASSUME ExistentialDeposit = 0
    PROVE  EvmSpec => EvmNonceNeverFalls
<1>1. TypeOK /\ [EvmNext]_evmVars =>
        [\A e \in Addresses : nonce[into_account_id(e)] <= (nonce[into_account_id(e)])']_evmVars
  BY StepKeepsNonces
<1> QED
  BY <1>1, AccountsTyped, PTL DEF EvmSpec, EvmNonceNeverFalls

---------------------------------------------------------------------------
(* The start-up *)

Producers == {"manual-seal", "babe-proposer"}
Watchers  == {MAPPING, FILTERS}

(* The inductive invariant: what holds at every point of the start-up.     *)
(* Quiet: nobody can import a block.  Watched: the streams are held.       *)
Quiet   == ~network /\ tasks \cap Producers = {}
Watched == Watchers \subseteq subscribed
OInv ==
    /\ missed = {}
    /\ \/ pc \in {"start", "stopped", "build_network", "spawn_tasks"} /\ Quiet
       \/ pc = "spawn_pools" /\ Quiet /\ MAPPING \in subscribed
       \/ pc \in {"authoring", "finality", "start_network"} /\ Watched
       \/ pc = "light_network" /\ Quiet /\ cli.role = "Light"
       \/ pc = "light_tasks" /\ cli.role = "Light"
       \/ pc = "up" /\ (cli.role = "Light" \/ Watched)

(* Names of different tasks. *)
LEMMA DistinctTasks == {MAPPING, FILTERS, PENDING, DISCOVERY, "grandpa-voter"} \cap Producers = {}
  BY DEF MAPPING, FILTERS, PENDING, DISCOVERY, Producers

(* An import is notified to the watchers, or the node is a light one. *)
LEMMA ImportMissesNothing ==
    ASSUME OInv, ~Quiet, NEW b, NEW notify \in BOOLEAN, imported(b, notify)
    PROVE  missed' = {}
  BY DEF OInv, imported, Watched, Watchers

(* The process is quiet again when it has ended. *)
LEMMA ExitQuiet == OInv /\ Exit => OInv'
  BY DEF OInv, Exit, Quiet

(* Every step of the start-up keeps the invariant. *)
LEMMA StartupOrdered == OInv /\ startup => OInv'
<1> SUFFICES ASSUME OInv, startup PROVE OInv'
  OBVIOUS
<1>1. CASE run
  BY <1>1, ExitQuiet DEF run
<1>2. CASE new_full
  <2>1. CASE new_partial
    BY <2>1 DEF new_partial, Next_step, service, OInv, Quiet
  <2>2. CASE build_network
    BY <2>2 DEF build_network, Next_step, service, OInv, Quiet
  <2>3. CASE spawn_tasks
    BY <2>3, DistinctTasks DEF spawn_tasks, Next_step, OInv, Quiet
  <2>4. CASE spawn_pools
    BY <2>4 DEF spawn_pools, Next_step, OInv, Watched, Watchers
  <2>5. CASE authoring
    BY <2>5 DEF authoring, Next_step, OInv, Watched
  <2>6. CASE finality
    BY <2>6 DEF finality, Next_step, OInv, Watched
  <2>7. CASE start_network
    BY <2>7 DEF start_network, Next_step, OInv, Watched
  <2> QED
    BY <1>2, <2>1, <2>2, <2>3, <2>4, <2>5, <2>6, <2>7 DEF new_full
<1>3. CASE new_light
  BY <1>3 DEF new_light, new_light_parts, light_network, light_tasks, Next_step, service, OInv, Quiet
<1>4. CASE startup_error
  BY <1>4, ExitQuiet DEF startup_error, Fail
<1> QED
  BY <1>1, <1>2, <1>3, <1>4 DEF startup

(* A step that leaves the start-up where it is and spawns nothing. *)
LEMMA RunningOrdered ==
    ASSUME OInv, missed' = {}, UNCHANGED <<cli, pc, subscribed, network>>, tasks' \subseteq tasks
    PROVE  OInv'
  BY DEF OInv, Quiet, Watched

(* Every step keeps the invariant. *)
LEMMA NextOrdered == OInv /\ [Next]_vars => OInv'
<1> SUFFICES ASSUME OInv, [Next]_vars PROVE OInv'
  OBVIOUS
<1>1. CASE startup
  BY <1>1, StartupOrdered
<1>2. CASE Restart
  BY <1>2 DEF Restart, OInv, Quiet
<1>3. CASE network_import
  <2>1. missed' = {}
    BY <1>3, ImportMissesNothing DEF network_import, Quiet
  <2> QED
    BY <1>3, <2>1, RunningOrdered DEF network_import
<1>4. CASE babe_proposes
  <2>1. missed' = {}
    BY <1>4, ImportMissesNothing DEF babe_proposes, Quiet, Producers
  <2> QED
    BY <1>4, <2>1, RunningOrdered DEF babe_proposes
<1>5. CASE run_manual_seal
  <2>1. missed' = {}
    BY <1>5, ImportMissesNothing DEF run_manual_seal, Quiet, Producers, OInv
  <2> QED
    BY <1>5, <2>1, RunningOrdered DEF run_manual_seal
<1>6. CASE mapping_sync
  BY <1>6, RunningOrdered DEF mapping_sync, OInv
<1>7. ASSUME NEW c \in Calls, create_block(c) \/ send(c) PROVE OInv'
  BY <1>7, RunningOrdered DEF create_block, send, service, OInv
<1>8. ASSUME NEW t \in Tasks, task_ends(t) PROVE OInv'
  BY <1>8, RunningOrdered DEF task_ends, OInv
<1>9. CASE essential_exit \/ signal_exit
  BY <1>9, ExitQuiet DEF essential_exit, signal_exit
<1>10. CASE UNCHANGED vars
  BY <1>10, RunningOrdered DEF vars, service, OInv
<1> QED
  BY <1>1, <1>2, <1>3, <1>4, <1>5, <1>6, <1>7, <1>8, <1>9, <1>10 DEF Next

(* No block is notified before the mapping worker and the filter pool hold *)
(* their streams, over any number of restarts, failed starts and lost      *)
(* tasks.                                                                  *)
THEOREM NothingMissed == Spec => []WatchersMissNothing
<1>1. Init => OInv
  BY DEF Init, OInv, Quiet
<1>2. OInv => WatchersMissNothing
  BY DEF OInv, WatchersMissNothing
<1> QED
  BY <1>1, <1>2, NextOrdered, PTL DEF Spec

---------------------------------------------------------------------------
(* The pools of the Ethereum RPC *)

(* The inductive invariant: the types, and a filter pool that is finite, so *)
(* that its cardinality is a number whatever the filters there may be.      *)
PInv == PoolsTypeOK /\ IsFiniteSet(Stored(filter_pool))

(* A function of the keys in a pool to ages is a pool.                      *)
LEMMA PoolOf ==
    ASSUME NEW keys, NEW pool
    PROVE  pool \in Pools(keys) <=>
              /\ Stored(pool) \subseteq keys
              /\ pool \in [Stored(pool) -> 0..MAX_AGE]
  BY Zenon DEF Pools, Stored

(* The largest age is a number, and no threshold is beyond it.              *)
LEMMA MaxAge == MAX_AGE \in Nat /\ MAX_LAG <= MAX_AGE
  BY PoolConstants DEF MAX_AGE

(* Storing an entry, removing entries and growing older keep a pool a pool. *)
LEMMA PutPool ==
    ASSUME NEW keys, NEW pool \in Pools(keys), NEW key \in keys, NEW age \in 0..MAX_AGE
    PROVE  Put(pool, key, age) \in Pools(keys) /\ Stored(Put(pool, key, age)) = Stored(pool) \cup {key}
<1>1. Stored(pool) \subseteq keys /\ pool \in [Stored(pool) -> 0..MAX_AGE]
  BY PoolOf
<1>2. Stored(Put(pool, key, age)) = Stored(pool) \cup {key}
  BY DEF Put, Stored
<1>3. Put(pool, key, age) \in [Stored(pool) \cup {key} -> 0..MAX_AGE]
  BY <1>1 DEF Put
<1> QED
  BY <1>1, <1>2, <1>3, PoolOf

(* Removing entries leaves a pool.                                           *)
LEMMA RemovePool ==
    ASSUME NEW keys, NEW pool \in Pools(keys), NEW gone
    PROVE  Remove(pool, gone) \in Pools(keys) /\ Stored(Remove(pool, gone)) = Stored(pool) \ gone
<1>1. Stored(pool) \subseteq keys /\ pool \in [Stored(pool) -> 0..MAX_AGE]
  BY PoolOf
<1>2. Stored(Remove(pool, gone)) = Stored(pool) \ gone
  BY DEF Remove, Restrict, Stored
<1>3. Remove(pool, gone) \in [Stored(pool) \ gone -> 0..MAX_AGE]
  BY <1>1 DEF Remove, Restrict
<1> QED
  BY <1>1, <1>2, <1>3, PoolOf

(* Growing older leaves a pool.                                              *)
LEMMA OlderPool ==
    ASSUME NEW keys, NEW pool \in Pools(keys)
    PROVE  Older(pool) \in Pools(keys) /\ Stored(Older(pool)) = Stored(pool)
<1>1. Stored(pool) \subseteq keys /\ pool \in [Stored(pool) -> 0..MAX_AGE]
  BY PoolOf
<1>2. Stored(Older(pool)) = Stored(pool)
  BY DEF Older, Stored
<1>3. Older(pool) \in [Stored(pool) -> 0..MAX_AGE]
  BY <1>1, MaxAge DEF Older
<1> QED
  BY <1>1, <1>2, <1>3, PoolOf

(* Notifications that fall behind by one block.                              *)
LEMMA LaterBox ==
    ASSUME NEW box \in Seq(Notifications), Room(box)
    PROVE  Later(box) \in Seq(Notifications)
<1>1. ASSUME NEW i \in DOMAIN box
      PROVE  [box[i] EXCEPT !.lag = @ + 1] \in Notifications
  <2>1. box[i] \in Notifications /\ box[i].lag < MAX_LAG
    BY <1>1 DEF Room
  <2>2. box[i].lag + 1 \in 0..MAX_LAG
    BY <2>1, PoolConstants DEF Notifications
  <2> QED
    BY <2>1, <2>2 DEF Notifications
<1>2. Len(box) \in Nat /\ DOMAIN box = 1..Len(box)
  OBVIOUS
<1>3. Later(box) \in [1..Len(box) -> Notifications]
  BY <1>1, <1>2 DEF Later
<1> QED
  BY <1>2, <1>3

(* What an imported block sends.                                             *)
LEMMA SentBox ==
    ASSUME NEW lag \in 0..MAX_LAG, NEW txs \in SUBSET Txs, NEW notify \in BOOLEAN
    PROVE  Sent(lag, txs, notify) \in Seq(Notifications)
<1>1. [lag |-> lag, txs |-> txs] \in Notifications
  BY DEF Notifications
<1> QED
  BY <1>1 DEF Sent

(* Both pools are empty when the node starts.                               *)
LEMMA PoolsStart == PoolsInit => PInv
<1> SUFFICES ASSUME PoolsInit PROVE PInv
  OBVIOUS
<1>1. Stored(<<>>) = {} /\ <<>> \in [Stored(<<>>) -> 0..MAX_AGE]
  BY DEF Stored
<1>2. \A keys : <<>> \in Pools(keys)
  BY <1>1, PoolOf
<1>3. IsFiniteSet(Stored(<<>>)) /\ Cardinality(Stored(<<>>)) = 0
  BY <1>1, FS_EmptySet
<1> QED
  BY <1>2, <1>3, PoolConstants DEF PoolsInit, PInv, PoolsTypeOK

(* A pool that loses entries stays finite and within its limit.             *)
LEMMA SmallerPool ==
    ASSUME PInv, NEW gone
    PROVE  LET kept == Stored(filter_pool) \ gone
           IN  IsFiniteSet(kept) /\ Cardinality(kept) =< MAX_STORED_FILTERS
<1>1. /\ IsFiniteSet(Stored(filter_pool) \ gone)
      /\ Cardinality(Stored(filter_pool) \ gone) =< Cardinality(Stored(filter_pool))
  BY FS_Subset DEF PInv
<1>2. /\ Cardinality(Stored(filter_pool) \ gone) \in Nat
      /\ Cardinality(Stored(filter_pool)) \in Nat
      /\ Cardinality(Stored(filter_pool)) =< MAX_STORED_FILTERS
  BY <1>1, FS_CardinalityType DEF PInv, PoolsTypeOK
<1> QED
  BY <1>1, <1>2, PoolConstants

(* An RPC call keeps the types and the limit of the filter pool: a filter   *)
(* is stored only while the pool, locked by the call, has room for it.      *)
LEMMA RpcKeeps == PInv /\ Rpc => PInv'
<1> SUFFICES ASSUME PInv, Rpc PROVE PInv'
  OBVIOUS
<1>0. behind \in 0..MAX_AGE
  BY MaxAge, PoolConstants DEF PInv, PoolsTypeOK
<1>1. ASSUME NEW f \in Filters, new_filter(f) PROVE PInv'
  <2>1. creating' \in Pools(Filters)
    BY <1>0, <1>1, PutPool DEF new_filter, PInv, PoolsTypeOK
  <2> QED
    BY <1>1, <2>1 DEF new_filter, PInv, PoolsTypeOK
<1>2. ASSUME NEW f \in Filters, store_filter(f) PROVE PInv'
  <2>1. creating' \in Pools(Filters)
    BY <1>2, RemovePool DEF store_filter, PInv, PoolsTypeOK
  <2>2. CASE Cardinality(Stored(filter_pool)) < MAX_STORED_FILTERS
    <3>1. filter_pool' = Put(filter_pool, f, creating[f])
      BY <1>2, <2>2 DEF store_filter
    <3>2. creating[f] \in 0..MAX_AGE
      BY <1>2, PoolOf DEF store_filter, PInv, PoolsTypeOK
    <3>3. filter_pool' \in Pools(Filters) /\ Stored(filter_pool') = Stored(filter_pool) \cup {f}
      BY <3>1, <3>2, PutPool DEF PInv, PoolsTypeOK
    <3>4. /\ IsFiniteSet(Stored(filter_pool) \cup {f})
          /\ \/ Cardinality(Stored(filter_pool) \cup {f}) = Cardinality(Stored(filter_pool))
             \/ Cardinality(Stored(filter_pool) \cup {f}) = Cardinality(Stored(filter_pool)) + 1
      BY FS_AddElement DEF PInv
    <3>5. Cardinality(Stored(filter_pool)) \in Nat
      BY FS_CardinalityType DEF PInv
    <3>6. Cardinality(Stored(filter_pool')) =< MAX_STORED_FILTERS
      BY <2>2, <3>3, <3>4, <3>5, PoolConstants
    <3> QED
      BY <1>2, <2>1, <3>3, <3>4, <3>6 DEF store_filter, PInv, PoolsTypeOK
  <2>3. CASE ~(Cardinality(Stored(filter_pool)) < MAX_STORED_FILTERS)
    BY <1>2, <2>1, <2>3 DEF store_filter, PInv, PoolsTypeOK
  <2> QED
    BY <2>2, <2>3
<1>3. ASSUME NEW f \in Filters, uninstall_filter(f) PROVE PInv'
  <2>1. filter_pool' \in Pools(Filters) /\ Stored(filter_pool') = Stored(filter_pool) \ {f}
    BY <1>3, RemovePool DEF uninstall_filter, PInv, PoolsTypeOK
  <2>2. IsFiniteSet(Stored(filter_pool')) /\ Cardinality(Stored(filter_pool')) =< MAX_STORED_FILTERS
    BY <2>1, SmallerPool
  <2> QED
    BY <1>3, <2>1, <2>2 DEF uninstall_filter, PInv, PoolsTypeOK
<1>4. ASSUME NEW t \in Txs, submit(t) PROVE PInv'
  BY <1>4 DEF submit, PInv, PoolsTypeOK
<1>5. ASSUME NEW t \in Txs, insert(t) PROVE PInv'
  <2>1. pending' \in Pools(Txs)
    BY <1>0, <1>5, PutPool DEF insert, PInv, PoolsTypeOK
  <2> QED
    BY <1>5, <2>1 DEF insert, PInv, PoolsTypeOK
<1> QED
  BY <1>1, <1>2, <1>3, <1>4, <1>5 DEF Rpc

(* A block that is imported makes every entry older and keeps all of them.  *)
LEMMA ImportKeeps ==
    PInv /\ Import => /\ PInv'
                      /\ Stored(filter_pool') = Stored(filter_pool)
                      /\ Stored(pending') = Stored(pending)
<1> SUFFICES ASSUME PInv, Import
             PROVE  /\ PInv'
                    /\ Stored(filter_pool') = Stored(filter_pool)
                    /\ Stored(pending') = Stored(pending)
  OBVIOUS
<1>1. ASSUME NEW txs \in SUBSET Submitted, NEW best \in BOOLEAN, NEW notify \in BOOLEAN,
             import_highest(txs, best, notify)
      PROVE  /\ PInv'
             /\ Stored(filter_pool') = Stored(filter_pool)
             /\ Stored(pending') = Stored(pending)
  <2>1. txs \in SUBSET Txs
    BY DEF Submitted
  <2>2. /\ filter_pool' \in Pools(Filters) /\ Stored(filter_pool') = Stored(filter_pool)
        /\ creating' \in Pools(Filters)
        /\ pending' \in Pools(Txs) /\ Stored(pending') = Stored(pending)
    BY <1>1, OlderPool DEF import_highest, PInv, PoolsTypeOK
  <2>3. filter_box' \in Seq(Notifications) /\ pending_box' \in Seq(Notifications)
    <3>1. 0 \in 0..MAX_LAG
      BY PoolConstants
    <3>2. Sent(0, txs, notify) \in Seq(Notifications)
      BY <2>1, <3>1, SentBox
    <3> QED
      BY <1>1, <3>2, LaterBox DEF import_highest, PInv, PoolsTypeOK
  <2>4. behind' \in 0..MAX_LAG
    BY <1>1, PoolConstants DEF import_highest, PInv, PoolsTypeOK
  <2> QED
    BY <1>1, <2>2, <2>3, <2>4 DEF import_highest, PInv, PoolsTypeOK
<1>2. ASSUME NEW lag \in 0..(MAX_LAG - 1), NEW txs \in SUBSET Submitted, NEW best \in BOOLEAN,
             import_below(lag, txs, best)
      PROVE  /\ PInv'
             /\ Stored(filter_pool') = Stored(filter_pool)
             /\ Stored(pending') = Stored(pending)
  <2>1. txs \in SUBSET Txs /\ lag \in 0..MAX_LAG
    BY PoolConstants DEF Submitted
  <2> DEFINE sent == Sent(lag, txs, TRUE)
  <2>2. sent \in Seq(Notifications)
    BY <2>1, SentBox
  <2>3. filter_box' \in Seq(Notifications) /\ pending_box' \in Seq(Notifications)
    <3>1. filter_box \in Seq(Notifications) /\ pending_box \in Seq(Notifications)
      BY DEF PInv, PoolsTypeOK
    <3>2. filter_box' = filter_box \o sent /\ pending_box' = pending_box \o sent
      BY <1>2 DEF import_below
    <3> HIDE DEF sent
    <3> QED
      BY <2>2, <3>1, <3>2
  <2>4. behind' \in 0..MAX_LAG
    BY <1>2, <2>1 DEF import_below, PInv, PoolsTypeOK
  <2> QED
    BY <1>2, <2>3, <2>4 DEF import_below, PInv, PoolsTypeOK
<1> QED
  BY <1>1, <1>2 DEF Import

(* What a task takes from its box is a notification, and so is what it      *)
(* leaves there.                                                            *)
LEMMA FirstAndRest ==
    ASSUME NEW N, NEW box \in Seq(N), box # <<>>
    PROVE  Tail(box) \in Seq(N) /\ Head(box) \in N
OBVIOUS

(* What the filter task removes has been in the pool for its time: the      *)
(* block it acts on is never above the highest one that was imported.      *)
LEMMA FilterTaskKeeps ==
    PInv /\ filter_pool_task =>
       /\ PInv'
       /\ \A f \in Stored(filter_pool) \ Stored(filter_pool') : filter_pool[f] >= FILTER_RETAIN_THRESHOLD
       /\ pending' = pending
<1> SUFFICES ASSUME PInv, filter_pool_task
             PROVE  /\ PInv'
                    /\ \A f \in Stored(filter_pool) \ Stored(filter_pool') :
                          filter_pool[f] >= FILTER_RETAIN_THRESHOLD
                    /\ pending' = pending
  OBVIOUS
<1> DEFINE lag == Head(filter_box).lag
           over == {f \in Stored(filter_pool) :
                       lifespan_over(filter_pool[f], lag, FILTER_RETAIN_THRESHOLD)}
<1>1. filter_pool' = Remove(filter_pool, over)
  BY DEF filter_pool_task
<1>2. filter_box' \in Seq(Notifications) /\ Head(filter_box) \in Notifications
  <2>1. filter_box \in Seq(Notifications)
    BY DEF PInv, PoolsTypeOK
  <2>2. filter_box # <<>> /\ filter_box' = Tail(filter_box)
    BY DEF filter_pool_task
  <2> QED
    BY <2>1, <2>2, FirstAndRest
<1>3. lag \in Nat
  BY <1>2, PoolConstants DEF Notifications
<1> HIDE DEF lag
<1>4. filter_pool' \in Pools(Filters) /\ Stored(filter_pool') = Stored(filter_pool) \ over
  BY <1>1, RemovePool DEF PInv, PoolsTypeOK
<1>5. IsFiniteSet(Stored(filter_pool')) /\ Cardinality(Stored(filter_pool')) =< MAX_STORED_FILTERS
  BY <1>4, SmallerPool
<1>6. ASSUME NEW f \in Stored(filter_pool) \ Stored(filter_pool')
      PROVE  filter_pool[f] >= FILTER_RETAIN_THRESHOLD
  <2>1. filter_pool[f] >= FILTER_RETAIN_THRESHOLD + lag
    BY <1>4 DEF lifespan_over
  <2>2. filter_pool[f] \in Nat
    BY PoolOf, MaxAge DEF PInv, PoolsTypeOK
  <2> QED
    BY <1>3, <2>1, <2>2, PoolConstants
<1> QED
  BY <1>2, <1>4, <1>5, <1>6 DEF filter_pool_task, PInv, PoolsTypeOK

(* What the pending task removes is in the block or has been there for its  *)
(* time.                                                                    *)
LEMMA PendingTaskKeeps ==
    PInv /\ pending_transaction_task =>
       /\ PInv'
       /\ \A t \in Stored(pending) \ Stored(pending') :
             t \in Head(pending_box).txs \/ pending[t] >= TRANSACTION_RETAIN_THRESHOLD
       /\ filter_box' = filter_box
<1> SUFFICES ASSUME PInv, pending_transaction_task
             PROVE  /\ PInv'
                    /\ \A t \in Stored(pending) \ Stored(pending') :
                          t \in Head(pending_box).txs \/ pending[t] >= TRANSACTION_RETAIN_THRESHOLD
                    /\ filter_box' = filter_box
  OBVIOUS
<1> DEFINE lag == Head(pending_box).lag
           over == {t \in Stored(pending) :
                       \/ t \in Head(pending_box).txs
                       \/ lifespan_over(pending[t], lag, TRANSACTION_RETAIN_THRESHOLD)}
<1>1. pending' = Remove(pending, over)
  BY DEF pending_transaction_task
<1>2. pending_box' \in Seq(Notifications) /\ Head(pending_box) \in Notifications
  <2>1. pending_box \in Seq(Notifications)
    BY DEF PInv, PoolsTypeOK
  <2>2. pending_box # <<>> /\ pending_box' = Tail(pending_box)
    BY DEF pending_transaction_task
  <2> QED
    BY <2>1, <2>2, FirstAndRest
<1>3. lag \in Nat
  BY <1>2, PoolConstants DEF Notifications
<1> HIDE DEF lag
<1>4. pending' \in Pools(Txs) /\ Stored(pending') = Stored(pending) \ over
  BY <1>1, RemovePool DEF PInv, PoolsTypeOK
<1>5. ASSUME NEW t \in Stored(pending) \ Stored(pending'), t \notin Head(pending_box).txs
      PROVE  pending[t] >= TRANSACTION_RETAIN_THRESHOLD
  <2>1. pending[t] >= TRANSACTION_RETAIN_THRESHOLD + lag
    BY <1>4, <1>5 DEF lifespan_over
  <2>2. pending[t] \in Nat
    BY PoolOf, MaxAge DEF PInv, PoolsTypeOK
  <2> QED
    BY <1>3, <2>1, <2>2, PoolConstants
<1> QED
  BY <1>2, <1>4, <1>5 DEF pending_transaction_task, PInv, PoolsTypeOK

(* What every step does: the invariant is kept, the filter task's stream    *)
(* moves without an early expiry, and no pending transaction goes early.    *)
LEMMA PoolsStep ==
    ASSUME PInv, [PoolsNext]_poolsVars
    PROVE  /\ PInv'
           /\ filter_box' # filter_box =>
                 \A f \in Stored(filter_pool) \ Stored(filter_pool') :
                    filter_pool[f] >= FILTER_RETAIN_THRESHOLD
           /\ \A t \in Stored(pending) \ Stored(pending') :
                 t \in Head(pending_box).txs \/ pending[t] >= TRANSACTION_RETAIN_THRESHOLD
<1>1. CASE Rpc
  <2>1. filter_box' = filter_box
    BY <1>1 DEF Rpc, new_filter, store_filter, uninstall_filter, submit, insert
  <2>2. Stored(pending) \subseteq Stored(pending')
    <3>1. CASE \E t \in Txs : insert(t)
      BY <3>1 DEF insert, Put, Stored
    <3>2. CASE pending' = pending
      BY <3>2
    <3> QED
      BY <1>1, <3>1, <3>2 DEF Rpc, new_filter, store_filter, uninstall_filter, submit
  <2> QED
    BY <1>1, <2>1, <2>2, RpcKeeps
<1>2. CASE Import
  BY <1>2, ImportKeeps
<1>3. CASE filter_pool_task
  BY <1>3, FilterTaskKeeps
<1>4. CASE pending_transaction_task
  BY <1>4, PendingTaskKeeps
<1>5. CASE UNCHANGED poolsVars
  BY <1>5 DEF poolsVars, PInv, PoolsTypeOK
<1> QED
  BY <1>1, <1>2, <1>3, <1>4, <1>5 DEF PoolsNext

(* The pools hold what they should, and the filter pool no more filters     *)
(* than MAX_STORED_FILTERS, whatever the calls and the tasks do to it.      *)
THEOREM PoolsTyped == PoolsSpec => []PoolsTypeOK
<1>1. PInv => PoolsTypeOK
  BY DEF PInv
<1>2. PInv /\ [PoolsNext]_poolsVars => PInv'
  BY PoolsStep
<1> QED
  BY <1>1, <1>2, PoolsStart, PTL DEF PoolsSpec

(* No filter is expired before its 100 blocks are over.                     *)
THEOREM FiltersStay == PoolsSpec => FiltersStayTheirTime
<1>1. PInv /\ [PoolsNext]_poolsVars =>
         [filter_box' # filter_box =>
             \A f \in Stored(filter_pool) \ Stored(filter_pool') :
                filter_pool[f] >= FILTER_RETAIN_THRESHOLD]_poolsVars
  BY PoolsStep
<1>2. PInv /\ [PoolsNext]_poolsVars => PInv'
  BY PoolsStep
<1> QED
  BY <1>1, <1>2, PoolsStart, PTL DEF PoolsSpec, FiltersStayTheirTime

(* No pending transaction is dropped early but for a block with it.         *)
THEOREM PendingStay == PoolsSpec => PendingStayTheirTime
<1>1. PInv /\ [PoolsNext]_poolsVars =>
         [\A t \in Stored(pending) \ Stored(pending') :
             t \in Head(pending_box).txs \/ pending[t] >= TRANSACTION_RETAIN_THRESHOLD]_poolsVars
  BY PoolsStep
<1>2. PInv /\ [PoolsNext]_poolsVars => PInv'
  BY PoolsStep
<1> QED
  BY <1>1, <1>2, PoolsStart, PTL DEF PoolsSpec, PendingStayTheirTime

=============================================================================
