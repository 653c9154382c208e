---------------------------- MODULE EvmAccounts -----------------------------
(***************************************************************************)
(* The accounts that the EVM and the Substrate calls share                 *)
(* (modules/evm-accounts, MergeAccountEvm of the runtime and               *)
(* modules/evm-interop).  An EVM address acts through the account it is    *)
(* mapped to, or through an account padded from the address.  A native     *)
(* account claims an address with a signature of its key: the padded       *)
(* account is merged into the native one, which takes over the address.    *)
(* An account below the existential deposit is reaped, and the pallet      *)
(* hears of it (OnKilledAccount); the runtime has no existential deposit.  *)
(*                                                                         *)
(* Fees, locks and the reference counts of frame_system are left out: the  *)
(* KillAccount of the runtime (frame_system::Consumer) changes such a      *)
(* count only.                                                             *)
(***************************************************************************)
EXTENDS Naturals, FiniteSetsExt

CONSTANTS Natives,              \* accounts with a key of their own
          Addresses,            \* EVM addresses
          None,
          ExistentialDeposit,
          Amounts,              \* values of the transfers
          Endowment,            \* free balance of each native account at genesis
          MaxNonce              \* bound on the nonces

padded(address) == <<"evm:", address>>

PaddedAccounts == {padded(e) : e \in Addresses}
AccountIds == Natives \cup PaddedAccounts

ASSUME EvmAssumption ==
    /\ IsFiniteSet(Natives) /\ IsFiniteSet(Addresses)
    /\ Natives \cap PaddedAccounts = {}
    /\ None \notin AccountIds \cup Addresses
    /\ ExistentialDeposit \in Nat /\ MaxNonce \in Nat
    /\ Amounts \subseteq Nat
    /\ Endowment \in Nat /\ Endowment >= ExistentialDeposit

VARIABLES Accounts,       \* [Addresses -> account or None]
          EvmAddresses,   \* [AccountIds -> address or None]
          nonce,          \* frame_system: [AccountIds -> nonce]
          free, reserved  \* pallet_balances

mapVars == <<Accounts, EvmAddresses>>
evmVars == <<mapVars, nonce, free, reserved>>

(* Correct typing of the two maps and of the account data. *)
TypeOK == /\ Accounts \in [Addresses -> AccountIds \cup {None}]
          /\ EvmAddresses \in [AccountIds -> Addresses \cup {None}]
          /\ nonce \in [AccountIds -> Nat]
          /\ free \in [AccountIds -> Nat]
          /\ reserved \in [AccountIds -> Nat]

EvmInit == /\ Accounts = [e \in Addresses |-> None]
           /\ EvmAddresses = [a \in AccountIds |-> None]
           /\ nonce = [a \in AccountIds |-> 0]
           /\ free = [a \in AccountIds |-> IF a \in Natives THEN Endowment ELSE 0]
           /\ reserved = [a \in AccountIds |-> 0]

-----------------------------------------------------------------------------
(* EvmAddressMapping *)

into_account_id(e) == IF Accounts[e] # None THEN Accounts[e] ELSE padded(e)

to_evm_address(a) ==
    IF EvmAddresses[a] # None THEN EvmAddresses[a]
    ELSE IF a \in PaddedAccounts THEN CHOOSE e \in Addresses : padded(e) = a
    ELSE None

-----------------------------------------------------------------------------
(* Balances (external): the accounts that the new balances f and r leave   *)
(* below the existential deposit are reaped: they lose their nonce and     *)
(* what is left in them, free or reserved (the dust).                      *)

total(f, r, a) == f[a] + r[a]

reaped(f, r) ==
    {a \in AccountIds : /\ total(free, reserved, a) >= ExistentialDeposit
                        /\ total(f, r, a) < ExistentialDeposit}

moved(from, to, value) ==
    IF from = to THEN free
    ELSE [free EXCEPT ![from] = @ - value, ![to] = @ + value]

can_move(from, to, value) ==
    /\ value <= free[from]
    /\ value > 0 => total(free, reserved, to) + value >= ExistentialDeposit

\* Mutant: the entry of the address is left behind.
killed_address_kept(dead) ==
    /\ EvmAddresses' = [a \in AccountIds |-> IF a \in dead THEN None ELSE EvmAddresses[a]]
    /\ UNCHANGED Accounts

\* on_killed_account for each of the accounts.
on_killed_account(dead) ==
    /\ Accounts' = [e \in Addresses |-> IF \E a \in dead : EvmAddresses[a] = e
                                        THEN None ELSE Accounts[e]]
    /\ EvmAddresses' = [a \in AccountIds |-> IF a \in dead THEN None ELSE EvmAddresses[a]]

\* A transfer by an account that uses up its nonce.
pay(from, to, value) ==
    LET f == moved(from, to, value)
        dead == reaped(f, reserved)
    IN /\ nonce[from] < MaxNonce
       /\ can_move(from, to, value)
       /\ free' = [a \in AccountIds |-> IF a \in dead THEN 0 ELSE f[a]]
       /\ reserved' = [a \in AccountIds |-> IF a \in dead THEN 0 ELSE reserved[a]]
       /\ nonce' = [a \in AccountIds |-> IF a \in dead THEN 0
                                         ELSE IF a = from THEN nonce[a] + 1 ELSE nonce[a]]
       /\ on_killed_account(dead)

-----------------------------------------------------------------------------
(* claim_account.  A signature is the account that its signer signed.      *)

Signatures == [signer : Addresses, who : Natives]

eth_recover(sig, who) == IF sig.who = who THEN sig.signer ELSE None

\* Mutant: the address may be mapped already.
any_address(who, e) == EvmAddresses[who] = None

unmapped(who, e) == EvmAddresses[who] = None /\ Accounts[e] = None

\* Mutant: the reserved balance of the padded account is forgotten.
merged_free_only(source, who) ==
    [free EXCEPT ![source] = 0, ![who] = @ + free[source]]

\* merge_account: the free balances once everything has been unreserved and sent.
merge_account(source, who) ==
    [free EXCEPT ![source] = 0, ![who] = @ + total(free, reserved, source)]

\* Mutant: the nonce of the origin is left as it is.
origin_nonce_only(origin_nonce, evm_nonce) == origin_nonce

merged_nonce(origin_nonce, evm_nonce) ==
    IF origin_nonce < evm_nonce THEN evm_nonce ELSE origin_nonce

\* The nonce of the padded account is read after the merge, which reaps the
\* account unless there is no existential deposit.  An account that does not
\* exist has no balance and nonce 0, so that its merge changes nothing.
claim_account(who, e, sig) ==
    LET source == into_account_id(e)
        r == [reserved EXCEPT ![source] = 0]
        dead == reaped(merge_account(source, who), r)
        evm_nonce == IF source \in dead THEN 0 ELSE nonce[source]
    IN /\ unmapped(who, e)
       /\ eth_recover(sig, who) = e
       /\ nonce[who] < MaxNonce
       /\ free' = merge_account(source, who)
       /\ reserved' = r
       /\ nonce' = [nonce EXCEPT ![source] = evm_nonce,
                                 ![who] = merged_nonce(nonce[who] + 1, evm_nonce)]
       /\ Accounts' = [x \in Addresses |-> IF x = e THEN who
                                           ELSE IF EvmAddresses[who] = x THEN None
                                           ELSE Accounts[x]]
       /\ EvmAddresses' = [EvmAddresses EXCEPT ![who] = e]

-----------------------------------------------------------------------------
(* The other operations on the accounts. *)

\* modules/evm-interop
transfer_to_evm(from, e, amount) == pay(from, into_account_id(e), amount)

\* A transaction of the EVM that sends value (pallet_evm, external).
transact(e, to, value) == pay(into_account_id(e), into_account_id(to), value)

\* reserve (external): by a pallet that holds a deposit of the account.
Reserve(a, amount) ==
    /\ amount <= free[a]
    /\ free' = [free EXCEPT ![a] = @ - amount]
    /\ reserved' = [reserved EXCEPT ![a] = @ + amount]
    /\ UNCHANGED <<mapVars, nonce>>

EvmNext ==
    \/ \E who \in Natives, e \in Addresses, sig \in Signatures : claim_account(who, e, sig)
    \/ \E from \in Natives, e \in Addresses, v \in Amounts : transfer_to_evm(from, e, v)
    \/ \E e, to \in Addresses, v \in Amounts : transact(e, to, v)
    \/ \E a \in AccountIds, v \in Amounts : Reserve(a, v)

EvmSpec == EvmInit /\ [][EvmNext]_evmVars

-----------------------------------------------------------------------------

(* The two storage maps are inverse to each other, over claims and the       *)
(* reaping of mapped accounts: "a two way mapping between Substrate accounts *)
(* and EVM accounts".                                                        *)
MappingIsTwoWay ==
    \A e \in Addresses, a \in AccountIds : Accounts[e] = a <=> EvmAddresses[a] = e

(* An address resolves to an account that resolves back to it, so that no    *)
(* two addresses ever act through the same account.                          *)
AddressRoundTrip == \A e \in Addresses : to_evm_address(into_account_id(e)) = e

(* Claiming an address loses no funds: the account that the address resolves *)
(* to afterwards holds what it held and what the padded account held, the    *)
(* reserved part included, and nothing is created.                           *)
ClaimMovesAllFunds ==
    [][\A e \in Addresses, who \in Natives :
          Accounts[e] = None /\ Accounts'[e] = who =>
             /\ total(free, reserved, who)'
                   = total(free, reserved, padded(e)) + total(free, reserved, who)
             /\ total(free, reserved, padded(e))' = 0]_evmVars

(* Without an existential deposit the nonce that the EVM sees for an address *)
(* never goes back, also when a claim gives the address another account.     *)
EvmNonceNeverFalls ==
    [][\A e \in Addresses :
          nonce[into_account_id(e)] <= (nonce[into_account_id(e)])']_evmVars

=============================================================================
