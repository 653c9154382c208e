------------------------------- MODULE Bridge -------------------------------
(***************************************************************************)
(* The claims pallet between the foreign networks and the relayer that     *)
(* serves it.  A user locks a value on a foreign network; the relayer,     *)
(* which holds the keys of the bridge accounts, sends mint_claim_elastic   *)
(* for it, again when it hears nothing; on an ElasticBurned event the      *)
(* foreign network releases the announced amount.  Relayer and foreign     *)
(* networks are external: extrinsics are lost, repeated and reordered, and *)
(* governance changes the bridge account, the limits and the fees while    *)
(* they are on their way.                                                  *)
(***************************************************************************)
EXTENDS Claims, Integers, FiniteSetsExt

CONSTANT RelayerKeys   \* accounts whose keys the relayer holds

ASSUME RelayerAssumption ==
    /\ RelayerKeys \subseteq Accounts
    /\ IsFiniteSet(Accounts) /\ IsFiniteSet(Networks) /\ IsFiniteSet(TxHashes)
    /\ None \notin [who : EthereumAddresses, value : Balance]

VARIABLES deposits,   \* [Networks -> [TxHashes -> [who, value] or None]]: locked abroad
          relays,     \* mint extrinsics on their way
          released    \* [Networks -> amount released abroad]

bridgeVars == <<vars, deposits, relays, released>>

Deposits == [who : EthereumAddresses, value : Values]
Relays == [signer : RelayerKeys, network : Networks, tx : TxHashes]

(* The deposits behind the claims of a legacy chain, which was minted      *)
(* without a fee; a new chain starts without deposits.                     *)
BridgeInit ==
    /\ Init
    /\ BridgeAccount \in RelayerKeys \cup {None}
    /\ deposits = [n \in Networks |-> [tx \in TxHashes |->
          IF n = BSC /\ Claims[tx] # None
          THEN [who |-> Claims[tx].address, value |-> Claims[tx].amount]
          ELSE None]]
    /\ relays = {}
    /\ released = [n \in Networks |-> 0]

Deposit(n, tx, d) ==
    /\ deposits[n][tx] = None
    /\ deposits' = [deposits EXCEPT ![n][tx] = d]
    /\ UNCHANGED <<vars, relays, released>>

\* The relayer sends, or sends again, the mint of a deposit.
Relay(r) ==
    /\ deposits[r.network][r.tx] # None
    /\ relays' = relays \cup {r}
    /\ UNCHANGED <<vars, deposits, released>>

Deliver(r) ==
    /\ r \in relays
    /\ LET d == deposits[r.network][r.tx]
       IN mint_claim_elastic(r.signer, r.network, r.tx, d.who, d.value)
    /\ relays' = relays \ {r}
    /\ UNCHANGED <<deposits, released>>

\* The extrinsic is lost, or fails in a block.
Lose(r) ==
    /\ r \in relays
    /\ relays' = relays \ {r}
    /\ UNCHANGED <<vars, deposits, released>>

\* A burn, and the release its ElasticBurned event causes abroad.
BurnAndRelease(who, n, amount) ==
    /\ burn_elastic(who, n, amount)
    /\ released' = [released EXCEPT ![n] = @ + burn_amount(n, amount)]
    /\ UNCHANGED <<deposits, relays>>

Governance ==
    /\ \/ RuntimeUpgrade
       \/ \E n \in Networks :
             \/ \E to \in RelayerKeys : set_bridge_account_elastic(n, to)
             \/ \E limit \in Limits : set_claim_limit_elastic(n, limit)
             \/ \E mint_fee, burn_fee \in Fees :
                   set_bridge_fee_elastic(n, mint_fee, burn_fee)
    /\ UNCHANGED <<deposits, relays, released>>

Withdraw(n, dest, tx, sig) ==
    /\ claim_elastic(n, dest, tx, sig)
    /\ UNCHANGED <<deposits, relays, released>>

BridgeNext ==
    \/ Governance
    \/ \E r \in Relays : Relay(r) \/ Deliver(r) \/ Lose(r)
    \/ \E n \in Networks :
          \/ \E tx \in TxHashes, d \in Deposits : Deposit(n, tx, d)
          \/ \E who \in Accounts, amount \in Values : BurnAndRelease(who, n, amount)
          \/ \E dest \in Accounts, tx \in TxHashes, sig \in Signatures :
                Withdraw(n, dest, tx, sig)

(* Fairness.  The relayer does not give up on a deposit that has not been  *)
(* minted, for any of its keys, and not every one of its extrinsics is     *)
(* lost: strong fairness, since a relay may disappear before it arrives.   *)
BridgeFairness ==
    \A r \in Relays :
       /\ WF_bridgeVars(Relay(r) /\ r \notin relays)
       /\ SF_bridgeVars(Deliver(r))

BridgeSpec == BridgeInit /\ [][BridgeNext]_bridgeVars
FairBridgeSpec == BridgeSpec /\ BridgeFairness

-----------------------------------------------------------------------------
Pairs == Networks \X TxHashes

Minted == {p \in Pairs : ledger[p[1]][p[2]] # None}

(* Every claim stands for a deposit abroad: same owner, and an amount of   *)
(* at most what was locked, the difference being the fee.                  *)
ClaimsHaveDeposits ==
    \A p \in Minted :
       LET d == deposits[p[1]][p[2]]
           claim == ledger[p[1]][p[2]]
       IN d # None /\ claim.address = d.who /\ claim.amount <= d.value

(* The value of the claims that are still open, and of the deposits abroad *)
(* that were minted, by transaction.                                       *)
Unclaimed ==
    [p \in Pairs |-> IF p \in Minted /\ ~ ledger[p[1]][p[2]].claimed
                     THEN ledger[p[1]][p[2]].amount ELSE 0]
Covered ==
    [p \in Pairs |-> IF p \in Minted THEN deposits[p[1]][p[2]].value ELSE 0]

(* What accounts hold, what is still to be claimed and what has been       *)
(* released abroad, less the deposits that were minted.                    *)
Surplus ==
    SumFunction(free) + SumFunction(Unclaimed) + SumFunction(released) - SumFunction(Covered)

(* All that is locked abroad fits the balance type, on top of the balances *)
(* of genesis.                                                             *)
Locked ==
    [p \in Pairs |-> IF deposits[p[1]][p[2]] # None THEN deposits[p[1]][p[2]].value ELSE 0]
DepositsFit == SumFunction(GenesisBalances) + SumFunction(Locked) <= MaxBalance

(* No step creates or destroys CLV: mints and claims with whatever fee,    *)
(* repeated and reordered relays, burns to another network than the one    *)
(* the value came from, and migrations.                                    *)
Conservation == [][Surplus' = Surplus]_bridgeVars

(* A deposit that stays mintable (limit set, fee below its value) under a  *)
(* bridge account that stays is eventually minted, whatever is lost,       *)
(* repeated or sent with a key that has been replaced.                     *)
Mintable(n, tx, key) ==
    /\ runtime = "elastic"
    /\ ElasticBridgeAccounts[n] = key
    /\ deposits[n][tx] # None
    /\ deposits[n][tx].value <= ElasticClaimLimits[n]
    /\ bridge_fees(n)[1] < deposits[n][tx].value

DepositsAreMinted ==
    \A n \in Networks, tx \in TxHashes, key \in RelayerKeys :
       <>[]Mintable(n, tx, key) => <>(ElasticClaims[n][tx] # None)

=============================================================================
