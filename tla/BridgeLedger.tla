---------------------------- MODULE BridgeLedger ----------------------------
(***************************************************************************)
(* What the claims pallet promises to the users of the bridge, without its *)
(* storage layout, signatures, fee configuration, bridge accounts, storage *)
(* versions and migrations:                                                *)
(*   - a transaction of a foreign network enters the ledger at most once,  *)
(*     within what is left of the allowance of its network;                *)
(*   - an entry keeps its owner and its amount for ever, and is paid out   *)
(*     at most once, in full;                                              *)
(*   - holdings change by pay-outs, fees and burns only;                   *)
(*   - the allowance of a network falls by the amount of each entry, and   *)
(*     is otherwise changed by governance alone.                           *)
(***************************************************************************)
EXTENDS Naturals

CONSTANTS Networks, TxHashes, EthereumAddresses, Accounts, FeeAccount,
          MaxBalance, None

VARIABLES ledger,      \* [Networks -> [TxHashes -> entry or None]]
          allowance,   \* [Networks -> amount that may still be minted]
          holdings     \* [Accounts -> balance]

vars == <<ledger, allowance, holdings>>

Amount == 0 .. MaxBalance
Entry == [address : EthereumAddresses, amount : Amount, claimed : BOOLEAN]

\* A payment that does not fit the balance type is not made at all.
Pay(h, who, amount) ==
    [h EXCEPT ![who] = IF h[who] + amount <= MaxBalance
                       THEN h[who] + amount
                       ELSE h[who]]

Init == /\ ledger \in [Networks -> [TxHashes -> Entry \cup {None}]]
        /\ allowance \in [Networks -> Amount]
        /\ holdings \in [Accounts -> Amount]

SetAllowance == /\ \E n \in Networks, l \in Amount :
                      allowance' = [allowance EXCEPT ![n] = l]
                /\ UNCHANGED <<ledger, holdings>>

Mint(n, tx) ==
    \E who \in EthereumAddresses, amount \in Amount, fee \in Amount :
       /\ ledger[n][tx] = None
       /\ amount + fee <= allowance[n]
       /\ ledger' = [ledger EXCEPT ![n][tx] =
                        [address |-> who, amount |-> amount, claimed |-> FALSE]]
       /\ allowance' = [allowance EXCEPT ![n] = allowance[n] - amount]
       /\ holdings' = Pay(holdings, FeeAccount, fee)

Claim(n, tx) ==
    \E dest \in Accounts :
       /\ ledger[n][tx] # None
       /\ ~ ledger[n][tx].claimed
       /\ ledger' = [ledger EXCEPT ![n][tx].claimed = TRUE]
       /\ holdings' = Pay(holdings, dest, ledger[n][tx].amount)
       /\ UNCHANGED allowance

\* The burner loses amount, of which the fee account receives fee.
Burn(who) ==
    \E amount \in Amount, fee \in Amount :
       /\ fee <= amount
       /\ amount <= holdings[who]
       /\ holdings' = Pay([holdings EXCEPT ![who] = holdings[who] - amount],
                          FeeAccount, fee)
       /\ UNCHANGED <<ledger, allowance>>

Next == \/ SetAllowance
        \/ \E n \in Networks, tx \in TxHashes : Mint(n, tx) \/ Claim(n, tx)
        \/ \E who \in Accounts : Burn(who)

Spec == Init /\ [][Next]_vars

=============================================================================
