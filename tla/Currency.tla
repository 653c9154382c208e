------------------------------ MODULE Currency ------------------------------
(***************************************************************************)
(* The balance pallet (pallet_balances, outside this repository) as the    *)
(* modules of this repository use it through the Currency trait.  free is  *)
(* the map from accounts to free balances.  An account whose balance is    *)
(* zero does not exist for the pallet, so a deposit below the existential  *)
(* deposit cannot create it; a deposit that would overflow the balance     *)
(* type is silently dropped.                                               *)
(***************************************************************************)
EXTENDS Naturals

CONSTANTS Accounts,             \* account ids
          ExistentialDeposit,   \* 0 in the runtime, 1 in the claims mock
          MaxBalance            \* largest value of the balance type

ASSUME CurrencyAssumption == /\ ExistentialDeposit \in Nat
                             /\ MaxBalance \in Nat

Balance == 0 .. MaxBalance

\* What deposit_creating(who, value) really adds: all of value or nothing.
credited(free, who, value) ==
    IF \/ free[who] = 0 /\ value < ExistentialDeposit
       \/ free[who] + value > MaxBalance
    THEN 0
    ELSE value

deposit_creating(free, who, value) ==
    [free EXCEPT ![who] = free[who] + credited(free, who, value)]

\* withdraw(who, value, _, KeepAlive) succeeds.
can_withdraw_keep_alive(free, who, value) ==
    \/ value = 0
    \/ /\ value <= free[who]
       /\ free[who] >= ExistentialDeposit => free[who] - value >= ExistentialDeposit

withdraw(free, who, value) == [free EXCEPT ![who] = free[who] - value]

=============================================================================
