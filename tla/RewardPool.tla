----------------------------- MODULE RewardPool -----------------------------
(***************************************************************************)
(* The reward pool pallet (modules/reward-pool).  Every block grants a     *)
(* reward to a pool with shares.  A holder owns the part of total_rewards  *)
(* that its shares are of total_shares, less what it has borrowed: so that *)
(* new shares get no old rewards, adding shares adds a "virtual" reward at *)
(* the current price of a share to total_rewards and to the debt of the    *)
(* holder, and claiming a reward adds what was paid to the debt.           *)
(*                                                                         *)
(* A call that fails has no effect: add_share demands of its callers that  *)
(* they run inside a storage transaction.  The one effect that a failed    *)
(* call would leave outside a transaction as long as LateStepsCannotFail   *)
(* holds, a pool brought up to date, is that of claim_nothing.             *)
(***************************************************************************)
EXTENDS Currency, Integers, FiniteSetsExt

CONSTANTS Users,               \* holders of shares
          PoolIds,
          Shares,              \* amounts of shares the calls are made with
          ExistentialReward,
          DIV,                 \* accuracy of FixedU128 (10^18)
          MaxShare,            \* largest value of the Share type
          MaxBlock,            \* bound on the block number
          caculate_reward(_, _, _, _)   \* Handler: pool, total shares, from, to

sub_account_id(pool) == <<"sub", pool>>

ASSUME PoolAssumption ==
    /\ Accounts = Users \cup {sub_account_id(p) : p \in PoolIds}
    /\ IsFiniteSet(Accounts)
    /\ \A p \in PoolIds : sub_account_id(p) \notin Users
    /\ Shares \subseteq Nat
    /\ ExistentialReward \in Nat
    /\ DIV \in 1 .. MaxBalance
    /\ MaxShare \in Nat
    /\ MaxBlock \in Nat

ASSUME HandlerAssumption ==
    \A p \in PoolIds, s \in 0 .. MaxShare, from, to \in 0 .. MaxBlock :
       caculate_reward(p, s, from, to) \in Balance

VARIABLES Pools,             \* [PoolIds -> PoolInfo]
          PoolAccountData,   \* [PoolIds -> [Users -> PoolAccountInfo]]
          block,             \* number of the current block
          free               \* balances of the users and of the sub accounts

vars == <<Pools, PoolAccountData, block, free>>

PoolInfo == [total_shares : 0 .. MaxShare, total_rewards : Balance,
             total_rewards_useable : Balance, last_update_block : 0 .. MaxBlock]

PoolAccountInfo == [shares : 0 .. MaxShare, borrowed_amount : Balance]

(* Correct typing of the storage items of the pallet. *)
TypeOK == /\ Pools \in [PoolIds -> PoolInfo]
          /\ PoolAccountData \in [PoolIds -> [Users -> PoolAccountInfo]]
          /\ block \in 0 .. MaxBlock
          /\ free \in [Accounts -> Balance]

-----------------------------------------------------------------------------
(* FixedU128 (sp-arithmetic, external).  a * b / c is rounded down when    *)
(* the product fits the integer type and to the nearest value otherwise;   *)
(* results that do not fit are errors, which the callers test for.         *)

multiply_by_rational(a, b, c) ==
    LET q == (a * b) \div c
        r == (a * b) % c
    IN IF a * b > MaxBalance /\ r > c \div 2 THEN q + 1 ELSE q

checked_from_rational(n, d) == multiply_by_rational(n, DIV, d)
checked_mul_int(f, n) == multiply_by_rational(f, n, DIV)

fits(x) == x <= MaxBalance

-----------------------------------------------------------------------------
(* update_pool_reward: every call starts with it. *)

pool_reward(pool) ==
    IF block <= Pools[pool].last_update_block
    THEN 0
    ELSE caculate_reward(pool, Pools[pool].total_shares,
                         Pools[pool].last_update_block, block)

calc_pool_reward_succeeds(pool) ==
    /\ fits(Pools[pool].total_rewards + pool_reward(pool))
    /\ fits(Pools[pool].total_rewards_useable + pool_reward(pool))

\* Mutant: a pool that gets no reward is not brought up to date.
update_when_rewarded(pool) ==
    [total_shares |-> Pools[pool].total_shares,
     total_rewards |-> Pools[pool].total_rewards + pool_reward(pool),
     total_rewards_useable |-> Pools[pool].total_rewards_useable + pool_reward(pool),
     last_update_block |-> IF pool_reward(pool) = 0
                           THEN Pools[pool].last_update_block ELSE block]

calc_pool_reward(pool) ==
    [total_shares |-> Pools[pool].total_shares,
     total_rewards |-> Pools[pool].total_rewards + pool_reward(pool),
     total_rewards_useable |-> Pools[pool].total_rewards_useable + pool_reward(pool),
     last_update_block |-> IF block <= Pools[pool].last_update_block
                           THEN Pools[pool].last_update_block ELSE block]

\* The reward as an Amount, the signed type of the width of Balance: what the
\* half of its range does not hold becomes its largest value.
MaxAmount == MaxBalance \div 2
unique_saturated_into(reward) == IF reward > MaxAmount THEN MaxAmount ELSE reward

\* Every reward of the handler is an Amount, so that all of it is minted.
RewardsFit ==
    \A p \in PoolIds, s \in 0 .. MaxShare, from, to \in 0 .. MaxBlock :
       caculate_reward(p, s, from, to) <= MaxAmount

\* The balances once the reward has been minted to the sub account.
update_balance(pool) ==
    deposit_creating(free, sub_account_id(pool), unique_saturated_into(pool_reward(pool)))

-----------------------------------------------------------------------------
(* add_share *)

\* Mutant: new shares are given away at no price.
no_share_price(info) == 0

share_price(info) ==
    IF info.total_shares = 0
    THEN 0
    ELSE checked_from_rational(info.total_rewards, info.total_shares)

virtual_reward(info, amount) == checked_mul_int(share_price(info), amount)

\* The checks made before the pool is written ...
may_add_share(pool, amount) ==
    LET info == calc_pool_reward(pool)
    IN /\ amount > 0
       /\ calc_pool_reward_succeeds(pool)
       /\ fits(share_price(info))
       /\ fits(virtual_reward(info, amount))
       /\ info.total_shares + amount <= MaxShare
       /\ fits(info.total_rewards + virtual_reward(info, amount))

\* ... and those made after it.
may_add_to_account(who, pool, amount) ==
    LET data == PoolAccountData[pool][who]
    IN /\ data.shares + amount <= MaxShare
       /\ fits(data.borrowed_amount + virtual_reward(calc_pool_reward(pool), amount))

add_share(who, pool, amount) ==
    LET info == calc_pool_reward(pool)
        data == PoolAccountData[pool][who]
        virtual_reward_amount == virtual_reward(info, amount)
    IN /\ may_add_share(pool, amount)
       /\ may_add_to_account(who, pool, amount)
       /\ Pools' = [Pools EXCEPT ![pool] =
             [total_shares |-> info.total_shares + amount,
              total_rewards |-> info.total_rewards + virtual_reward_amount,
              total_rewards_useable |-> info.total_rewards_useable,
              last_update_block |-> info.last_update_block]]
       /\ PoolAccountData' = [PoolAccountData EXCEPT ![pool][who] =
             [shares |-> data.shares + amount,
              borrowed_amount |-> data.borrowed_amount + virtual_reward_amount]]
       /\ free' = update_balance(pool)
       /\ UNCHANGED block

-----------------------------------------------------------------------------
(* remove_share *)

calc_reward_by_shares(info, amount) ==
    IF info.total_shares = 0 \/ amount = 0
    THEN 0
    ELSE checked_mul_int(checked_from_rational(amount, info.total_shares),
                         info.total_rewards)

calc_reward_by_shares_succeeds(info, amount) ==
    /\ amount <= info.total_shares
    /\ calc_reward_by_shares(info, amount) <= info.total_rewards

account_balance_to_remove(data, amount) ==
    checked_mul_int(checked_from_rational(amount, data.shares), data.borrowed_amount)

\* The early checks of get_rewards_by_account_shares: the shares are there,
\* and the share of the rewards covers the share of the debt.
may_remove(info, data, amount) ==
    /\ amount > 0
    /\ amount <= info.total_shares
    /\ amount <= data.shares
    /\ calc_reward_by_shares_succeeds(info, amount)
    /\ account_balance_to_remove(data, amount) <= data.borrowed_amount
    /\ account_balance_to_remove(data, amount) <= calc_reward_by_shares(info, amount)

removal_reward(info, data, amount) ==
    calc_reward_by_shares(info, amount) - account_balance_to_remove(data, amount)

\* Mutant: the check that "should not happen" is left out.
rewards_unchecked(info, data, amount) == may_remove(info, data, amount)

get_rewards_by_account_shares_succeeds(info, data, amount) ==
    /\ may_remove(info, data, amount)
    /\ removal_reward(info, data, amount) <= info.total_rewards_useable

\* A reward that is too small is not sent, and stays in the pool.
reward_sent(info, data, amount) ==
    IF removal_reward(info, data, amount) <= ExistentialReward
    THEN 0
    ELSE removal_reward(info, data, amount)

\* Mutant: the shares stay in the pool.
shares_kept(info, data, amount) ==
    [info EXCEPT !.total_rewards_useable = @ - reward_sent(info, data, amount)]

\* Mutant: a reward that is sent is still counted as withdrawable.
useable_kept(info, data, amount) ==
    [info EXCEPT !.total_shares = @ - amount,
                 !.total_rewards = @ - calc_reward_by_shares(info, amount)]

\* Mutant: total_rewards shrinks even when the reward stays in the pool.
unsent_reward_dropped(info, data, amount) ==
    [info EXCEPT !.total_shares = @ - amount,
                 !.total_rewards = @ - calc_reward_by_shares(info, amount),
                 !.total_rewards_useable = @ - reward_sent(info, data, amount)]

pool_after_removal(info, data, amount) ==
    [total_shares |-> info.total_shares - amount,
     total_rewards |->
        IF removal_reward(info, data, amount) <= ExistentialReward
        THEN info.total_rewards
        ELSE info.total_rewards - calc_reward_by_shares(info, amount),
     total_rewards_useable |->
        info.total_rewards_useable - reward_sent(info, data, amount),
     last_update_block |-> info.last_update_block]

\* transfer from the sub account of the pool (orml_currencies, external):
\* what is left below the existential deposit is lost with the account.
can_transfer(b, from, to, value) ==
    value > 0 => /\ value <= b[from]
                 /\ fits(b[to] + value)
                 /\ b[to] + value >= ExistentialDeposit

transfer(b, from, to, value) ==
    [b EXCEPT ![from] = IF b[from] - value < ExistentialDeposit THEN 0 ELSE b[from] - value,
              ![to] = b[to] + value]

may_remove_share(who, pool, amount) ==
    /\ calc_pool_reward_succeeds(pool)
    /\ get_rewards_by_account_shares_succeeds(calc_pool_reward(pool),
                                              PoolAccountData[pool][who], amount)

remove_share(who, pool, amount) ==
    LET info == calc_pool_reward(pool)
        data == PoolAccountData[pool][who]
        reward == reward_sent(info, data, amount)
    IN /\ may_remove_share(who, pool, amount)
       /\ can_transfer(update_balance(pool), sub_account_id(pool), who, reward)
       /\ Pools' = [Pools EXCEPT ![pool] = pool_after_removal(info, data, amount)]
       /\ PoolAccountData' = [PoolAccountData EXCEPT ![pool][who] =
             [shares |-> data.shares - amount,
              borrowed_amount |->
                 data.borrowed_amount - account_balance_to_remove(data, amount)]]
       /\ free' = transfer(update_balance(pool), sub_account_id(pool), who, reward)
       /\ UNCHANGED block

-----------------------------------------------------------------------------
(* claim_rewards *)

claimable(info, data) == calc_reward_by_shares(info, data.shares) - data.borrowed_amount

\* Nothing to claim, or too little: only the pool is brought up to date.
claim_nothing(who, pool) ==
    LET info == calc_pool_reward(pool)
        data == PoolAccountData[pool][who]
    IN /\ calc_pool_reward_succeeds(pool)
       /\ data.shares > 0 =>
             /\ calc_reward_by_shares_succeeds(info, data.shares)
             /\ data.borrowed_amount <= calc_reward_by_shares(info, data.shares)
             /\ claimable(info, data) < ExistentialReward
       /\ Pools' = [Pools EXCEPT ![pool] = info]
       /\ free' = update_balance(pool)
       /\ UNCHANGED <<PoolAccountData, block>>

claim_rewards(who, pool) ==
    LET info == calc_pool_reward(pool)
        data == PoolAccountData[pool][who]
        actual_reward == claimable(info, data)
    IN /\ calc_pool_reward_succeeds(pool)
       /\ data.shares > 0
       /\ calc_reward_by_shares_succeeds(info, data.shares)
       /\ data.borrowed_amount <= calc_reward_by_shares(info, data.shares)
       /\ actual_reward >= ExistentialReward
       /\ actual_reward <= info.total_rewards_useable
       /\ can_transfer(update_balance(pool), sub_account_id(pool), who, actual_reward)
       /\ Pools' = [Pools EXCEPT ![pool] =
             [info EXCEPT !.total_rewards_useable = @ - actual_reward]]
       /\ PoolAccountData' = [PoolAccountData EXCEPT ![pool][who] =
             [shares |-> data.shares,
              borrowed_amount |-> calc_reward_by_shares(info, data.shares)]]
       /\ free' = transfer(update_balance(pool), sub_account_id(pool), who, actual_reward)
       /\ UNCHANGED block

-----------------------------------------------------------------------------

Init == /\ Pools = [p \in PoolIds |-> [total_shares |-> 0, total_rewards |-> 0,
                       total_rewards_useable |-> 0, last_update_block |-> 0]]
        /\ PoolAccountData =
              [p \in PoolIds |-> [u \in Users |-> [shares |-> 0, borrowed_amount |-> 0]]]
        /\ block = 0
        /\ free = [a \in Accounts |-> 0]

NextBlock == /\ block < MaxBlock
             /\ block' = block + 1
             /\ UNCHANGED <<Pools, PoolAccountData, free>>

Call(who, pool) == \/ \E amount \in Shares : \/ add_share(who, pool, amount)
                                             \/ remove_share(who, pool, amount)
                   \/ claim_nothing(who, pool)
                   \/ claim_rewards(who, pool)

Next == \/ NextBlock
        \/ \E who \in Users, pool \in PoolIds : Call(who, pool)

Spec == Init /\ [][Next]_vars

-----------------------------------------------------------------------------

total_borrowed(pool) ==
    SumFunction([u \in Users |-> PoolAccountData[pool][u].borrowed_amount])

(* The shares of a pool are those of its holders, whatever the order of the  *)
(* calls: total_shares in Pools and the shares in PoolAccountData are two    *)
(* storage items that add_share and remove_share write separately.           *)
SharesAddUp ==
    \A p \in PoolIds :
       Pools[p].total_shares = SumFunction([u \in Users |-> PoolAccountData[p][u].shares])

(* The balance of a pool's sub account is the total_rewards_useable of the   *)
(* pool: every reward that the pool counts as withdrawable has been minted   *)
(* and is still there.                                                       *)
PoolIsBacked ==
    \A p \in PoolIds : free[sub_account_id(p)] = Pools[p].total_rewards_useable

(* What the holders owe is in the virtual part of total_rewards: no sequence *)
(* of adds, removals and claims lets the debts exceed it.                    *)
DebtsAreVirtual ==
    \A p \in PoolIds :
       total_borrowed(p) + Pools[p].total_rewards_useable <= Pools[p].total_rewards

(* Once a call has written the pool, its later steps succeed: after the      *)
(* checks on the pool, add_share's checked additions to the account cannot   *)
(* overflow, and after those of get_rewards_by_account_shares the transfer   *)
(* out of the sub account cannot fail.  A caller that forgets the storage    *)
(* transaction add_share asks for leaves no half of a call behind.           *)
LateStepsCannotFail ==
    \A who \in Users, p \in PoolIds, amount \in Shares :
       /\ may_add_share(p, amount) => may_add_to_account(who, p, amount)
       /\ may_remove_share(who, p, amount) =>
             can_transfer(update_balance(p), sub_account_id(p), who,
                          reward_sent(calc_pool_reward(p), PoolAccountData[p][who], amount))

\* What rounding can cost a holder when a call turns info into after: some
\* units for the rewards, and one part in DIV of what each ratio is applied to.
rounding(info, after) ==
    3 + (info.total_rewards + after.total_rewards + after.total_shares) \div DIV

(* What one holder does costs the others no more than rounding: the reward   *)
(* that a holder has accumulated does not fall when someone else adds or     *)
(* removes shares or claims, which is what the virtual rewards are for.      *)
OthersKeepTheirRewards ==
    [][\A u \in Users, p \in PoolIds :
          PoolAccountData[p][u].shares > 0 /\ PoolAccountData'[p][u] = PoolAccountData[p][u] =>
             claimable(Pools[p], PoolAccountData[p][u]) <=
                claimable(Pools'[p], PoolAccountData[p][u])
                   + rounding(calc_pool_reward(p), Pools'[p])]_vars

\* The virtual rewards of a pool that no holder owes.
surplus(pool) ==
    Pools[pool].total_rewards - Pools[pool].total_rewards_useable - total_borrowed(pool)

\* A removal whose reward is too small to be sent.
keeps_reward(who, pool, amount) ==
    /\ remove_share(who, pool, amount)
    /\ reward_sent(calc_pool_reward(pool), PoolAccountData[pool][who], amount) = 0

(* The accounts of a pool are exact but for one thing: virtual rewards that  *)
(* no holder owes come into being only when a removal sends no reward, and   *)
(* then are the debt it forgives.  Such a removal leaves total_rewards as it *)
(* is and lowers the debt; grants, adds, claims and every other removal,     *)
(* however they round, change the virtual rewards and the debts alike.       *)
SurplusIsForgivenDebt ==
    [][\A p \in PoolIds :
          \/ surplus(p)' = surplus(p)
          \/ \E who \in Users, amount \in Shares :
                /\ keeps_reward(who, p, amount)
                /\ surplus(p)' = surplus(p)
                      + account_balance_to_remove(PoolAccountData[p][who], amount)]_vars

\* The holder of all shares of a pool, whose reward is more than the pool can
\* pay: removing all of them fails, and so does claim_rewards.
stranded(who, pool) ==
    LET info == calc_pool_reward(pool)
        data == PoolAccountData[pool][who]
    IN /\ data.shares > 0 /\ data.shares = info.total_shares
       /\ claimable(info, data) > info.total_rewards_useable

(* The only holder of a pool that is refused its reward, by the check that   *)
(* get_rewards_by_account_shares marks "should not happen", is refused it as *)
(* long as no one else has shares: no block, no grant, no claim and no       *)
(* removal of a part of the shares gets it out.                              *)
StrandedUntilJoined ==
    [][\A who \in Users, p \in PoolIds :
          stranded(who, p) => \/ stranded(who, p)'
                              \/ \E other \in Users \ {who} :
                                    PoolAccountData'[p][other].shares > 0]_vars

(* The check that get_rewards_by_account_shares marks "should not happen":   *)
(* the reward of a holder that removes all its shares is in the pool.        *)
RewardCheckNeverFires ==
    \A who \in Users, p \in PoolIds :
       LET info == calc_pool_reward(p)
           data == PoolAccountData[p][who]
       IN may_remove(info, data, data.shares) =>
             removal_reward(info, data, data.shares) <= info.total_rewards_useable

(* The documentation of PoolInfo: total_rewards_useable is the amount "which *)
(* can be withdrawn", so the sub account holds it.                           *)
UseableCanBeWithdrawn ==
    \A p \in PoolIds : Pools[p].total_rewards_useable <= free[sub_account_id(p)]

=============================================================================
