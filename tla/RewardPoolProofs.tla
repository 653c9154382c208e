-------------------------- MODULE RewardPoolProofs --------------------------
(***************************************************************************)
(* Proofs about the reward pool, for every number of users, pools and      *)
(* shares and every accuracy of the fixed point numbers: the typing of the *)
(* storage, which is where the underflows of the checked subtractions      *)
(* would show; that the sub accounts hold what the pools count as          *)
(* withdrawable, under the conditions of Backed; the two counters of a     *)
(* pool against the entries of its holders; what the holders can claim     *)
(* together against what the pool has; and that a call costs the other     *)
(* holders no more than rounding.                                          *)
(***************************************************************************)
EXTENDS RewardPool, SumTheorems

USE SMTT(30)

(* multiply_by_rational, the arithmetic of FixedU128, computes naturals      *)
(* from naturals: neither rounding gives a negative value.                   *)
LEMMA MultiplyType ==
    ASSUME NEW a \in Nat, NEW b \in Nat, NEW c \in Nat \ {0}
    PROVE  multiply_by_rational(a, b, c) \in Nat
<1>1. a * b \in Nat
  OBVIOUS
<1>2. \A x \in Nat : x \div c \in Nat
  OBVIOUS
<1> QED
  BY <1>1, <1>2 DEF multiply_by_rational

(* update_pool_reward keeps the types: a successful calc_pool_reward does    *)
(* not overflow, and the minted reward fits the sub account.                 *)
LEMMA UpdateType ==
    ASSUME TypeOK, NEW pool \in PoolIds, calc_pool_reward_succeeds(pool)
    PROVE  /\ pool_reward(pool) \in Nat
           /\ calc_pool_reward(pool) \in PoolInfo
           /\ update_balance(pool) \in [Accounts -> Balance]
<1>1. Pools[pool] \in PoolInfo /\ block \in 0 .. MaxBlock
  BY DEF TypeOK
<1>2. pool_reward(pool) \in Nat
  BY <1>1, HandlerAssumption, CurrencyAssumption DEF pool_reward, PoolInfo, Balance
<1>3. calc_pool_reward(pool) \in PoolInfo
  BY <1>1, <1>2, CurrencyAssumption
  DEF calc_pool_reward_succeeds, calc_pool_reward, fits, PoolInfo, Balance
<1>4. unique_saturated_into(pool_reward(pool)) \in Nat
  <2>1. MaxAmount \in Nat
    BY CurrencyAssumption DEF MaxAmount
  <2> QED
    BY <1>2, <2>1 DEF unique_saturated_into
<1>5. update_balance(pool) \in [Accounts -> Balance]
  BY <1>4, CurrencyAssumption, PoolAssumption
  DEF TypeOK, update_balance, deposit_creating, credited, Balance
<1> QED
  BY <1>2, <1>3, <1>5

(* calc_reward_by_shares and share_price compute naturals.                   *)
LEMMA RewardType ==
    ASSUME NEW info \in PoolInfo, NEW amount \in Nat
    PROVE  /\ calc_reward_by_shares(info, amount) \in Nat
           /\ virtual_reward(info, amount) \in Nat
<1>1. /\ info.total_shares \in Nat
      /\ info.total_rewards \in Nat
      /\ DIV \in Nat \ {0}
  BY PoolAssumption, CurrencyAssumption DEF PoolInfo, Balance
<1>2. ASSUME info.total_shares # 0
      PROVE  /\ checked_from_rational(amount, info.total_shares) \in Nat
             /\ checked_from_rational(info.total_rewards, info.total_shares) \in Nat
  BY <1>1, <1>2, MultiplyType, Zenon DEF checked_from_rational
<1>3. calc_reward_by_shares(info, amount) \in Nat
  BY <1>1, <1>2, MultiplyType, Zenon DEF calc_reward_by_shares, checked_mul_int
<1>4. share_price(info) \in Nat
  BY <1>2 DEF share_price
<1> QED
  BY <1>1, <1>3, <1>4, MultiplyType DEF virtual_reward, checked_mul_int

(* The debt that goes with removed shares is a natural.                      *)
LEMMA DebtType ==
    ASSUME NEW data \in PoolAccountInfo, NEW amount \in Nat, data.shares # 0
    PROVE  account_balance_to_remove(data, amount) \in Nat
<1>1. /\ data.shares \in Nat
      /\ data.borrowed_amount \in Nat
      /\ DIV \in Nat \ {0}
  BY PoolAssumption, CurrencyAssumption DEF PoolAccountInfo, Balance
<1>2. checked_from_rational(amount, data.shares) \in Nat
  BY <1>1, MultiplyType, Zenon DEF checked_from_rational
<1> QED
  BY <1>1, <1>2, MultiplyType DEF account_balance_to_remove, checked_mul_int

(* A transfer that can be made keeps balances in the balance type.           *)
LEMMA TransferType ==
    ASSUME NEW b \in [Accounts -> Balance], NEW from \in Accounts, NEW to \in Accounts,
           NEW value \in Nat, from # to, can_transfer(b, from, to, value)
    PROVE  transfer(b, from, to, value) \in [Accounts -> Balance]
<1>1. b[from] \in 0 .. MaxBalance /\ b[to] \in 0 .. MaxBalance /\ MaxBalance \in Nat
  BY CurrencyAssumption DEF Balance
<1>2. b[from] - value \in 0 .. MaxBalance /\ b[to] + value \in 0 .. MaxBalance
  BY <1>1 DEF can_transfer, fits
<1>3. 0 \in 0 .. MaxBalance
  BY <1>1
<1> QED
  BY <1>2, <1>3 DEF transfer, Balance

(* add_share keeps the types.                                                *)
LEMMA AddShareType ==
    ASSUME TypeOK, NEW who \in Users, NEW pool \in PoolIds, NEW amount \in Shares,
           add_share(who, pool, amount)
    PROVE  TypeOK'
<1> DEFINE info == calc_pool_reward(pool)
           data == PoolAccountData[pool][who]
           virtual == virtual_reward(info, amount)
<1>1. calc_pool_reward_succeeds(pool)
  BY DEF add_share, may_add_share
<1>2. /\ info \in PoolInfo
      /\ update_balance(pool) \in [Accounts -> Balance]
      /\ data \in PoolAccountInfo
      /\ amount \in Nat
  BY <1>1, UpdateType, PoolAssumption, Zenon DEF TypeOK
<1>3. virtual \in Nat
  BY <1>2, RewardType
<1>4. /\ info.total_shares + amount \in 0 .. MaxShare
      /\ info.total_rewards + virtual \in Balance
      /\ data.shares + amount \in 0 .. MaxShare
      /\ data.borrowed_amount + virtual \in Balance
  BY <1>2, <1>3, PoolAssumption, CurrencyAssumption
  DEF add_share, may_add_share, may_add_to_account, fits, PoolInfo, PoolAccountInfo, Balance
<1>5. [total_shares |-> info.total_shares + amount,
       total_rewards |-> info.total_rewards + virtual,
       total_rewards_useable |-> info.total_rewards_useable,
       last_update_block |-> info.last_update_block] \in PoolInfo
  BY <1>2, <1>4 DEF PoolInfo
<1>6. [shares |-> data.shares + amount,
       borrowed_amount |-> data.borrowed_amount + virtual] \in PoolAccountInfo
  BY <1>4 DEF PoolAccountInfo
<1>7. Pools' \in [PoolIds -> PoolInfo]
  BY <1>5 DEF add_share, TypeOK
<1>8. PoolAccountData' \in [PoolIds -> [Users -> PoolAccountInfo]]
  BY <1>6 DEF add_share, TypeOK
<1> QED
  BY <1>2, <1>7, <1>8 DEF add_share, TypeOK

(* What a removal that passes its checks computes: the reward that is sent   *)
(* is in the pool, and no subtraction is below zero.                         *)
LEMMA RemovalType ==
    ASSUME NEW info \in PoolInfo, NEW data \in PoolAccountInfo, NEW amount \in Nat,
           get_rewards_by_account_shares_succeeds(info, data, amount)
    PROVE  /\ reward_sent(info, data, amount) \in 0 .. info.total_rewards_useable
           /\ pool_after_removal(info, data, amount) \in PoolInfo
           /\ [shares |-> data.shares - amount,
               borrowed_amount |->
                  data.borrowed_amount - account_balance_to_remove(data, amount)]
              \in PoolAccountInfo
<1> DEFINE rwv == calc_reward_by_shares(info, amount)
           debt == account_balance_to_remove(data, amount)
<1>1. /\ info.total_shares \in 0 .. MaxShare
      /\ info.total_rewards \in 0 .. MaxBalance
      /\ info.total_rewards_useable \in 0 .. MaxBalance
      /\ info.last_update_block \in 0 .. MaxBlock
      /\ data.shares \in 0 .. MaxShare
      /\ data.borrowed_amount \in 0 .. MaxBalance
      /\ MaxShare \in Nat /\ MaxBalance \in Nat /\ ExistentialReward \in Nat
  BY PoolAssumption, CurrencyAssumption DEF PoolInfo, PoolAccountInfo, Balance
<1>2. /\ amount > 0 /\ amount <= info.total_shares /\ amount <= data.shares
      /\ rwv <= info.total_rewards
      /\ debt <= data.borrowed_amount /\ debt <= rwv
      /\ rwv - debt <= info.total_rewards_useable
  BY DEF get_rewards_by_account_shares_succeeds, may_remove, removal_reward,
         calc_reward_by_shares_succeeds
<1>3. rwv \in Nat /\ debt \in Nat
  <2>1. data.shares # 0
    BY <1>1, <1>2
  <2> QED
    BY <2>1, RewardType, DebtType
<1>4. reward_sent(info, data, amount) \in 0 .. info.total_rewards_useable
  BY <1>1, <1>2, <1>3 DEF reward_sent, removal_reward
<1>5. /\ info.total_shares - amount \in 0 .. MaxShare
      /\ info.total_rewards - rwv \in 0 .. MaxBalance
      /\ info.total_rewards_useable - reward_sent(info, data, amount) \in 0 .. MaxBalance
      /\ data.shares - amount \in 0 .. MaxShare
      /\ data.borrowed_amount - debt \in 0 .. MaxBalance
  BY <1>1, <1>2, <1>3, <1>4
<1>6. pool_after_removal(info, data, amount) \in PoolInfo
  BY <1>1, <1>5 DEF pool_after_removal, PoolInfo, Balance
<1>7. [shares |-> data.shares - amount, borrowed_amount |-> data.borrowed_amount - debt]
         \in PoolAccountInfo
  BY <1>5 DEF PoolAccountInfo, Balance
<1> QED
  BY <1>4, <1>6, <1>7

(* remove_share keeps the types.                                             *)
LEMMA RemoveShareType ==
    ASSUME TypeOK, NEW who \in Users, NEW pool \in PoolIds, NEW amount \in Shares,
           remove_share(who, pool, amount)
    PROVE  TypeOK'
<1> DEFINE info == calc_pool_reward(pool)
           data == PoolAccountData[pool][who]
           reward == reward_sent(info, data, amount)
<1>1. /\ calc_pool_reward_succeeds(pool)
      /\ get_rewards_by_account_shares_succeeds(info, data, amount)
      /\ can_transfer(update_balance(pool), sub_account_id(pool), who, reward)
  BY DEF remove_share, may_remove_share
<1>2. /\ info \in PoolInfo
      /\ update_balance(pool) \in [Accounts -> Balance]
      /\ data \in PoolAccountInfo
      /\ amount \in Nat
      /\ sub_account_id(pool) \in Accounts /\ who \in Accounts /\ sub_account_id(pool) # who
  BY <1>1, UpdateType, PoolAssumption, Zenon DEF TypeOK
<1>3. /\ reward \in Nat
      /\ pool_after_removal(info, data, amount) \in PoolInfo
      /\ [shares |-> data.shares - amount,
          borrowed_amount |-> data.borrowed_amount - account_balance_to_remove(data, amount)]
         \in PoolAccountInfo
  BY <1>1, <1>2, RemovalType
<1>4. transfer(update_balance(pool), sub_account_id(pool), who, reward)
         \in [Accounts -> Balance]
  BY <1>1, <1>2, <1>3, TransferType
<1>5. Pools' \in [PoolIds -> PoolInfo]
  BY <1>3 DEF remove_share, TypeOK
<1>6. PoolAccountData' \in [PoolIds -> [Users -> PoolAccountInfo]]
  BY <1>3 DEF remove_share, TypeOK
<1> QED
  BY <1>4, <1>5, <1>6 DEF remove_share, TypeOK

(* claim_rewards keeps the types: the new debt of the holder is a part of    *)
(* total_rewards.                                                            *)
LEMMA ClaimType ==
    ASSUME TypeOK, NEW who \in Users, NEW pool \in PoolIds, claim_rewards(who, pool)
    PROVE  TypeOK'
<1> DEFINE info == calc_pool_reward(pool)
           data == PoolAccountData[pool][who]
           rwv == calc_reward_by_shares(info, data.shares)
           actual == claimable(info, data)
<1>1. /\ calc_pool_reward_succeeds(pool)
      /\ rwv <= info.total_rewards
      /\ data.borrowed_amount <= rwv
      /\ actual <= info.total_rewards_useable
      /\ can_transfer(update_balance(pool), sub_account_id(pool), who, actual)
  BY DEF claim_rewards, calc_reward_by_shares_succeeds
<1>2. /\ info \in PoolInfo
      /\ update_balance(pool) \in [Accounts -> Balance]
      /\ data \in PoolAccountInfo
      /\ sub_account_id(pool) \in Accounts /\ who \in Accounts /\ sub_account_id(pool) # who
  BY <1>1, UpdateType, PoolAssumption, Zenon DEF TypeOK
<1>3. /\ data.shares \in Nat /\ data.borrowed_amount \in Nat
      /\ info.total_rewards \in 0 .. MaxBalance
      /\ info.total_rewards_useable \in 0 .. MaxBalance
      /\ MaxBalance \in Nat
  BY <1>2, PoolAssumption, CurrencyAssumption DEF PoolInfo, PoolAccountInfo, Balance
<1>4. rwv \in Nat
  BY <1>2, <1>3, RewardType
<1>5. /\ actual \in Nat
      /\ rwv \in Balance
      /\ info.total_rewards_useable - actual \in Balance
  BY <1>1, <1>3, <1>4 DEF claimable, Balance
<1>6. [info EXCEPT !.total_rewards_useable = @ - actual] \in PoolInfo
  BY <1>2, <1>5 DEF PoolInfo
<1>7. [shares |-> data.shares, borrowed_amount |-> rwv] \in PoolAccountInfo
  BY <1>2, <1>5 DEF PoolAccountInfo
<1>8. transfer(update_balance(pool), sub_account_id(pool), who, actual)
         \in [Accounts -> Balance]
  BY <1>1, <1>2, <1>5, TransferType
<1>9. Pools' \in [PoolIds -> PoolInfo]
  BY <1>6 DEF claim_rewards, TypeOK
<1>10. PoolAccountData' \in [PoolIds -> [Users -> PoolAccountInfo]]
  BY <1>7 DEF claim_rewards, TypeOK
<1> QED
  BY <1>8, <1>9, <1>10 DEF claim_rewards, TypeOK

(* Every step of the reward pool keeps the types.                            *)
LEMMA NextType ==
    ASSUME TypeOK, [Next]_vars
    PROVE  TypeOK'
<1>1. CASE NextBlock
  BY <1>1, PoolAssumption DEF NextBlock, TypeOK
<1>2. ASSUME NEW who \in Users, NEW pool \in PoolIds, Call(who, pool)
      PROVE  TypeOK'
  <2>1. CASE \E amount \in Shares : add_share(who, pool, amount)
    BY <2>1, AddShareType
  <2>2. CASE \E amount \in Shares : remove_share(who, pool, amount)
    BY <2>2, RemoveShareType
  <2>3. CASE claim_nothing(who, pool)
    BY <2>3, UpdateType DEF claim_nothing, TypeOK
  <2>4. CASE claim_rewards(who, pool)
    BY <2>4, ClaimType
  <2> QED
    BY <1>2, <2>1, <2>2, <2>3, <2>4 DEF Call
<1>3. CASE UNCHANGED vars
  BY <1>3 DEF vars, TypeOK
<1> QED
  BY <1>1, <1>2, <1>3 DEF Next

(* The initial storage is typed, and the pools are empty.                    *)
LEMMA InitType == Init => TypeOK /\ PoolIsBacked
  BY PoolAssumption, CurrencyAssumption
  DEF Init, TypeOK, PoolInfo, PoolAccountInfo, Balance, PoolIsBacked

(* In every reachable state the storage is typed: no checked subtraction of  *)
(* add_share, remove_share or claim_rewards that succeeds leaves a share, a  *)
(* debt or a reward below zero or beyond its type.                           *)
THEOREM TypeCorrect == Spec => []TypeOK
<1>1. Init => TypeOK
  BY InitType
<1>2. TypeOK /\ [Next]_vars => TypeOK'
  BY NextType
<1> QED
  BY <1>1, <1>2, PTL DEF Spec

-----------------------------------------------------------------------------
(* The pools are backed when there is no existential deposit, as in the      *)
(* runtime, and no reward is too large for the signed type that mints it.    *)
(* PoolIsBacked is inductive relative to TypeOK.                             *)

(* The whole reward that calc_pool_reward adds reaches the sub account:      *)
(* it is an Amount, and deposit_creating drops it neither for the            *)
(* existential deposit nor for an overflow, which the pool would have met    *)
(* first.                                                                    *)
LEMMA UpdateBacked ==
    ASSUME TypeOK, PoolIsBacked, ExistentialDeposit = 0, RewardsFit,
           NEW pool \in PoolIds, calc_pool_reward_succeeds(pool)
    PROVE  /\ update_balance(pool)[sub_account_id(pool)]
                 = calc_pool_reward(pool).total_rewards_useable
           /\ \A q \in PoolIds \ {pool} :
                 update_balance(pool)[sub_account_id(q)] = Pools[q].total_rewards_useable
<1> DEFINE sub == sub_account_id(pool)
           reward == pool_reward(pool)
<1>1. /\ reward \in Nat
      /\ free[sub] = Pools[pool].total_rewards_useable
      /\ free[sub] \in Nat
      /\ free[sub] + reward <= MaxBalance
      /\ free \in [Accounts -> Balance]
  <2>1. free[sub] = Pools[pool].total_rewards_useable
    BY DEF PoolIsBacked
  <2>2. sub \in Accounts
    BY PoolAssumption
  <2> QED
    BY <2>1, <2>2, UpdateType, CurrencyAssumption
    DEF calc_pool_reward_succeeds, fits, TypeOK, Balance
<1>2. unique_saturated_into(reward) = reward
  <2>1. MaxAmount \in Nat
    BY CurrencyAssumption DEF MaxAmount
  <2>2. reward <= MaxAmount
    BY <2>1 DEF RewardsFit, pool_reward, TypeOK, PoolInfo
  <2> QED
    BY <1>1, <2>1, <2>2 DEF unique_saturated_into
<1>3. update_balance(pool) = [free EXCEPT ![sub] = free[sub] + reward]
  <2>1. credited(free, sub, reward) = reward
    BY <1>1, CurrencyAssumption DEF credited
  <2> QED
    BY <1>2, <2>1, Zenon DEF update_balance, deposit_creating
<1>4. update_balance(pool)[sub] = calc_pool_reward(pool).total_rewards_useable
  BY <1>1, <1>3, PoolAssumption DEF calc_pool_reward
<1>5. ASSUME NEW q \in PoolIds \ {pool}
      PROVE  update_balance(pool)[sub_account_id(q)] = Pools[q].total_rewards_useable
  <2>1. sub_account_id(q) # sub /\ sub_account_id(q) \in Accounts
    BY PoolAssumption DEF sub_account_id
  <2> QED
    BY <1>1, <1>3, <2>1 DEF PoolIsBacked
<1> QED
  BY <1>4, <1>5

(* A reward paid out of a backed pool leaves it backed.                      *)
LEMMA PaymentBacked ==
    ASSUME NEW b \in [Accounts -> Balance], ExistentialDeposit = 0,
           NEW pool \in PoolIds, NEW who \in Users, NEW value \in Nat,
           can_transfer(b, sub_account_id(pool), who, value)
    PROVE  LET t == transfer(b, sub_account_id(pool), who, value)
           IN /\ t[sub_account_id(pool)] = b[sub_account_id(pool)] - value
              /\ \A q \in PoolIds \ {pool} : t[sub_account_id(q)] = b[sub_account_id(q)]
<1> DEFINE sub == sub_account_id(pool)
           t == transfer(b, sub, who, value)
<1>1. /\ sub \in Accounts /\ who \in Accounts /\ sub # who
      /\ \A q \in PoolIds \ {pool} : /\ sub_account_id(q) \in Accounts
                                     /\ sub_account_id(q) # sub
                                     /\ sub_account_id(q) # who
  BY PoolAssumption DEF sub_account_id
<1>2. b[sub] - value \in Nat
  BY <1>1, CurrencyAssumption DEF can_transfer, Balance
<1>3. ~(b[sub] - value < ExistentialDeposit)
  BY <1>2
<1>4. t = [b EXCEPT ![sub] = b[sub] - value, ![who] = b[who] + value]
  BY <1>3 DEF transfer
<1> QED
  BY <1>1, <1>4

(* Every step keeps the pools backed.                                        *)
LEMMA NextBacked ==
    ASSUME TypeOK, PoolIsBacked, ExistentialDeposit = 0, RewardsFit, [Next]_vars
    PROVE  PoolIsBacked'
<1>1. CASE NextBlock
  BY <1>1 DEF NextBlock, PoolIsBacked
<1>2. ASSUME NEW who \in Users, NEW pool \in PoolIds, Call(who, pool)
      PROVE  PoolIsBacked'
  <2> DEFINE info == calc_pool_reward(pool)
             data == PoolAccountData[pool][who]
             sub == sub_account_id(pool)
  <2>1. ASSUME calc_pool_reward_succeeds(pool),
               Pools' = [Pools EXCEPT ![pool] = Pools'[pool]],
               free'[sub] = Pools'[pool].total_rewards_useable,
               \A q \in PoolIds \ {pool} :
                  free'[sub_account_id(q)] = update_balance(pool)[sub_account_id(q)]
        PROVE  PoolIsBacked'
    <3>1. ASSUME NEW q \in PoolIds \ {pool}
          PROVE  free'[sub_account_id(q)] = Pools'[q].total_rewards_useable
      <4>1. Pools'[q] = Pools[q]
        BY <2>1 DEF TypeOK
      <4> QED
        BY <2>1, <4>1, UpdateBacked
    <3> QED
      BY <2>1, <3>1 DEF PoolIsBacked
  <2>2. ASSUME NEW amount \in Shares, add_share(who, pool, amount)
        PROVE  PoolIsBacked'
    <3>1. calc_pool_reward_succeeds(pool) /\ free' = update_balance(pool)
      BY <2>2 DEF add_share, may_add_share
    <3>2. /\ Pools' = [Pools EXCEPT ![pool] = Pools'[pool]]
          /\ Pools'[pool].total_rewards_useable = info.total_rewards_useable
      BY <2>2 DEF add_share, TypeOK
    <3> QED
      BY <2>1, <3>1, <3>2, UpdateBacked
  <2>3. ASSUME NEW amount \in Shares, remove_share(who, pool, amount)
        PROVE  PoolIsBacked'
    <3> DEFINE reward == reward_sent(info, data, amount)
    <3>1. /\ calc_pool_reward_succeeds(pool)
          /\ get_rewards_by_account_shares_succeeds(info, data, amount)
          /\ can_transfer(update_balance(pool), sub, who, reward)
          /\ free' = transfer(update_balance(pool), sub, who, reward)
      BY <2>3 DEF remove_share, may_remove_share
    <3>2. /\ info \in PoolInfo /\ data \in PoolAccountInfo /\ amount \in Nat
          /\ update_balance(pool) \in [Accounts -> Balance]
      BY <3>1, UpdateType, PoolAssumption, Zenon DEF TypeOK
    <3>3. reward \in Nat
      <4>1. reward \in 0 .. info.total_rewards_useable
        BY <3>1, <3>2, RemovalType, Zenon
      <4>2. info.total_rewards_useable \in Nat
        BY <3>2, CurrencyAssumption DEF PoolInfo, Balance
      <4> QED
        BY <4>1, <4>2
    <3>4. /\ Pools' = [Pools EXCEPT ![pool] = Pools'[pool]]
          /\ Pools'[pool].total_rewards_useable = info.total_rewards_useable - reward
      BY <2>3 DEF remove_share, TypeOK, pool_after_removal
    <3>5. /\ free'[sub] = update_balance(pool)[sub] - reward
          /\ \A q \in PoolIds \ {pool} :
                free'[sub_account_id(q)] = update_balance(pool)[sub_account_id(q)]
      BY <3>1, <3>2, <3>3, PaymentBacked
    <3> QED
      BY <2>1, <3>1, <3>4, <3>5, UpdateBacked
  <2>4. CASE claim_nothing(who, pool)
    <3>1. calc_pool_reward_succeeds(pool) /\ free' = update_balance(pool)
      BY <2>4 DEF claim_nothing
    <3>2. Pools' = [Pools EXCEPT ![pool] = Pools'[pool]] /\ Pools'[pool] = info
      BY <2>4 DEF claim_nothing, TypeOK
    <3> QED
      BY <2>1, <3>1, <3>2, UpdateBacked
  <2>5. CASE claim_rewards(who, pool)
    <3> DEFINE actual == claimable(info, data)
    <3>1. /\ calc_pool_reward_succeeds(pool)
          /\ data.borrowed_amount <= calc_reward_by_shares(info, data.shares)
          /\ can_transfer(update_balance(pool), sub, who, actual)
          /\ free' = transfer(update_balance(pool), sub, who, actual)
      BY <2>5 DEF claim_rewards
    <3>2. /\ info \in PoolInfo /\ data \in PoolAccountInfo
          /\ update_balance(pool) \in [Accounts -> Balance]
      BY <3>1, UpdateType DEF TypeOK
    <3>3. actual \in Nat
      <4>1. data.shares \in Nat /\ data.borrowed_amount \in Nat
        BY <3>2, PoolAssumption, CurrencyAssumption DEF PoolAccountInfo, Balance
      <4>2. calc_reward_by_shares(info, data.shares) \in Nat
        BY <3>2, <4>1, RewardType
      <4> QED
        BY <3>1, <4>1, <4>2 DEF claimable
    <3>4. /\ Pools' = [Pools EXCEPT ![pool] = Pools'[pool]]
          /\ Pools'[pool].total_rewards_useable = info.total_rewards_useable - actual
      BY <2>5, <3>2 DEF claim_rewards, TypeOK, PoolInfo
    <3>5. /\ free'[sub] = update_balance(pool)[sub] - actual
          /\ \A q \in PoolIds \ {pool} :
                free'[sub_account_id(q)] = update_balance(pool)[sub_account_id(q)]
      BY <3>1, <3>2, <3>3, PaymentBacked
    <3> QED
      BY <2>1, <3>1, <3>4, <3>5, UpdateBacked
  <2> QED
    BY <1>2, <2>2, <2>3, <2>4, <2>5 DEF Call
<1>3. CASE UNCHANGED vars
  BY <1>3 DEF vars, PoolIsBacked
<1> QED
  BY <1>1, <1>2, <1>3 DEF Next

(* Without an existential deposit, and with rewards that are an Amount, the  *)
(* sub account of every pool always holds exactly the total_rewards_useable  *)
(* of the pool, so that the transfer of a reward that remove_share or        *)
(* claim_rewards has admitted does not lack funds.                           *)
THEOREM Backed ==
    ASSUME ExistentialDeposit = 0, RewardsFit
    PROVE  Spec => []PoolIsBacked
<1> DEFINE Inv == TypeOK /\ PoolIsBacked
<1>1. Init => Inv
  BY InitType
<1>2. Inv /\ [Next]_vars => Inv'
  BY NextType, NextBacked
<1>3. Inv => PoolIsBacked
  OBVIOUS
<1> QED
  BY <1>1, <1>2, <1>3, PTL DEF Spec

-----------------------------------------------------------------------------
(* The counters of a pool and the entries of its holders.                    *)

shares_of(pool) == [u \in Users |-> PoolAccountData[pool][u].shares]
debts_of(pool) == [u \in Users |-> PoolAccountData[pool][u].borrowed_amount]

(* There are finitely many accounts, and so finitely many users.             *)
LEMMA UsersFinite == IsFiniteSet(Users)
  BY PoolAssumption, FS_Subset

(* The sums of the two invariants.                                           *)
LEMMA PoolSums ==
    ASSUME NEW pool \in PoolIds
    PROVE  /\ SumFunction(shares_of(pool)) = SumFunctionOnSet(shares_of(pool), Users)
           /\ total_borrowed(pool) = SumFunctionOnSet(debts_of(pool), Users)
  BY DEF SumFunction, shares_of, debts_of, total_borrowed

\* The virtual part of total_rewards, which total_rewards_useable does not
\* count, less one debt.
unowed(info, data) == info.total_rewards - info.total_rewards_useable - data.borrowed_amount

(* What every call does to the counters of its pool and to the entry of its  *)
(* user: total_shares follows the user's shares, and the virtual part of     *)
(* total_rewards follows the user's debt, unless a removal keeps its reward: *)
(* then the debt of the removed shares stays in the virtual part.            *)
LEMMA CallSummary ==
    ASSUME TypeOK, NEW who \in Users, NEW pool \in PoolIds, Call(who, pool)
    PROVE  LET was == Pools[pool]
               had == PoolAccountData[pool][who]
           IN  \E info \in PoolInfo, data \in PoolAccountInfo :
                  /\ Pools' = [Pools EXCEPT ![pool] = info]
                  /\ PoolAccountData' = [PoolAccountData EXCEPT ![pool][who] = data]
                  /\ info.total_shares - data.shares = was.total_shares - had.shares
                  /\ unowed(info, data) >= unowed(was, had)
                  /\ \/ unowed(info, data) = unowed(was, had)
                     \/ \E amount \in Shares :
                           /\ keeps_reward(who, pool, amount)
                           /\ unowed(info, data)
                                 = unowed(was, had) + account_balance_to_remove(had, amount)
<1> DEFINE was == Pools[pool]
           had == PoolAccountData[pool][who]
           now == calc_pool_reward(pool)
<1>1. calc_pool_reward_succeeds(pool)
  BY DEF Call, add_share, may_add_share, remove_share, may_remove_share, claim_nothing,
         claim_rewards
<1>2. /\ was \in PoolInfo /\ had \in PoolAccountInfo /\ now \in PoolInfo
      /\ now.total_shares = was.total_shares
      /\ now.total_rewards - now.total_rewards_useable
            = was.total_rewards - was.total_rewards_useable
  <2>1. was \in PoolInfo /\ had \in PoolAccountInfo /\ now \in PoolInfo /\ pool_reward(pool) \in Nat
    BY <1>1, UpdateType DEF TypeOK
  <2>2. was.total_rewards \in Int /\ was.total_rewards_useable \in Int
    BY <2>1 DEF PoolInfo, Balance
  <2> QED
    BY <2>1, <2>2 DEF calc_pool_reward
<1>3. /\ now.total_shares \in Int /\ now.total_rewards \in Int
      /\ now.total_rewards_useable \in Int
      /\ had.shares \in Int /\ had.borrowed_amount \in Int
      /\ was.total_rewards \in Int /\ was.total_rewards_useable \in Int
  BY <1>2 DEF PoolInfo, PoolAccountInfo, Balance
<1>4. TypeOK'
  <2>1. [Next]_vars
    BY DEF Next
  <2> QED
    BY <2>1, NextType
<1> DEFINE info == Pools'[pool]
           data == PoolAccountData'[pool][who]
           Kept == /\ Pools' = [Pools EXCEPT ![pool] = info]
                   /\ PoolAccountData' = [PoolAccountData EXCEPT ![pool][who] = data]
                   /\ info.total_shares - data.shares = was.total_shares - had.shares
                   /\ unowed(info, data) >= unowed(was, had)
                   /\ \/ unowed(info, data) = unowed(was, had)
                      \/ \E amount \in Shares :
                            /\ keeps_reward(who, pool, amount)
                            /\ unowed(info, data)
                                  = unowed(was, had) + account_balance_to_remove(had, amount)
<1>5. ASSUME NEW amount \in Shares, add_share(who, pool, amount)
      PROVE  Kept
  <2> DEFINE virtual == virtual_reward(now, amount)
  <2>1. virtual \in Int /\ amount \in Int
    BY <1>2, PoolAssumption, RewardType
  <2>2. /\ Pools' = [Pools EXCEPT ![pool] = info]
        /\ PoolAccountData' = [PoolAccountData EXCEPT ![pool][who] = data]
        /\ info.total_shares = now.total_shares + amount
        /\ info.total_rewards = now.total_rewards + virtual
        /\ info.total_rewards_useable = now.total_rewards_useable
        /\ data.shares = had.shares + amount
        /\ data.borrowed_amount = had.borrowed_amount + virtual
    BY <1>5, Zenon DEF add_share, TypeOK
  <2> HIDE DEF was, had, now, info, data, virtual
  <2> QED
    BY <1>2, <1>3, <2>1, <2>2 DEF unowed
<1>6. ASSUME NEW amount \in Shares, remove_share(who, pool, amount)
      PROVE  Kept
  <2> DEFINE debt == account_balance_to_remove(had, amount)
             rwv == calc_reward_by_shares(now, amount)
             reward == reward_sent(now, had, amount)
  <2>1. /\ get_rewards_by_account_shares_succeeds(now, had, amount)
        /\ amount \in Nat
    BY <1>6, PoolAssumption DEF remove_share, may_remove_share
  <2>2. /\ rwv \in Int /\ debt \in Int /\ reward \in Int /\ debt >= 0
    <3>1. had.shares # 0 /\ amount > 0
      BY <1>2, <2>1, PoolAssumption
      DEF get_rewards_by_account_shares_succeeds, may_remove, PoolAccountInfo
    <3> QED
      BY <1>2, <2>1, <3>1, RewardType, DebtType DEF reward_sent, removal_reward
  <2>3. /\ Pools' = [Pools EXCEPT ![pool] = info]
        /\ PoolAccountData' = [PoolAccountData EXCEPT ![pool][who] = data]
        /\ info = pool_after_removal(now, had, amount)
        /\ data.shares = had.shares - amount
        /\ data.borrowed_amount = had.borrowed_amount - debt
    BY <1>6, Zenon DEF remove_share, TypeOK
  <2>4. /\ info.total_shares = now.total_shares - amount
        /\ info.total_rewards_useable = now.total_rewards_useable - reward
        /\ \/ reward = 0 /\ info.total_rewards = now.total_rewards
           \/ reward = rwv - debt /\ info.total_rewards = now.total_rewards - rwv
    BY <2>3 DEF pool_after_removal, reward_sent, removal_reward
  <2>5. \/ reward = 0 /\ unowed(info, data) = unowed(was, had) + debt
        \/ unowed(info, data) = unowed(was, had)
    <3> HIDE DEF was, had, now, info, data, debt, rwv, reward
    <3> QED
      BY <1>2, <1>3, <2>2, <2>3, <2>4 DEF unowed
  <2>6. unowed(was, had) \in Int
    BY <1>2 DEF unowed, PoolInfo, PoolAccountInfo, Balance
  <2>7. \/ unowed(info, data) = unowed(was, had)
        \/ \E n \in Shares :
              /\ keeps_reward(who, pool, n)
              /\ unowed(info, data) = unowed(was, had) + account_balance_to_remove(had, n)
    BY <1>6, <2>5 DEF keeps_reward
  <2>8. info.total_shares - data.shares = was.total_shares - had.shares
    <3> HIDE DEF was, had, now, info, data
    <3> QED
      BY <1>2, <1>3, <2>1, <2>3, <2>4
  <2>9. unowed(info, data) >= unowed(was, had)
    <3> HIDE DEF was, had, info, data, debt
    <3> QED
      BY <2>2, <2>5, <2>6
  <2> HIDE DEF was, had, info, data
  <2> QED
    BY <2>3, <2>7, <2>8, <2>9
<1>7. ASSUME claim_nothing(who, pool)
      PROVE  Kept
  <2>1. /\ Pools' = [Pools EXCEPT ![pool] = info] /\ info = now
        /\ PoolAccountData' = [PoolAccountData EXCEPT ![pool][who] = data] /\ data = had
    BY <1>7 DEF claim_nothing, TypeOK
  <2> HIDE DEF was, had, now, info, data
  <2> QED
    BY <1>2, <1>3, <2>1 DEF unowed
<1>8. ASSUME claim_rewards(who, pool)
      PROVE  Kept
  <2> DEFINE rwv == calc_reward_by_shares(now, had.shares)
  <2>1. rwv \in Int
    <3>1. had.shares \in Nat
      BY <1>2, PoolAssumption DEF PoolAccountInfo
    <3> QED
      BY <1>2, <3>1, RewardType
  <2>2. /\ Pools' = [Pools EXCEPT ![pool] = info]
        /\ PoolAccountData' = [PoolAccountData EXCEPT ![pool][who] = data]
        /\ info = [now EXCEPT !.total_rewards_useable = @ - claimable(now, had)]
        /\ data.shares = had.shares /\ data.borrowed_amount = rwv
    BY <1>8, Zenon DEF claim_rewards, TypeOK
  <2>3. /\ info.total_shares = now.total_shares
        /\ info.total_rewards = now.total_rewards
        /\ info.total_rewards_useable
              = now.total_rewards_useable - (rwv - had.borrowed_amount)
    BY <1>2, <2>2 DEF PoolInfo, claimable
  <2> HIDE DEF was, had, now, info, data, rwv
  <2> QED
    BY <1>2, <1>3, <2>1, <2>2, <2>3 DEF unowed
<1>9. Kept
  BY <1>5, <1>6, <1>7, <1>8 DEF Call
<1>10. info \in PoolInfo /\ data \in PoolAccountInfo
  BY <1>4 DEF TypeOK
<1> QED
  BY <1>9, <1>10

(* A call changes the sums of its own pool by what it changes its user's     *)
(* entry.                                                                    *)
LEMMA HolderSums ==
    ASSUME TypeOK, NEW pool \in PoolIds, NEW who \in Users, NEW data \in PoolAccountInfo,
           PoolAccountData' = [PoolAccountData EXCEPT ![pool][who] = data]
    PROVE  /\ SumFunction(shares_of(pool)')
                 = SumFunction(shares_of(pool)) - PoolAccountData[pool][who].shares + data.shares
           /\ total_borrowed(pool)'
                 = total_borrowed(pool) - PoolAccountData[pool][who].borrowed_amount
                      + data.borrowed_amount
           /\ \A q \in PoolIds \ {pool} : /\ shares_of(q)' = shares_of(q)
                                          /\ total_borrowed(q)' = total_borrowed(q)
<1> DEFINE S == shares_of(pool)
           D == debts_of(pool)
<1>1. \A u \in Users : /\ S[u] \in Int /\ D[u] \in Int
                       /\ S[u] = PoolAccountData[pool][u].shares
                       /\ D[u] = PoolAccountData[pool][u].borrowed_amount
  BY DEF TypeOK, PoolAccountInfo, Balance, shares_of, debts_of
<1>2. /\ PoolAccountData'[pool][who] = data
      /\ \A u \in Users \ {who} : PoolAccountData'[pool][u] = PoolAccountData[pool][u]
      /\ \A q \in PoolIds \ {pool} : PoolAccountData'[q] = PoolAccountData[q]
  BY DEF TypeOK
<1>3. /\ S'[who] = data.shares /\ D'[who] = data.borrowed_amount
      /\ \A u \in Users \ {who} : S'[u] = S[u] /\ D'[u] = D[u]
      /\ data.shares \in Int /\ data.borrowed_amount \in Int
  BY <1>2 DEF shares_of, debts_of, PoolAccountInfo, Balance
<1>4. \A u \in Users : S'[u] \in Int /\ D'[u] \in Int
  BY <1>1, <1>3
<1>5. /\ SumFunctionOnSet(S', Users) = SumFunctionOnSet(S, Users) - S[who] + S'[who]
      /\ SumFunctionOnSet(D', Users) = SumFunctionOnSet(D, Users) - D[who] + D'[who]
  <2> HIDE DEF S, D
  <2> QED
    BY <1>1, <1>3, <1>4, SumUpdate, UsersFinite
<1>6. /\ SumFunction(S') = SumFunctionOnSet(S', Users)
      /\ SumFunction(S) = SumFunctionOnSet(S, Users)
      /\ total_borrowed(pool)' = SumFunctionOnSet(D', Users)
      /\ total_borrowed(pool) = SumFunctionOnSet(D, Users)
  BY DEF SumFunction, shares_of, debts_of, total_borrowed
<1>7. \A q \in PoolIds \ {pool} : shares_of(q)' = shares_of(q)
                                  /\ total_borrowed(q)' = total_borrowed(q)
  BY <1>2 DEF shares_of, total_borrowed
<1> QED
  BY <1>1, <1>3, <1>5, <1>6, <1>7

(* Every step keeps SharesAddUp and DebtsAreVirtual.                         *)
LEMMA NextCounters ==
    ASSUME TypeOK, SharesAddUp, DebtsAreVirtual, [Next]_vars
    PROVE  SharesAddUp' /\ DebtsAreVirtual'
<1>1. ASSUME UNCHANGED <<Pools, PoolAccountData>>
      PROVE  SharesAddUp' /\ DebtsAreVirtual'
  BY <1>1 DEF SharesAddUp, DebtsAreVirtual, total_borrowed
<1>2. ASSUME NEW who \in Users, NEW pool \in PoolIds, Call(who, pool)
      PROVE  SharesAddUp' /\ DebtsAreVirtual'
  <2> DEFINE was == Pools[pool]
             had == PoolAccountData[pool][who]
  <2>1. PICK info \in PoolInfo, data \in PoolAccountInfo :
           /\ Pools' = [Pools EXCEPT ![pool] = info]
           /\ PoolAccountData' = [PoolAccountData EXCEPT ![pool][who] = data]
           /\ info.total_shares - data.shares = was.total_shares - had.shares
           /\ unowed(info, data) >= unowed(was, had)
    BY <1>2, CallSummary
  <2>2. /\ Pools'[pool] = info
        /\ \A q \in PoolIds \ {pool} : Pools'[q] = Pools[q]
    BY <2>1 DEF TypeOK
  <2>3. /\ SumFunction(shares_of(pool)') = SumFunction(shares_of(pool)) - had.shares + data.shares
        /\ total_borrowed(pool)' = total_borrowed(pool) - had.borrowed_amount + data.borrowed_amount
        /\ \A q \in PoolIds \ {pool} : /\ shares_of(q)' = shares_of(q)
                                       /\ total_borrowed(q)' = total_borrowed(q)
    BY <2>1, HolderSums, Zenon
  <2>4. /\ SumFunction(shares_of(pool)) = was.total_shares
        /\ total_borrowed(pool) + was.total_rewards_useable <= was.total_rewards
    BY DEF SharesAddUp, DebtsAreVirtual, shares_of
  <2>5. /\ was.total_shares \in Int /\ was.total_rewards \in Int
        /\ was.total_rewards_useable \in Int
        /\ info.total_shares \in Int /\ info.total_rewards \in Int
        /\ info.total_rewards_useable \in Int
        /\ had.shares \in Int /\ had.borrowed_amount \in Int
        /\ data.shares \in Int /\ data.borrowed_amount \in Int
        /\ total_borrowed(pool) \in Int
    <3>1. \A u \in Users : debts_of(pool)[u] \in Int
      BY DEF TypeOK, PoolAccountInfo, Balance, debts_of
    <3>2. total_borrowed(pool) \in Int
      BY <3>1, PoolSums, SumInt, UsersFinite
    <3> QED
      BY <3>2 DEF TypeOK, PoolInfo, PoolAccountInfo, Balance
  <2>6. /\ SumFunction(shares_of(pool)') = info.total_shares
        /\ total_borrowed(pool)' + info.total_rewards_useable <= info.total_rewards
    <3> HIDE DEF was, had
    <3> QED
      BY <2>1, <2>3, <2>4, <2>5 DEF unowed
  <2>7. SharesAddUp'
    BY <2>2, <2>3, <2>6, Zenon DEF SharesAddUp, shares_of
  <2>8. DebtsAreVirtual'
    BY <2>2, <2>3, <2>6 DEF DebtsAreVirtual
  <2> QED
    BY <2>7, <2>8
<1> QED
  BY <1>1, <1>2 DEF Next, NextBlock, vars

(* Nothing is owned or owed in the initial state.                            *)
LEMMA InitCounters == Init => SharesAddUp /\ DebtsAreVirtual
<1> SUFFICES ASSUME Init
             PROVE  SharesAddUp /\ DebtsAreVirtual
  OBVIOUS
<1>1. ASSUME NEW p \in PoolIds
      PROVE  SumFunction(shares_of(p)) = 0 /\ total_borrowed(p) = 0
  <2>1. \A u \in Users : shares_of(p)[u] = 0 /\ debts_of(p)[u] = 0
    BY DEF Init, shares_of, debts_of
  <2>2. /\ SumFunctionOnSet(shares_of(p), Users) = 0
        /\ SumFunctionOnSet(debts_of(p), Users) = 0
    BY <2>1, SumZero, UsersFinite
  <2> QED
    BY <2>2, PoolSums
<1>2. \A p \in PoolIds : /\ Pools[p].total_shares = 0 /\ Pools[p].total_rewards = 0
                         /\ Pools[p].total_rewards_useable = 0
  BY DEF Init
<1>3. SharesAddUp
  BY <1>1, <1>2 DEF SharesAddUp, shares_of
<1>4. DebtsAreVirtual
  BY <1>1, <1>2 DEF DebtsAreVirtual
<1> QED
  BY <1>3, <1>4

(* The counters and the entries agree in every reachable state.              *)
LEMMA CountersAgree == Spec => [](TypeOK /\ SharesAddUp /\ DebtsAreVirtual)
<1> DEFINE Inv == TypeOK /\ SharesAddUp /\ DebtsAreVirtual
<1>1. Init => Inv
  BY InitType, InitCounters
<1>2. Inv /\ [Next]_vars => Inv'
  BY NextType, NextCounters
<1> QED
  BY <1>1, <1>2, PTL DEF Spec

(* total_shares is at all times the sum of the shares of the holders: the    *)
(* two storage items that add_share and remove_share write one after the     *)
(* other never drift apart.                                                  *)
THEOREM SharesAlwaysAddUp == Spec => []SharesAddUp
  BY CountersAgree, PTL

(* What the holders owe together never exceeds the virtual part of the       *)
(* rewards, in spite of the rounding of share prices and ratios and of       *)
(* rewards that are too small to be sent.                                    *)
THEOREM DebtsStayVirtual == Spec => []DebtsAreVirtual
  BY CountersAgree, PTL

-----------------------------------------------------------------------------
(* The debts that were forgiven.                                             *)

(* Every step.                                                               *)
LEMMA StepSurplus ==
    ASSUME TypeOK, [Next]_vars, NEW p \in PoolIds
    PROVE  \/ surplus(p)' = surplus(p)
           \/ \E who \in Users, amount \in Shares :
                 /\ keeps_reward(who, p, amount)
                 /\ surplus(p)' = surplus(p)
                       + account_balance_to_remove(PoolAccountData[p][who], amount)
<1>1. CASE UNCHANGED <<Pools, PoolAccountData>>
  BY <1>1 DEF surplus, total_borrowed
<1>2. ASSUME NEW who \in Users, NEW pool \in PoolIds, Call(who, pool), p # pool
      PROVE  surplus(p)' = surplus(p)
  <2>1. PICK info \in PoolInfo, data \in PoolAccountInfo :
           /\ Pools' = [Pools EXCEPT ![pool] = info]
           /\ PoolAccountData' = [PoolAccountData EXCEPT ![pool][who] = data]
    BY <1>2, CallSummary
  <2>2. Pools'[p] = Pools[p] /\ PoolAccountData'[p] = PoolAccountData[p]
    BY <1>2, <2>1 DEF TypeOK
  <2> QED
    BY <2>2 DEF surplus, total_borrowed
<1>3. ASSUME NEW who \in Users, Call(who, p)
      PROVE  \/ surplus(p)' = surplus(p)
             \/ \E amount \in Shares :
                   /\ keeps_reward(who, p, amount)
                   /\ surplus(p)' = surplus(p)
                         + account_balance_to_remove(PoolAccountData[p][who], amount)
  <2> DEFINE was == Pools[p]
             had == PoolAccountData[p][who]
  <2>1. PICK info \in PoolInfo, data \in PoolAccountInfo :
           /\ Pools' = [Pools EXCEPT ![p] = info]
           /\ PoolAccountData' = [PoolAccountData EXCEPT ![p][who] = data]
           /\ \/ unowed(info, data) = unowed(was, had)
              \/ \E amount \in Shares :
                    /\ keeps_reward(who, p, amount)
                    /\ unowed(info, data)
                          = unowed(was, had) + account_balance_to_remove(had, amount)
    BY <1>3, CallSummary
  <2>2. Pools'[p] = info
    BY <2>1 DEF TypeOK
  <2>3. total_borrowed(p)' = total_borrowed(p) - had.borrowed_amount + data.borrowed_amount
    BY <2>1, HolderSums, Zenon
  <2>4. /\ was.total_rewards \in Int /\ was.total_rewards_useable \in Int
        /\ info.total_rewards \in Int /\ info.total_rewards_useable \in Int
        /\ had.borrowed_amount \in Int /\ data.borrowed_amount \in Int
        /\ total_borrowed(p) \in Int
    <3>1. \A u \in Users : debts_of(p)[u] \in Int
      BY DEF TypeOK, PoolAccountInfo, Balance, debts_of
    <3>2. total_borrowed(p) \in Int
      BY <3>1, PoolSums, SumInt, UsersFinite
    <3> QED
      BY <3>2 DEF TypeOK, PoolInfo, PoolAccountInfo, Balance
  <2>5. surplus(p)' - surplus(p) = unowed(info, data) - unowed(was, had)
    <3>1. /\ surplus(p)' = info.total_rewards - info.total_rewards_useable - total_borrowed(p)'
          /\ surplus(p) = was.total_rewards - was.total_rewards_useable - total_borrowed(p)
      BY <2>2 DEF surplus
    <3> HIDE DEF was, had
    <3> QED
      BY <2>3, <2>4, <3>1 DEF unowed
  <2>6. /\ surplus(p)' \in Int /\ surplus(p) \in Int
        /\ unowed(info, data) \in Int /\ unowed(was, had) \in Int
    <3>1. /\ surplus(p)' = info.total_rewards - info.total_rewards_useable - total_borrowed(p)'
          /\ surplus(p) = was.total_rewards - was.total_rewards_useable - total_borrowed(p)
      BY <2>2 DEF surplus
    <3> HIDE DEF was, had
    <3> QED
      BY <2>3, <2>4, <3>1 DEF unowed
  <2>7. ASSUME NEW amount \in Shares, keeps_reward(who, p, amount)
        PROVE  account_balance_to_remove(had, amount) \in Int
    <3>1. had.shares # 0 /\ amount \in Nat /\ had \in PoolAccountInfo
      BY <2>7, PoolAssumption
      DEF keeps_reward, remove_share, may_remove_share,
          get_rewards_by_account_shares_succeeds, may_remove, PoolAccountInfo, TypeOK
    <3> QED
      BY <3>1, DebtType
  <2> HIDE DEF was, had
  <2> QED
    BY <2>1, <2>5, <2>6, <2>7 DEF had
<1> QED
  BY <1>1, <1>2, <1>3 DEF Next, NextBlock, vars

(* The surplus of a pool's virtual rewards over the debts of its holders is, *)
(* at any time, what removals without a reward have forgiven.                *)
THEOREM DebtsAreExact == Spec => SurplusIsForgivenDebt
<1>1. TypeOK /\ [Next]_vars =>
        [\A p \in PoolIds :
            \/ surplus(p)' = surplus(p)
            \/ \E who \in Users, amount \in Shares :
                  /\ keeps_reward(who, p, amount)
                  /\ surplus(p)' = surplus(p)
                        + account_balance_to_remove(PoolAccountData[p][who], amount)]_vars
  BY StepSurplus
<1> QED
  BY <1>1, TypeCorrect, PTL DEF Spec, SurplusIsForgivenDebt

-----------------------------------------------------------------------------
(* What rounding costs the other holders.  FixedU128 rounds down or to the   *)
(* nearest value, so the lemmas bound what is off by one in a ratio, in      *)
(* units of 1 / DIV, or in a reward; halves are avoided by a factor of two.  *)

\* 1 when a product is too large for the integer type and is rounded to the
\* nearest value, 0 when it is rounded down.
nearest(product) == IF product > MaxBalance THEN 1 ELSE 0

(* multiply_by_rational is off by less than one when it rounds down, and by  *)
(* at most one half, in either direction, when the product does not fit and  *)
(* it rounds to the nearest value.                                           *)
LEMMA Rounded ==
    ASSUME NEW a \in Nat, NEW b \in Nat, NEW c \in Nat \ {0}
    PROVE  /\ 2 * (c * multiply_by_rational(a, b, c)) <= 2 * (a * b) + nearest(a * b) * c
           /\ 2 * (c * multiply_by_rational(a, b, c)) >= 2 * (a * b) - (2 - nearest(a * b)) * c
<1> DEFINE n == a * b
           q == n \div c
           r == n % c
           m == multiply_by_rational(a, b, c)
<1>1. n \in Nat
  OBVIOUS
<1>2. q \in Nat /\ r \in 0 .. c - 1 /\ n = c * q + r
  BY <1>1, Division, Zenon
<1>3. m = IF n > MaxBalance /\ r > c \div 2 THEN q + 1 ELSE q
  BY DEF multiply_by_rational
<1>4. IF r > c \div 2 THEN 2 * r >= c ELSE 2 * r <= c
  BY <1>2, Half
<1>5. c * (q + 1) = c * q + c
  BY <1>2
<1> HIDE DEF n, q, r, m
<1>6. CASE n > MaxBalance
  <2>1. nearest(n) = 1
    BY <1>6 DEF nearest
  <2>2. CASE r > c \div 2
    <3>1. c * m = c * q + c
      BY <1>3, <1>5, <1>6, <2>2
    <3> QED
      BY <1>1, <1>2, <1>4, <2>1, <2>2, <3>1 DEF n, m
  <2>3. CASE ~(r > c \div 2)
    <3>1. c * m = c * q
      BY <1>3, <2>3
    <3> QED
      BY <1>1, <1>2, <1>4, <2>1, <2>3, <3>1 DEF n, m
  <2> QED
    BY <2>2, <2>3
<1>7. CASE ~(n > MaxBalance)
  <2>1. nearest(n) = 0 /\ c * m = c * q
    BY <1>3, <1>7 DEF nearest
  <2> QED
    BY <1>1, <1>2, <2>1 DEF n, m
<1> QED
  BY <1>6, <1>7

\* The rewards of a pool spread over its shares lose little from info to after.
hardly_diluted(info, after, shares) ==
    2 * (shares * (DIV * (info.total_rewards * after.total_shares
                             - after.total_rewards * info.total_shares)))
       <= (info.total_shares * after.total_shares)
             * (2 * DIV + 2 * after.total_shares + info.total_rewards)

\* f is the ratio and x the reward that calc_reward_by_shares computes.
rounded_ratio(info, shares, f) ==
    /\ 2 * (info.total_shares * f)
          <= 2 * (shares * DIV) + nearest(shares * DIV) * info.total_shares
    /\ 2 * (info.total_shares * f)
          >= 2 * (shares * DIV) - (2 - nearest(shares * DIV)) * info.total_shares
rounded_reward(info, f, x) ==
    /\ 2 * (DIV * x) <= 2 * (f * info.total_rewards) + DIV
    /\ 2 * (DIV * x) >= 2 * (f * info.total_rewards) - 2 * DIV

(* The two roundings of calc_reward_by_shares.                               *)
LEMMA RewardRounded ==
    ASSUME NEW info \in PoolInfo, NEW shares \in Nat \ {0}, info.total_shares # 0
    PROVE  \E f \in Nat : /\ rounded_ratio(info, shares, f)
                          /\ rounded_reward(info, f, calc_reward_by_shares(info, shares))
<1> DEFINE S == info.total_shares
           R == info.total_rewards
           f == multiply_by_rational(shares, DIV, S)
           x == multiply_by_rational(f, R, DIV)
<1>1. S \in Nat \ {0} /\ R \in Nat /\ DIV \in Nat \ {0} /\ MaxBalance \in Nat
  BY PoolAssumption, CurrencyAssumption DEF PoolInfo, Balance
<1>2. f \in Nat
  BY <1>1, MultiplyType, Zenon
<1>3. x \in Nat
  BY <1>1, <1>2, MultiplyType, Zenon
<1>4. calc_reward_by_shares(info, shares) = x
  BY <1>1 DEF calc_reward_by_shares, checked_mul_int, checked_from_rational
<1>5. rounded_ratio(info, shares, f)
  <2>1. shares \in Nat /\ DIV \in Nat
    BY <1>1
  <2> QED
    BY <1>1, <2>1, Rounded, Zenon DEF rounded_ratio
<1>6. rounded_reward(info, f, x)
  <2>1. /\ 2 * (DIV * x) <= 2 * (f * R) + nearest(f * R) * DIV
        /\ 2 * (DIV * x) >= 2 * (f * R) - (2 - nearest(f * R)) * DIV
    BY <1>1, <1>2, Rounded, Zenon
  <2>2. nearest(f * R) \in {0, 1}
    BY DEF nearest
  <2> HIDE DEF f, x, R
  <2>3. CASE nearest(f * R) = 0
    BY <1>1, <1>2, <1>3, <2>1, <2>3 DEF rounded_reward, R
  <2>4. CASE nearest(f * R) = 1
    BY <1>1, <1>2, <1>3, <2>1, <2>4 DEF rounded_reward, R
  <2> QED
    BY <2>2, <2>3, <2>4
<1> QED
  BY <1>2, <1>4, <1>5, <1>6, Zenon

(* A whole is not rounded.                                                   *)
LEMMA WholeRatio ==
    ASSUME NEW a \in Nat \ {0}, NEW b \in Nat
    PROVE  multiply_by_rational(a, b, a) = b
<1> DEFINE n == a * b
           q == n \div a
           r == n % a
<1>1. n \in Nat
  OBVIOUS
<1>2. q \in Nat /\ r \in 0 .. a - 1 /\ n = a * q + r
  BY <1>1, Division, Zenon
<1>3. q <= b
  <2> HIDE DEF q, r
  <2>1. a * q <= a * b /\ q \in Int
    BY <1>2 DEF n
  <2> QED
    BY <2>1, Cancel
<1>4. b <= q
  <2> SUFFICES ASSUME b >= q + 1 PROVE FALSE
    BY <1>2
  <2> HIDE DEF q, r
  <2>1. a * (q + 1) <= a * b
    BY <1>2, Products
  <2>2. a * (q + 1) = a * q + a /\ a * q \in Int
    BY <1>2
  <2> QED
    BY <1>2, <2>1, <2>2 DEF n
<1>5. q = b
  <2> HIDE DEF q
  <2> QED
    BY <1>2, <1>3, <1>4
<1>6. r = 0
  <2> HIDE DEF q, r
  <2> QED
    BY <1>2, <1>5 DEF n
<1>7. ~(r > a \div 2)
  <2>1. a \div 2 \in Nat
    OBVIOUS
  <2> HIDE DEF r
  <2> QED
    BY <1>6, <2>1
<1> QED
  BY <1>5, <1>7, Zenon DEF multiply_by_rational

(* A holder that has no shares owes nothing: the ratio of all its shares is  *)
(* exact, so that remove_share leaves no part of the debt behind, to be      *)
(* charged when the holder comes back.                                       *)
NoSharesNoDebt ==
    \A p \in PoolIds, u \in Users :
       PoolAccountData[p][u].shares = 0 => PoolAccountData[p][u].borrowed_amount = 0

(* The debt of all shares is the whole debt.                                 *)
LEMMA WholeDebt ==
    ASSUME NEW data \in PoolAccountInfo, data.shares # 0
    PROVE  account_balance_to_remove(data, data.shares) = data.borrowed_amount
<1>1. /\ data.shares \in Nat \ {0} /\ data.borrowed_amount \in Nat
      /\ DIV \in Nat \ {0} /\ DIV \in Nat
  BY PoolAssumption, CurrencyAssumption DEF PoolAccountInfo, Balance
<1>2. checked_from_rational(data.shares, data.shares) = DIV
  BY <1>1, WholeRatio, Zenon DEF checked_from_rational
<1>3. checked_mul_int(DIV, data.borrowed_amount) = data.borrowed_amount
  BY <1>1, WholeRatio, Zenon DEF checked_mul_int
<1> QED
  BY <1>2, <1>3, Zenon DEF account_balance_to_remove

(* Every call keeps NoSharesNoDebt for its user.                             *)
LEMMA CallNoDebt ==
    ASSUME TypeOK, NEW who \in Users, NEW pool \in PoolIds, Call(who, pool),
           PoolAccountData[pool][who].shares = 0 =>
              PoolAccountData[pool][who].borrowed_amount = 0
    PROVE  PoolAccountData'[pool][who].shares = 0 =>
              PoolAccountData'[pool][who].borrowed_amount = 0
<1> DEFINE had == PoolAccountData[pool][who]
           data == PoolAccountData'[pool][who]
<1>1. had \in PoolAccountInfo /\ had.shares \in Nat /\ had.borrowed_amount \in Nat
  BY PoolAssumption, CurrencyAssumption DEF TypeOK, PoolAccountInfo, Balance
<1>2. ASSUME NEW amount \in Shares, add_share(who, pool, amount)
      PROVE  data.shares # 0
  <2>1. data.shares = had.shares + amount /\ amount > 0
    BY <1>2, Zenon DEF add_share, may_add_share, TypeOK
  <2> HIDE DEF had, data
  <2> QED
    BY <1>1, <2>1, PoolAssumption
<1>3. ASSUME NEW amount \in Shares, remove_share(who, pool, amount)
      PROVE  data.shares = 0 => data.borrowed_amount = 0
  <2>1. /\ data.shares = had.shares - amount
        /\ data.borrowed_amount = had.borrowed_amount - account_balance_to_remove(had, amount)
    BY <1>3, Zenon DEF remove_share, TypeOK
  <2>2. amount > 0 /\ amount \in Nat
    BY <1>3, PoolAssumption
    DEF remove_share, may_remove_share, get_rewards_by_account_shares_succeeds, may_remove
  <2> SUFFICES ASSUME data.shares = 0 PROVE data.borrowed_amount = 0
    OBVIOUS
  <2>3. amount = had.shares /\ had.shares # 0
    <3> HIDE DEF had, data
    <3> QED
      BY <1>1, <2>1, <2>2
  <2>4. account_balance_to_remove(had, amount) = had.borrowed_amount
    <3> HIDE DEF had
    <3> QED
      BY <1>1, <2>3, WholeDebt
  <2> HIDE DEF had, data
  <2> QED
    BY <1>1, <2>1, <2>4
<1>4. ASSUME claim_nothing(who, pool) PROVE data = had
  BY <1>4 DEF claim_nothing
<1>5. ASSUME claim_rewards(who, pool) PROVE data.shares # 0
  <2>1. data.shares = had.shares /\ had.shares > 0
    BY <1>5, Zenon DEF claim_rewards, TypeOK
  <2> HIDE DEF had, data
  <2> QED
    BY <1>1, <2>1
<1> QED
  BY <1>2, <1>3, <1>4, <1>5 DEF Call

(* Whoever has removed all shares of a pool owes it nothing.                 *)
THEOREM LeaversOweNothing == Spec => []NoSharesNoDebt
<1>1. Init => NoSharesNoDebt
  BY DEF Init, NoSharesNoDebt
<1>2. TypeOK /\ NoSharesNoDebt /\ [Next]_vars => NoSharesNoDebt'
  <2> SUFFICES ASSUME TypeOK, NoSharesNoDebt, [Next]_vars,
                      NEW p \in PoolIds, NEW u \in Users
               PROVE  PoolAccountData'[p][u].shares = 0 =>
                         PoolAccountData'[p][u].borrowed_amount = 0
    BY DEF NoSharesNoDebt
  <2>1. PoolAccountData[p][u].shares = 0 => PoolAccountData[p][u].borrowed_amount = 0
    BY DEF NoSharesNoDebt
  <2>2. ASSUME NEW who \in Users, NEW pool \in PoolIds, Call(who, pool), <<who, pool>> # <<u, p>>
        PROVE  PoolAccountData'[p][u] = PoolAccountData[p][u]
    <3>1. PICK info \in PoolInfo, data \in PoolAccountInfo :
             PoolAccountData' = [PoolAccountData EXCEPT ![pool][who] = data]
      BY <2>2, CallSummary
    <3> QED
      BY <2>2, <3>1 DEF TypeOK
  <2>3. CASE Call(u, p)
    BY <2>1, <2>3, CallNoDebt
  <2>4. CASE UNCHANGED PoolAccountData
    BY <2>1, <2>4
  <2> QED
    BY <2>1, <2>2, <2>3, <2>4 DEF Next, NextBlock, vars
<1> QED
  BY <1>1, <1>2, TypeCorrect, PTL DEF Spec

-----------------------------------------------------------------------------
(* What the holders can claim together.                                      *)

holders(pool) == {u \in Users : PoolAccountData[pool][u].shares > 0}
claims_of(pool) == [u \in Users |-> claimable(Pools[pool], PoolAccountData[pool][u])]

(* What all holders of a pool can claim together is in the pool, up to half  *)
(* a unit and half a part in DIV of total_rewards for each holder, and up to *)
(* the debts that were forgiven: rounding and rewards that remove_share does *)
(* not send are the only ways in which the pool promises more than it has.   *)
ClaimsAreCovered ==
    \A p \in PoolIds :
       SumFunctionOnSet(claims_of(p), holders(p))
          <= Pools[p].total_rewards_useable + surplus(p)
                + (Cardinality(holders(p)) * (Pools[p].total_rewards + DIV)) \div (2 * DIV)

(* The invariants bound the claims.                                          *)
LEMMA CoveredFromCounters ==
    ASSUME TypeOK, SharesAddUp, DebtsAreVirtual, NoSharesNoDebt, NEW p \in PoolIds
    PROVE  SumFunctionOnSet(claims_of(p), holders(p))
              <= Pools[p].total_rewards_useable + surplus(p)
                    + (Cardinality(holders(p)) * (Pools[p].total_rewards + DIV)) \div (2 * DIV)
<1> DEFINE info == Pools[p]
           S == info.total_shares
           R == info.total_rewards
           H == holders(p)
           n == Cardinality(H)
           rewards == [u \in Users |-> calc_reward_by_shares(info, shares_of(p)[u])]
           X == SumFunctionOnSet(rewards, H)
           slack == (n * (R + DIV)) \div (2 * DIV)
<1>1. /\ info \in PoolInfo /\ S \in Nat /\ R \in Nat /\ DIV \in Nat \ {0}
      /\ info.total_rewards_useable \in Nat
  BY PoolAssumption, CurrencyAssumption DEF TypeOK, PoolInfo, Balance
<1>2. /\ H \subseteq Users /\ IsFiniteSet(H) /\ n \in Nat
  <2>1. H \subseteq Users
    BY DEF holders
  <2>2. IsFiniteSet(H)
    BY <2>1, UsersFinite, FS_Subset
  <2> QED
    BY <2>1, <2>2, FS_CardinalityType
<1>3. \A u \in Users : /\ shares_of(p)[u] \in Nat /\ debts_of(p)[u] \in Nat
                       /\ u \in H <=> shares_of(p)[u] # 0
  BY PoolAssumption, CurrencyAssumption
  DEF TypeOK, PoolAccountInfo, Balance, shares_of, debts_of, holders
<1>4. \A u \in Users : rewards[u] \in Nat
  BY <1>1, <1>3, RewardType
<1>5. slack \in Nat
  <2> DEFINE M == n * (R + DIV)
             k == 2 * DIV
  <2>1. M \in Nat /\ k \in Nat \ {0}
    <3> HIDE DEF n, R
    <3> QED
      BY <1>1, <1>2
  <2>2. M \div k \in Nat
    <3> HIDE DEF M, k
    <3> QED
      BY <2>1, Division
  <2> QED
    BY <2>2
<1>6. SumFunctionOnSet(shares_of(p), H) = S
  <2>1. SumFunctionOnSet(shares_of(p), Users) = S
    BY PoolSums DEF SharesAddUp, shares_of
  <2>2. /\ \A u \in Users : shares_of(p)[u] \in Int
        /\ \A u \in Users \ H : shares_of(p)[u] = 0
    BY <1>3
  <2> HIDE DEF S, H
  <2> QED
    BY <1>2, <2>1, <2>2, UsersFinite, SumZeroExtension
<1>7. SumFunctionOnSet(debts_of(p), H) = total_borrowed(p)
  <2>1. SumFunctionOnSet(debts_of(p), Users) = total_borrowed(p)
    BY PoolSums
  <2>2. /\ \A u \in Users : debts_of(p)[u] \in Int
        /\ \A u \in Users \ H : debts_of(p)[u] = 0
    BY <1>3 DEF NoSharesNoDebt, shares_of, debts_of
  <2> HIDE DEF H
  <2> QED
    BY <1>2, <2>1, <2>2, UsersFinite, SumZeroExtension
<1>8. X <= R + slack
  <2>1. CASE H = {}
    <3>1. X = 0
      BY <2>1, SumEmpty
    <3> HIDE DEF X, R, slack
    <3> QED
      BY <1>1, <1>5, <3>1
  <2>2. CASE H # {}
    <3>1. S # 0
      <4>1. PICK u \in H : TRUE
        BY <2>2
      <4>2. shares_of(p)[u] <= SumFunctionOnSet(shares_of(p), H)
        BY <1>2, <1>3, <4>1, SumBound
      <4>3. shares_of(p)[u] \in Nat /\ shares_of(p)[u] # 0
        BY <1>2, <1>3, <4>1
      <4> HIDE DEF S
      <4> QED
        BY <1>6, <4>2, <4>3
    <3>2. ASSUME NEW u \in H
          PROVE  (2 * (S * DIV)) * rewards[u] <= (2 * (DIV * R)) * shares_of(p)[u] + S * (R + DIV)
      <4> DEFINE s == shares_of(p)[u]
                 x == rewards[u]
                 e == nearest(s * DIV)
      <4>1. u \in Users /\ s \in Nat \ {0} /\ x \in Nat /\ x = calc_reward_by_shares(info, s)
        BY <1>2, <1>3, <1>4, <3>2
      <4>2. PICK f \in Nat : rounded_ratio(info, s, f) /\ rounded_reward(info, f, x)
        BY <1>1, <3>1, <4>1, RewardRounded
      <4>3. e \in {0, 1}
        BY DEF nearest
      <4>4. /\ 2 * (S * f) <= 2 * (s * DIV) + e * S
            /\ 2 * (DIV * x) <= 2 * (f * R) + DIV
        BY <4>2 DEF rounded_ratio, rounded_reward
      <4>5. S \in Nat \ {0}
        BY <1>1, <3>1
      <4> HIDE DEF S, R, s, x, e
      <4>6. (2 * (S * DIV)) * x <= (2 * (DIV * R)) * s + S * (R + DIV)
        BY <1>1, <4>1, <4>3, <4>4, <4>5, ShareOfRewards
      <4> QED
        BY <4>6 DEF s, x
    <3> DEFINE k == 2 * (S * DIV)
               m == 2 * (DIV * R)
               c == S * (R + DIV)
    <3>3. k \in Int /\ m \in Int /\ c \in Int
      <4> HIDE DEF S, R
      <4> QED
        BY <1>1
    <3>4. \A u \in H : /\ rewards[u] \in Int /\ shares_of(p)[u] \in Int
                       /\ k * rewards[u] <= m * shares_of(p)[u] + c
      <4>1. \A u \in H : rewards[u] \in Int /\ shares_of(p)[u] \in Int
        BY <1>2, <1>3, <1>4
      <4> QED
        BY <3>2, <4>1, Zenon
    <3>5. k * X <= m * S + c * n
      <4> HIDE DEF k, m, c, H, rewards, S
      <4>1. k * SumFunctionOnSet(rewards, H)
               <= m * SumFunctionOnSet(shares_of(p), H) + c * Cardinality(H)
        BY <1>2, <3>3, <3>4, SumRatio, Zenon
      <4> QED
        BY <1>6, <4>1
    <3>6. X \in Int
      <4> HIDE DEF H, rewards
      <4> QED
        BY <1>2, <3>4, SumInt
    <3>7. S \in Nat \ {0}
      BY <1>1, <3>1
    <3> HIDE DEF S, R, X, n
    <3> QED
      BY <1>1, <1>2, <3>5, <3>6, <3>7, ShareOfAll
  <2> QED
    BY <2>1, <2>2
<1>9. SumFunctionOnSet(claims_of(p), H) + total_borrowed(p) = X
  <2>1. \A u \in H : /\ claims_of(p)[u] \in Int /\ debts_of(p)[u] \in Int
                     /\ rewards[u] = claims_of(p)[u] + debts_of(p)[u]
    <3> SUFFICES ASSUME NEW u \in H
                 PROVE  /\ claims_of(p)[u] \in Int /\ debts_of(p)[u] \in Int
                        /\ rewards[u] = claims_of(p)[u] + debts_of(p)[u]
      OBVIOUS
    <3>1. u \in Users /\ rewards[u] \in Nat /\ debts_of(p)[u] \in Nat
      BY <1>2, <1>3, <1>4
    <3>2. claims_of(p)[u] = rewards[u] - debts_of(p)[u]
      BY <3>1 DEF claims_of, claimable, shares_of, debts_of
    <3> HIDE DEF rewards
    <3> QED
      BY <3>1, <3>2
  <2> HIDE DEF H, rewards
  <2> QED
    BY <1>2, <1>7, <2>1, SumPlus
<1>10. SumFunctionOnSet(claims_of(p), H) \in Int /\ total_borrowed(p) \in Int
  <2>1. \A u \in H : claims_of(p)[u] \in Int /\ debts_of(p)[u] \in Int
    <3> SUFFICES ASSUME NEW u \in H
                 PROVE  claims_of(p)[u] \in Int /\ debts_of(p)[u] \in Int
      OBVIOUS
    <3>1. u \in Users /\ rewards[u] \in Nat /\ debts_of(p)[u] \in Nat
      BY <1>2, <1>3, <1>4
    <3>2. claims_of(p)[u] = rewards[u] - debts_of(p)[u]
      BY <3>1 DEF claims_of, claimable, shares_of, debts_of
    <3> HIDE DEF rewards
    <3> QED
      BY <3>1, <3>2
  <2> HIDE DEF H
  <2> QED
    BY <1>2, <1>7, <2>1, SumInt
<1>11. surplus(p) = R - info.total_rewards_useable - total_borrowed(p)
  BY DEF surplus
<1> DEFINE C == SumFunctionOnSet(claims_of(p), H)
<1>12. C <= info.total_rewards_useable + surplus(p) + slack
  <2> HIDE DEF C, X, R, slack, info
  <2> QED
    BY <1>1, <1>5, <1>8, <1>9, <1>10, <1>11 DEF C, X, R
<1> QED
  BY <1>12

(* The holders of a pool can claim no more than the pool has, beyond         *)
(* rounding and the forgiven debts, after any calls in any order.            *)
THEOREM PoolCoversClaims == Spec => []ClaimsAreCovered
<1>1. TypeOK /\ SharesAddUp /\ DebtsAreVirtual /\ NoSharesNoDebt => ClaimsAreCovered
  BY CoveredFromCounters DEF ClaimsAreCovered
<1> QED
  BY <1>1, CountersAgree, LeaversOweNothing, PTL

(* rounding computes a natural.                                              *)
LEMMA RoundingType ==
    ASSUME NEW info, NEW after, info.total_rewards \in Nat,
           after.total_rewards \in Nat, after.total_shares \in Nat
    PROVE  rounding(info, after) \in Nat
<1> DEFINE n == info.total_rewards + after.total_rewards + after.total_shares
<1>1. n \in Nat /\ DIV \in Nat \ {0}
  BY PoolAssumption, CurrencyAssumption
<1>2. n \div DIV \in Nat
  BY <1>1, Division, Zenon
<1> HIDE DEF n
<1>3. 3 + (n \div DIV) \in Nat
  BY <1>2
<1> QED
  BY <1>3, Zenon DEF rounding, n

(* A holder whose share of the rewards is hardly diluted loses no more than  *)
(* rounding.                                                                 *)
LEMMA HolderLoss ==
    ASSUME NEW was \in PoolInfo, NEW info \in PoolInfo, NEW after \in PoolInfo,
           NEW shares \in Nat \ {0},
           was.total_shares = info.total_shares, was.total_rewards <= info.total_rewards,
           info.total_shares # 0, after.total_shares # 0,
           hardly_diluted(info, after, shares)
    PROVE  calc_reward_by_shares(was, shares)
              <= calc_reward_by_shares(after, shares) + rounding(info, after)
<1> DEFINE x == calc_reward_by_shares(was, shares)
           y == calc_reward_by_shares(after, shares)
           S == info.total_shares
           T == after.total_shares
           R == info.total_rewards
           Q == after.total_rewards
           e == nearest(shares * DIV)
<1>1. /\ x \in Nat /\ y \in Nat
      /\ S \in Nat \ {0} /\ T \in Nat \ {0} /\ R \in Nat /\ Q \in Nat
      /\ was.total_rewards \in Nat /\ DIV \in Nat \ {0} /\ e \in {0, 1}
  BY RewardType, PoolAssumption, CurrencyAssumption DEF PoolInfo, Balance, nearest
<1>2. PICK f \in Nat : rounded_ratio(was, shares, f) /\ rounded_reward(was, f, x)
  BY RewardRounded, Zenon
<1>3. PICK g \in Nat : rounded_ratio(after, shares, g) /\ rounded_reward(after, g, y)
  BY RewardRounded, Zenon
<1>4. /\ 2 * (S * f) <= 2 * (shares * DIV) + e * S
      /\ 2 * (T * g) >= 2 * (shares * DIV) - (2 - e) * T
      /\ 2 * (DIV * x) <= 2 * (f * was.total_rewards) + DIV
      /\ 2 * (DIV * y) >= 2 * (g * Q) - 2 * DIV
  BY <1>2, <1>3, Zenon DEF rounded_ratio, rounded_reward
<1>5. 2 * (shares * (DIV * (R * T - Q * S))) <= (S * T) * (2 * DIV + 2 * T + R)
  BY DEF hardly_diluted
<1>6. was.total_rewards <= R
  OBVIOUS
<1> HIDE DEF x, y, S, T, R, Q, e
<1>7. f * R - g * Q <= DIV + T + R + Q
  <2>1. shares \in Nat
    OBVIOUS
  <2> QED
    BY <1>1, <1>4, <1>5, <2>1, RatioLoss, Zenon
<1>8. x <= y + 3 + ((R + Q + T) \div DIV)
  <2>1. T \in Nat
    BY <1>1
  <2> QED
    BY <1>1, <1>4, <1>6, <1>7, <2>1, RewardLoss, Zenon
<1>9. (R + Q + T) \div DIV \in Nat
  <2>1. R + Q + T \in Nat
    BY <1>1
  <2> QED
    BY <1>1, <2>1, Division, Zenon
<1>10. x <= y + (3 + ((R + Q + T) \div DIV))
  BY <1>1, <1>8, <1>9
<1> QED
  BY <1>10, Zenon DEF rounding, x, y, S, T, R, Q

(* add_share hardly dilutes the other holders.                               *)
LEMMA AddHardlyDilutes ==
    ASSUME NEW info \in PoolInfo, NEW after \in PoolInfo, NEW amount \in Nat,
           NEW shares \in Nat, shares <= info.total_shares, info.total_shares # 0,
           after.total_shares = info.total_shares + amount,
           after.total_rewards = info.total_rewards + virtual_reward(info, amount)
    PROVE  hardly_diluted(info, after, shares)
<1> DEFINE S == info.total_shares
           R == info.total_rewards
           p == multiply_by_rational(R, DIV, S)
           v == multiply_by_rational(p, amount, DIV)
<1>1. S \in Nat \ {0} /\ R \in Nat /\ DIV \in Nat \ {0}
  BY PoolAssumption, CurrencyAssumption DEF PoolInfo, Balance
<1>2. p \in Nat
  BY <1>1, MultiplyType, Zenon
<1>3. v \in Nat
  BY <1>1, <1>2, MultiplyType, Zenon
<1>4. virtual_reward(info, amount) = v
  BY <1>1 DEF virtual_reward, share_price, checked_mul_int, checked_from_rational
<1>5. /\ 2 * (S * p) >= 2 * (R * DIV) - (2 - nearest(R * DIV)) * S
      /\ 2 * (DIV * v) >= 2 * (p * amount) - (2 - nearest(p * amount)) * DIV
  <2>1. DIV \in Nat
    BY <1>1
  <2> QED
    BY <1>1, <1>2, <2>1, Rounded, Zenon
<1>6. nearest(R * DIV) \in {0, 1} /\ nearest(p * amount) \in {0, 1}
  BY DEF nearest
<1>7. after.total_shares = S + amount /\ after.total_rewards = R + v /\ shares <= S
  BY <1>4, Zenon
<1> HIDE DEF S, R, p, v
<1>8. S * p >= R * DIV - S
  <2>1. (2 - nearest(R * DIV)) * S <= 2 * S
    BY <1>1, <1>6
  <2> QED
    BY <1>1, <1>2, <1>5, <1>6, <2>1
<1>9. DIV * v >= p * amount - DIV
  <2>1. (2 - nearest(p * amount)) * DIV <= 2 * DIV
    BY <1>1, <1>6
  <2> QED
    BY <1>1, <1>2, <1>3, <1>5, <1>6, <2>1
<1>10. 2 * (shares * (DIV * (R * (S + amount) - (R + v) * S)))
          <= (S * (S + amount)) * (2 * DIV + 2 * (S + amount) + R)
  BY <1>1, <1>2, <1>3, <1>7, <1>8, <1>9, AddDilution, Zenon
<1> QED
  BY <1>7, <1>10, Zenon DEF hardly_diluted, S, R

(* What remove_share does to the shares and the rewards of a pool.           *)
LEMMA RemovalFields ==
    ASSUME NEW info, NEW data, NEW amount, NEW after,
           after = pool_after_removal(info, data, amount)
    PROVE  /\ after.total_shares = info.total_shares - amount
           /\ \/ after.total_rewards = info.total_rewards
              \/ after.total_rewards = info.total_rewards - calc_reward_by_shares(info, amount)
  BY DEF pool_after_removal

(* remove_share hardly dilutes the other holders, whether the reward is sent *)
(* or stays in the pool.                                                     *)
LEMMA RemovalHardlyDilutes ==
    ASSUME NEW info \in PoolInfo, NEW after \in PoolInfo, NEW amount \in Nat \ {0},
           NEW shares \in Nat, shares + amount <= info.total_shares,
           after.total_shares = info.total_shares - amount,
           \/ after.total_rewards = info.total_rewards
           \/ after.total_rewards = info.total_rewards - calc_reward_by_shares(info, amount)
    PROVE  hardly_diluted(info, after, shares)
<1> DEFINE S == info.total_shares
           R == info.total_rewards
           T == after.total_shares
           w == calc_reward_by_shares(info, amount)
<1>1. /\ S \in Nat \ {0} /\ R \in Nat /\ T \in Nat /\ DIV \in Nat \ {0}
      /\ w \in Nat /\ T = S - amount
  BY PoolAssumption, CurrencyAssumption, RewardType DEF PoolInfo, Balance
<1>2. CASE after.total_rewards = R
  <2> HIDE DEF S, R, T, w
  <2>1. R * T - R * S = 0 - R * amount
    BY <1>1
  <2>2. DIV * (R * T - R * S) <= 0
    BY <1>1, <2>1
  <2>3. shares * (DIV * (R * T - R * S)) <= 0
    <3> DEFINE k == DIV * (R * T - R * S)
    <3>1. k \in Int /\ k <= 0
      BY <1>1, <2>2
    <3> HIDE DEF k
    <3>2. shares * k <= shares * 0
      BY <3>1, Products
    <3>3. shares * k <= 0
      BY <3>2
    <3> QED
      BY <3>3 DEF k
  <2>4. (S * T) * (2 * DIV + 2 * T + R) >= 0
    BY <1>1
  <2>5. 2 * (shares * (DIV * (R * T - R * S))) <= (S * T) * (2 * DIV + 2 * T + R)
    BY <1>1, <2>3, <2>4
  <2> QED
    BY <1>2, <2>5, Zenon DEF hardly_diluted, S, R, T
<1>3. CASE after.total_rewards = R - w
  <2>1. PICK p \in Nat : rounded_ratio(info, amount, p) /\ rounded_reward(info, p, w)
    <3>1. info.total_shares # 0
      BY <1>1
    <3> QED
      BY <3>1, RewardRounded, Zenon
  <2>2. /\ 2 * (S * p) <= 2 * (amount * DIV) + nearest(amount * DIV) * S
        /\ 2 * (DIV * w) <= 2 * (p * R) + DIV
    BY <2>1, Zenon DEF rounded_ratio, rounded_reward
  <2>3. nearest(amount * DIV) \in {0, 1}
    BY DEF nearest
  <2>4. shares + amount <= S /\ amount \in Nat
    OBVIOUS
  <2> HIDE DEF S, R, T, w
  <2>5. 2 * (S * p) <= 2 * (amount * DIV) + S
    <3>1. nearest(amount * DIV) * S <= S
      BY <1>1, <2>3
    <3> QED
      BY <1>1, <2>2, <2>3, <3>1
  <2>6. 2 * (shares * (DIV * (R * (S - amount) - (R - w) * S)))
           <= (S * (S - amount)) * (2 * DIV + 2 * (S - amount) + R)
    BY <1>1, <2>2, <2>4, <2>5, RemovalDilution, Zenon
  <2> QED
    BY <1>1, <1>3, <2>6, Zenon DEF hardly_diluted, S, R, T
<1> QED
  BY <1>2, <1>3

\* A step costs the holder u of p no more than rounding.
keeps_rewards(u, p) ==
    claimable(Pools[p], PoolAccountData[p][u])
       <= claimable(Pools'[p], PoolAccountData[p][u])
             + rounding(calc_pool_reward(p), Pools'[p])

(* A call costs the other holders of its pool no more than rounding.         *)
LEMMA CallKeepsRewards ==
    ASSUME TypeOK, SharesAddUp, NEW who \in Users, NEW p \in PoolIds, Call(who, p),
           NEW u \in Users, PoolAccountData[p][u].shares > 0,
           PoolAccountData'[p][u] = PoolAccountData[p][u]
    PROVE  keeps_rewards(u, p)
<1> DEFINE was == Pools[p]
           info == calc_pool_reward(p)
           after == Pools'[p]
           data == PoolAccountData[p][u]
           had == PoolAccountData[p][who]
<1>1. calc_pool_reward_succeeds(p)
  BY DEF Call, add_share, may_add_share, remove_share, may_remove_share, claim_nothing,
         claim_rewards
<1>2. TypeOK'
  <2>1. [Next]_vars
    BY DEF Next
  <2> QED
    BY <2>1, NextType
<1>3. /\ was \in PoolInfo /\ info \in PoolInfo /\ after \in PoolInfo
      /\ data \in PoolAccountInfo /\ had \in PoolAccountInfo /\ pool_reward(p) \in Nat
  BY <1>1, <1>2, UpdateType DEF TypeOK
<1>4. /\ was.total_shares = info.total_shares
      /\ was.total_rewards <= info.total_rewards
  <2>1. was.total_rewards \in Nat
    BY <1>3, CurrencyAssumption DEF PoolInfo, Balance
  <2> QED
    BY <1>3, <2>1 DEF calc_pool_reward
<1>5. /\ data.shares \in Nat \ {0} /\ had.shares \in Nat
      /\ info.total_shares \in Nat /\ info.total_rewards \in Nat
      /\ after.total_shares \in Nat /\ data.borrowed_amount \in Nat
  BY <1>3, PoolAssumption, CurrencyAssumption DEF PoolInfo, PoolAccountInfo, Balance
<1>6. /\ data.shares <= info.total_shares
      /\ who # u => data.shares + had.shares <= info.total_shares
  <2>1. /\ \A y \in Users : shares_of(p)[y] \in Nat
        /\ shares_of(p)[u] = data.shares /\ shares_of(p)[who] = had.shares
    BY PoolAssumption DEF TypeOK, PoolAccountInfo, shares_of
  <2>2. SumFunctionOnSet(shares_of(p), Users) = info.total_shares
    BY <1>4, PoolSums, Zenon DEF SharesAddUp, shares_of
  <2>3. /\ shares_of(p)[u] <= SumFunctionOnSet(shares_of(p), Users)
        /\ who # u => shares_of(p)[u] + shares_of(p)[who]
                         <= SumFunctionOnSet(shares_of(p), Users)
    BY <2>1, SumBound, SumBoundTwo, UsersFinite
  <2> QED
    BY <2>1, <2>2, <2>3, Zenon
<1>7. after.total_shares # 0 /\ hardly_diluted(info, after, data.shares)
  <2>1. ASSUME NEW amount \in Shares, add_share(who, p, amount)
        PROVE  after.total_shares # 0 /\ hardly_diluted(info, after, data.shares)
    <3>1. /\ after.total_shares = info.total_shares + amount
          /\ after.total_rewards = info.total_rewards + virtual_reward(info, amount)
      BY <2>1 DEF add_share, TypeOK
    <3>2. amount \in Nat
      BY PoolAssumption
    <3>3. info.total_shares # 0 /\ after.total_shares # 0
      <4> HIDE DEF info, after, data
      <4> QED
        BY <1>5, <1>6, <3>1, <3>2
    <3> HIDE DEF info, after, data
    <3> QED
      BY <1>3, <1>5, <1>6, <3>1, <3>2, <3>3, AddHardlyDilutes
  <2>2. ASSUME NEW amount \in Shares, remove_share(who, p, amount)
        PROVE  after.total_shares # 0 /\ hardly_diluted(info, after, data.shares)
    <3>1. after = pool_after_removal(info, had, amount)
      BY <2>2, Zenon DEF remove_share, TypeOK
    <3>2. /\ after.total_shares = info.total_shares - amount
          /\ \/ after.total_rewards = info.total_rewards
             \/ after.total_rewards = info.total_rewards - calc_reward_by_shares(info, amount)
      <4> HIDE DEF info, after, had
      <4> QED
        BY <3>1, RemovalFields
    <3>3. amount \in Nat \ {0} /\ amount <= had.shares
      BY <2>2, PoolAssumption
      DEF remove_share, may_remove_share, get_rewards_by_account_shares_succeeds, may_remove
    <3>4. who # u
      <4>1. PoolAccountData'[p][who].shares = had.shares - amount
        BY <2>2, Zenon DEF remove_share, TypeOK
      <4>2. had.shares - amount # had.shares
        <5> HIDE DEF had
        <5> QED
          BY <1>5, <3>3
      <4> QED
        BY <4>1, <4>2, Zenon
    <3>5. data.shares + amount <= info.total_shares /\ after.total_shares # 0
      <4> HIDE DEF info, after, data, had
      <4> QED
        BY <1>5, <1>6, <3>2, <3>3, <3>4
    <3> HIDE DEF info, after, data
    <3> QED
      BY <1>3, <1>5, <3>2, <3>3, <3>5, RemovalHardlyDilutes
  <2>3. ASSUME claim_nothing(who, p) \/ claim_rewards(who, p)
        PROVE  after.total_shares # 0 /\ hardly_diluted(info, after, data.shares)
    <3>1. /\ after.total_shares = info.total_shares
          /\ after.total_rewards = info.total_rewards
      BY <1>3, <2>3 DEF claim_nothing, claim_rewards, TypeOK, PoolInfo
    <3>2. DIV \in Nat /\ info.total_shares # 0
      <4> HIDE DEF info, data
      <4> QED
        BY <1>5, <1>6, PoolAssumption, CurrencyAssumption
    <3> DEFINE S == info.total_shares
               R == info.total_rewards
               s == data.shares
    <3>3. S \in Nat /\ R \in Nat /\ s \in Nat
      BY <1>5
    <3> HIDE DEF S, R, s
    <3>4. 2 * (s * (DIV * (R * S - R * S))) <= (S * S) * (2 * DIV + 2 * S + R)
      <4>1. 2 * (s * (DIV * (R * S - R * S))) = 0
        BY <3>2, <3>3
      <4>2. (S * S) * (2 * DIV + 2 * S + R) >= 0
        BY <3>2, <3>3
      <4> QED
        BY <4>1, <4>2
    <3> QED
      BY <3>1, <3>2, <3>4, Zenon DEF hardly_diluted, S, R, s
  <2> QED
    BY <2>1, <2>2, <2>3 DEF Call
<1>8. info.total_shares # 0
  <2> HIDE DEF info, data
  <2> QED
    BY <1>5, <1>6
<1> DEFINE x == calc_reward_by_shares(was, data.shares)
           y == calc_reward_by_shares(after, data.shares)
           z == rounding(info, after)
<1>9. x <= y + z
  <2> HIDE DEF was, info, after, data
  <2> QED
    BY <1>3, <1>4, <1>5, <1>7, <1>8, HolderLoss
<1>10. x \in Nat /\ y \in Nat /\ z \in Nat
  <2>1. after.total_rewards \in Nat /\ data.shares \in Nat
    BY <1>3, <1>5, CurrencyAssumption DEF PoolInfo, Balance
  <2> HIDE DEF was, info, after, data
  <2>2. x \in Nat /\ y \in Nat
    BY <1>3, <2>1, RewardType, Zenon
  <2>3. z \in Nat
    BY <1>5, <2>1, RoundingType, Zenon
  <2> QED
    BY <2>2, <2>3
<1>11. x - data.borrowed_amount <= y - data.borrowed_amount + z
  <2> HIDE DEF x, y, z, data
  <2> QED
    BY <1>5, <1>9, <1>10
<1> QED
  BY <1>11, Zenon DEF keeps_rewards, claimable

(* Every step costs the holders that it leaves alone no more than rounding.  *)
LEMMA StepKeepsRewards ==
    ASSUME TypeOK, SharesAddUp, [Next]_vars, NEW u \in Users, NEW p \in PoolIds,
           PoolAccountData[p][u].shares > 0,
           PoolAccountData'[p][u] = PoolAccountData[p][u]
    PROVE  keeps_rewards(u, p)
<1>1. ASSUME Pools'[p] = Pools[p]
      PROVE  keeps_rewards(u, p)
  <2> DEFINE x == claimable(Pools[p], PoolAccountData[p][u])
             z == rounding(calc_pool_reward(p), Pools[p])
  <2>1. /\ Pools[p] \in PoolInfo /\ PoolAccountData[p][u].shares \in Nat
        /\ PoolAccountData[p][u].borrowed_amount \in Nat
    BY PoolAssumption, CurrencyAssumption DEF TypeOK, PoolAccountInfo, Balance
  <2>2. x \in Int
    BY <2>1, RewardType DEF claimable
  <2>3. z \in Nat
    <3>1. pool_reward(p) \in Nat
      BY HandlerAssumption, CurrencyAssumption DEF pool_reward, TypeOK, PoolInfo, Balance
    <3>2. Pools[p].total_rewards \in Nat /\ Pools[p].total_shares \in Nat
      BY <2>1, PoolAssumption, CurrencyAssumption DEF PoolInfo, Balance
    <3>3. calc_pool_reward(p).total_rewards \in Nat
      BY <3>1, <3>2 DEF calc_pool_reward
    <3> QED
      BY <3>2, <3>3, RoundingType
  <2>4. x <= x + z
    <3> HIDE DEF x, z
    <3> QED
      BY <2>2, <2>3
  <2> QED
    BY <1>1, <2>4, Zenon DEF keeps_rewards
<1>2. ASSUME NEW who \in Users, NEW pool \in PoolIds, Call(who, pool)
      PROVE  keeps_rewards(u, p)
  <2>1. CASE pool = p
    BY <1>2, <2>1, CallKeepsRewards
  <2>2. CASE pool # p
    <3>1. PICK info \in PoolInfo, data \in PoolAccountInfo :
             Pools' = [Pools EXCEPT ![pool] = info]
      BY <1>2, CallSummary
    <3>2. Pools'[p] = Pools[p]
      BY <2>2, <3>1 DEF TypeOK
    <3> QED
      BY <1>1, <3>2
  <2> QED
    BY <2>1, <2>2
<1> QED
  BY <1>1, <1>2 DEF Next, NextBlock, vars

(* What one holder does costs the others no more than rounding, whatever the *)
(* calls before it: shares are added at a price and removed with a part of   *)
(* the rewards that leave the rewards per share of the others where they     *)
(* were, up to one part in DIV of what the ratios are applied to.            *)
THEOREM OthersLoseRoundingOnly == Spec => OthersKeepTheirRewards
<1>1. ASSUME TypeOK, SharesAddUp, [Next]_vars
      PROVE  \A u \in Users, p \in PoolIds :
                PoolAccountData[p][u].shares > 0 /\ PoolAccountData'[p][u] = PoolAccountData[p][u] =>
                   claimable(Pools[p], PoolAccountData[p][u]) <=
                      claimable(Pools'[p], PoolAccountData[p][u])
                         + rounding(calc_pool_reward(p), Pools'[p])
  BY <1>1, StepKeepsRewards, Zenon DEF keeps_rewards
<1> QED
  BY <1>1, CountersAgree, PTL DEF Spec, OthersKeepTheirRewards

=============================================================================
