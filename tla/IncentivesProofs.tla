-------------------------- MODULE IncentivesProofs --------------------------
(***************************************************************************)
(* Proofs about the incentives pallet over the reward pools, for every     *)
(* number of users, currencies and rewards: the pallet implements the pool *)
(* of RewardPool; the queries promise what is paid, in any order of the    *)
(* currencies of a pair; without an existential deposit every block is     *)
(* granted once and no step after the first write of a call fails; and a   *)
(* holder that a pool refuses its reward is refused it until someone joins *)
(* the pool.                                                               *)
(***************************************************************************)
EXTENDS Incentives, RewardPoolProofs

USE SMTT(30)

-----------------------------------------------------------------------------
(* The incentives pallet over the reward pools.                              *)

(* PairKey gives the same pool for both orders of two currencies.            *)
LEMMA PairKeySymmetric ==
    ASSUME NEW first \in CurrencyIds, NEW second \in CurrencyIds, IsPair(first, second)
    PROVE  /\ PairKey(first, second) = PairKey(second, first)
           /\ PairKey(first, second) \in PoolIds
<1>1. first \in Nat /\ second \in Nat /\ first # second
  BY DexRewardsAssumption DEF IsPair
<1>2. PairKey(first, second) = PairKey(second, first)
  BY <1>1 DEF PairKey
<1>3. <<first, second>> \in CurrencyPairs
  BY DEF CurrencyPairs
<1>4. PairKey(first, second) \in PoolIds
  BY <1>3, DexRewardsAssumption
<1> QED
  BY <1>2, <1>4

(* Every call of the incentives pallet is a call of the reward pool.         *)
LEMMA IncentiveStep ==
    ASSUME [IncentiveNext]_incentiveVars
    PROVE  [Next]_vars
<1>1. CASE EndBlock
  BY <1>1 DEF EndBlock, Next
<1>2. ASSUME NEW who \in Users, NEW first \in CurrencyIds, NEW second \in CurrencyIds,
             NEW amount \in Shares,
             AddShare(who, first, second, amount) \/ RemoveShare(who, first, second, amount)
      PROVE  Next
  BY <1>2, PairKeySymmetric DEF AddShare, RemoveShare, Next, Call
<1>3. ASSUME NEW who \in Users, NEW first \in CurrencyIds, NEW second \in CurrencyIds,
             ClaimRewards(who, first, second)
      PROVE  Next
  BY <1>3, PairKeySymmetric DEF ClaimRewards, Next, Call
<1>4. CASE UNCHANGED incentiveVars
  BY <1>4 DEF incentiveVars
<1> QED
  BY <1>1, <1>2, <1>3, <1>4 DEF IncentiveNext

(* The incentives pallet implements the reward pool: whatever users do with  *)
(* pairs of currencies is a behaviour of the pools, so that what is proved   *)
(* of Spec holds of IncentiveSpec.                                           *)
THEOREM IncentivesImplementPool == IncentiveSpec => Spec
<1>1. IncentiveInit => Init
  BY DEF IncentiveInit
<1>2. [IncentiveNext]_incentiveVars => [Next]_vars
  BY IncentiveStep
<1> QED
  BY <1>1, <1>2, PTL DEF IncentiveSpec, Spec

(* Only a remove_share of all shares takes a holder's shares to zero, and it *)
(* pays what get_accumlated_rewards computes before it.                      *)
LEMMA StepPaysPromise ==
    ASSUME TypeOK, [Next]_vars, NEW who \in Users,
           NEW first \in CurrencyIds, NEW second \in CurrencyIds,
           get_account_shares(who, first, second) > 0,
           get_account_shares(who, second, first)' = 0
    PROVE  free'[who] = free[who] + get_account_info(who, first, second).accumlated_rewards
<1> DEFINE pool == PairKey(first, second)
           had == PoolAccountData[pool][who]
<1>1. /\ IsPair(first, second) /\ pool \in PoolIds
      /\ had \in PoolAccountInfo
      /\ had.shares \in Nat /\ had.shares > 0
      /\ PoolAccountData'[pool][who].shares = 0
  <2>1. IsPair(first, second)
    BY DEF get_account_shares
  <2>2. pool \in PoolIds
    BY <2>1, PairKeySymmetric
  <2>3. PairKey(second, first) = pool /\ IsPair(second, first)
    BY <2>1, PairKeySymmetric DEF IsPair
  <2> QED
    BY <2>1, <2>2, <2>3, PoolAssumption DEF get_account_shares, TypeOK, PoolAccountInfo
<1>2. PoolAccountData' # PoolAccountData
  BY <1>1
<1>3. PICK u \in Users, q \in PoolIds : Call(u, q)
  BY <1>2 DEF Next, NextBlock, vars
<1>4. PICK amount \in Shares : remove_share(u, q, amount)
  <2>1. ASSUME NEW amount \in Shares, add_share(u, q, amount)
        PROVE  FALSE
    <3>1. \/ PoolAccountData'[pool][who] = had
          \/ PoolAccountData'[pool][who].shares = had.shares + amount
      BY <1>1, <2>1 DEF add_share, TypeOK
    <3>2. amount \in Nat
      BY PoolAssumption
    <3> QED
      BY <1>1, <3>1, <3>2
  <2>2. ~claim_nothing(u, q)
    BY <1>2 DEF claim_nothing
  <2>3. ASSUME claim_rewards(u, q)
        PROVE  FALSE
    <3>1. PoolAccountData'[pool][who].shares = had.shares
      BY <1>1, <2>3 DEF claim_rewards, TypeOK
    <3> QED
      BY <1>1, <3>1
  <2> QED
    BY <1>3, <2>1, <2>2, <2>3 DEF Call
<1>5. q = pool /\ u = who /\ amount = had.shares
  <2>1. PoolAccountData' = [PoolAccountData EXCEPT ![q][u] =
           [shares |-> PoolAccountData[q][u].shares - amount,
            borrowed_amount |-> PoolAccountData[q][u].borrowed_amount
                                   - account_balance_to_remove(PoolAccountData[q][u], amount)]]
    BY <1>4 DEF remove_share
  <2>2. q = pool /\ u = who
    BY <1>1, <2>1 DEF TypeOK
  <2>3. PoolAccountData'[pool][who].shares = had.shares - amount
    BY <1>1, <2>1, <2>2 DEF TypeOK
  <2>4. amount \in Nat
    BY PoolAssumption
  <2> QED
    BY <1>1, <2>2, <2>3, <2>4
<1>6. /\ may_remove_share(who, pool, had.shares)
      /\ free' = transfer(update_balance(pool), sub_account_id(pool), who,
                          reward_sent(calc_pool_reward(pool), had, had.shares))
  BY <1>4, <1>5 DEF remove_share
<1>7. update_balance(pool)[who] = free[who] /\ update_balance(pool) \in [Accounts -> Balance]
  <2>1. who \in Accounts /\ who # sub_account_id(pool)
    BY <1>1, PoolAssumption
  <2>2. calc_pool_reward_succeeds(pool)
    BY <1>6 DEF may_remove_share
  <2> QED
    BY <1>1, <2>1, <2>2, UpdateType DEF update_balance, deposit_creating, TypeOK
<1>8. free'[who] = free[who] + reward_sent(calc_pool_reward(pool), had, had.shares)
  BY <1>6, <1>7, PoolAssumption DEF transfer
<1>9. get_accumlated_rewards(who, first, second)
         = reward_sent(calc_pool_reward(pool), had, had.shares)
  BY <1>1, <1>6, Zenon DEF get_accumlated_rewards
<1>10. get_account_info(who, first, second).accumlated_rewards
          = get_accumlated_rewards(who, first, second)
  BY DEF get_account_info
<1> QED
  BY <1>8, <1>9, <1>10

(* What get_account_info answers a holder right before it removes all its    *)
(* shares is what the removal pays, in whichever orders the two name the     *)
(* currencies: the query and the removal bring the pool up to date and round *)
(* each for itself.                                                          *)
THEOREM PromiseKept == IncentiveSpec => PromiseIsPaid
<1>1. TypeOK /\ [IncentiveNext]_incentiveVars =>
        [\A who \in Users, first, second \in CurrencyIds :
            (/\ get_account_shares(who, first, second) > 0
             /\ get_account_shares(who, second, first)' = 0)
            => free'[who] = free[who]
                  + get_account_info(who, first, second).accumlated_rewards]_incentiveVars
  BY IncentiveStep, StepPaysPromise
<1> QED
  BY <1>1, IncentivesImplementPool, TypeCorrect, PTL DEF IncentiveSpec, PromiseIsPaid

-----------------------------------------------------------------------------
(* Every block is granted once, when there is no existential deposit and all *)
(* that can be granted fits the balance type, what one pool can be granted   *)
(* the signed one.  The inductive invariant ties the block of the last       *)
(* update to the blocks that a pool has been active.                         *)

key(d) == PairKey(d[1], d[2])
grants == [d \in dex_rewards |-> d[3] * (active[key(d)] - pending(key(d)))]
(* The grants once the pool has been brought up to date.                     *)
grants_with(pool) ==
    [d \in dex_rewards |-> d[3] * (active[key(d)] - (IF key(d) = pool THEN 0 ELSE pending(key(d))))]

GrantInv ==
    /\ TypeOK /\ PoolIsBacked
    /\ active \in [PoolIds -> 0 .. block]
    /\ \A p \in PoolIds : Pools[p].last_update_block <= block /\ pending(p) <= active[p]
    /\ SumFunctionOnSet(free, Accounts) = SumFunctionOnSet(grants, dex_rewards)

(* The genesis configuration gives every rewarded pair a pool of its own.    *)
LEMMA DexPools ==
    ASSUME NEW d \in dex_rewards
    PROVE  /\ key(d) \in PoolIds
           /\ d[3] \in Nat /\ d[3] > 0
           /\ \A e \in dex_rewards : key(e) = key(d) => e = d
<1>1. d \in CurrencyIds \X CurrencyIds \X (1 .. MaxBalance) /\ IsPair(d[1], d[2])
  BY DexRewardsAssumption
<1>2. d[1] \in CurrencyIds /\ d[2] \in CurrencyIds /\ d[3] \in 1 .. MaxBalance
  BY <1>1
<1>3. key(d) \in PoolIds
  BY <1>1, <1>2, PairKeySymmetric DEF key
<1>4. \A e \in dex_rewards : key(e) = key(d) => e = d
  BY DexRewardsAssumption DEF key
<1> QED
  BY <1>2, <1>3, <1>4, CurrencyAssumption

(* Grants that fit are rewards that fit the signed type that mints them:     *)
(* no span of blocks is longer than the whole chain.                         *)
LEMMA GrantsAreAmounts ==
    ASSUME GrantsFit
    PROVE  RewardsFit
<1> SUFFICES ASSUME NEW p \in PoolIds, NEW s \in 0 .. MaxShare,
                    NEW from \in 0 .. MaxBlock, NEW to \in 0 .. MaxBlock
             PROVE  dex_reward(p, s, from, to) <= MaxAmount
  BY IncentivesIsTheHandler DEF RewardsFit
<1>1. MaxAmount \in Nat /\ MaxBalance \in Nat /\ MaxBlock \in Nat
  BY PoolAssumption, CurrencyAssumption DEF MaxAmount
<1>2. CASE s = 0 \/ DexIncentiveRewards(p) = {} \/ from >= to
  BY <1>1, <1>2 DEF dex_reward
<1>3. CASE ~(s = 0 \/ DexIncentiveRewards(p) = {} \/ from >= to)
  <2> DEFINE ratio == CHOOSE r \in DexIncentiveRewards(p) : TRUE
             product == ratio * (to - from)
  <2>1. ratio \in DexIncentiveRewards(p)
    BY <1>3
  <2>2. PICK d \in dex_rewards : ratio = d[3]
    BY <2>1 DEF DexIncentiveRewards
  <2>3. /\ product <= d[3] * MaxBlock /\ product \in Int
        /\ d[3] * MaxBlock \in Int /\ d[3] * MaxBlock <= MaxAmount
    <3>1. d[3] \in Nat /\ to - from \in Int /\ to - from <= MaxBlock
      BY <1>1, DexPools
    <3> HIDE DEF ratio
    <3>2. d[3] * (to - from) <= d[3] * MaxBlock /\ d[3] * (to - from) \in Int
          /\ d[3] * MaxBlock \in Int
      BY <1>1, <3>1, Products
    <3> QED
      BY <2>2, <3>2 DEF GrantsFit
  <2>4. dex_reward(p, s, from, to) = IF product > MaxBalance THEN MaxBalance ELSE product
    BY <1>3, Zenon DEF dex_reward
  <2> HIDE DEF product
  <2> QED
    BY <1>1, <2>3, <2>4
<1> QED
  BY <1>2, <1>3

(* The sums of the invariant are over integers.                              *)
LEMMA GrantsType ==
    ASSUME GrantInv, NEW pool \in PoolIds
    PROVE  /\ \A p \in PoolIds : active[p] \in Int /\ pending(p) \in Int
           /\ \A d \in dex_rewards : /\ grants[d] = d[3] * (active[key(d)] - pending(key(d)))
                                     /\ grants[d] \in Int
                                     /\ grants_with(pool)[d] \in Int
           /\ \A d \in dex_rewards : key(d) # pool => grants_with(pool)[d] = grants[d]
           /\ \A d \in dex_rewards : key(d) = pool => grants_with(pool)[d] = d[3] * active[pool]
<1>1. ASSUME NEW p \in PoolIds
      PROVE  active[p] \in Int /\ pending(p) \in Int
  BY DEF GrantInv, TypeOK, PoolInfo, pending
<1>2. ASSUME NEW d \in dex_rewards
      PROVE  /\ grants[d] = d[3] * (active[key(d)] - pending(key(d)))
             /\ grants[d] \in Int
             /\ grants_with(pool)[d] \in Int
             /\ key(d) # pool => grants_with(pool)[d] = grants[d]
             /\ key(d) = pool => grants_with(pool)[d] = d[3] * active[pool]
  <2>1. d[3] \in Int /\ active[key(d)] \in Int /\ pending(key(d)) \in Int
    BY <1>1, DexPools
  <2>2. /\ d[3] * (active[key(d)] - pending(key(d))) \in Int
        /\ d[3] * (active[key(d)] - 0) = d[3] * active[key(d)]
        /\ d[3] * active[key(d)] \in Int
    BY <2>1, Products
  <2> QED
    BY <2>2 DEF grants, grants_with
<1> QED
  BY <1>1, <1>2

(* The reward that brings a pool up to date is that of its pending blocks,   *)
(* at the rate of its pair, and zero when the pair has none.                 *)
LEMMA RewardIsPending ==
    ASSUME GrantInv, GrantsFit, NEW pool \in PoolIds
    PROVE  /\ \A d \in dex_rewards : key(d) = pool => pool_reward(pool) = d[3] * pending(pool)
           /\ (\A d \in dex_rewards : key(d) # pool) => pool_reward(pool) = 0
<1> DEFINE info == Pools[pool]
<1>1. /\ info.total_shares \in 0 .. MaxShare /\ info.last_update_block \in 0 .. MaxBlock
      /\ block \in 0 .. MaxBlock /\ info.last_update_block <= block
      /\ MaxBlock \in Nat /\ MaxShare \in Nat /\ MaxBalance \in Nat
  BY PoolAssumption, CurrencyAssumption DEF GrantInv, TypeOK, PoolInfo
<1>2. caculate_reward(pool, info.total_shares, info.last_update_block, block)
         = dex_reward(pool, info.total_shares, info.last_update_block, block)
  BY <1>1, IncentivesIsTheHandler
<1>3. ASSUME \A d \in dex_rewards : key(d) # pool
      PROVE  pool_reward(pool) = 0
  <2>1. DexIncentiveRewards(pool) = {}
    BY <1>3 DEF DexIncentiveRewards, key
  <2> QED
    BY <1>2, <2>1 DEF dex_reward, pool_reward
<1>4. ASSUME NEW d \in dex_rewards, key(d) = pool
      PROVE  pool_reward(pool) = d[3] * pending(pool)
  <2> DEFINE n == block - info.last_update_block
  <2>1. d[3] \in Nat
    BY DexPools
  <2>2. DexIncentiveRewards(pool) = {d[3]}
    <3>1. {e \in dex_rewards : PairKey(e[1], e[2]) = pool} = {d}
      BY <1>4, DexPools DEF key
    <3> QED
      BY <3>1 DEF DexIncentiveRewards
  <2>3. (CHOOSE r \in DexIncentiveRewards(pool) : TRUE) = d[3]
    BY <2>2
  <2>4. d[3] * n <= MaxBalance /\ d[3] * n \in Int
    <3> DEFINE w == [e \in dex_rewards |-> e[3] * MaxBlock]
    <3>1. \A e \in dex_rewards : w[e] \in Nat
      BY <1>1, DexPools, Products
    <3>2. w[d] <= SumFunctionOnSet(w, dex_rewards)
      <4> HIDE DEF w
      <4> QED
        BY <3>1, SumBound, DexRewardsAssumption
    <3>3. SumFunctionOnSet(w, dex_rewards) <= MaxBalance
      BY DEF GrantsFit, SumFunction
    <3>4. SumFunctionOnSet(w, dex_rewards) \in Nat
      <4> HIDE DEF w
      <4> QED
        BY <3>1, SumNat, DexRewardsAssumption
    <3>5. d[3] * n <= d[3] * MaxBlock /\ d[3] * n \in Int /\ d[3] * MaxBlock \in Int
      BY <1>1, <2>1, Products
    <3> QED
      BY <1>1, <3>2, <3>3, <3>4, <3>5
  <2>5. CASE info.total_shares = 0
    <3>1. pending(pool) = 0
      BY <2>5 DEF pending
    <3>2. pool_reward(pool) = 0
      BY <1>2, <2>5 DEF pool_reward, dex_reward
    <3> QED
      BY <2>1, <3>1, <3>2, Products
  <2>6. CASE info.total_shares # 0
    <3>1. pending(pool) = n
      BY <1>1, <2>6 DEF pending
    <3>2. CASE block <= info.last_update_block
      <4>1. n = 0 /\ pool_reward(pool) = 0
        BY <1>1, <3>2 DEF pool_reward
      <4> QED
        BY <2>1, <3>1, <4>1, Products
    <3>3. CASE ~(block <= info.last_update_block)
      <4>1. ~(info.last_update_block >= block)
        BY <1>1, <3>3
      <4>2. pool_reward(pool) = d[3] * n
        BY <1>1, <1>2, <2>2, <2>3, <2>4, <2>6, <3>3, <4>1 DEF pool_reward, dex_reward
      <4> QED
        BY <3>1, <4>2
    <3> QED
      BY <3>2, <3>3
  <2> QED
    BY <2>5, <2>6
<1> QED
  BY <1>3, <1>4

(* What every call does to its pool and to the balances: it brings the pool  *)
(* up to date, and may pay a reward out of the sub account.                  *)
LEMMA CallMoney ==
    ASSUME TypeOK, NEW who \in Users, NEW pool \in PoolIds, Call(who, pool)
    PROVE  /\ calc_pool_reward_succeeds(pool)
           /\ Pools' = [Pools EXCEPT ![pool] = Pools'[pool]]
           /\ Pools'[pool].last_update_block = calc_pool_reward(pool).last_update_block
           /\ block' = block
           /\ \/ free' = update_balance(pool)
              \/ \E value \in Nat :
                    /\ can_transfer(update_balance(pool), sub_account_id(pool), who, value)
                    /\ free' = transfer(update_balance(pool), sub_account_id(pool), who, value)
<1> DEFINE info == calc_pool_reward(pool)
           data == PoolAccountData[pool][who]
           sub == sub_account_id(pool)
           Paid(value) == /\ can_transfer(update_balance(pool), sub, who, value)
                          /\ free' = transfer(update_balance(pool), sub, who, value)
<1>1. calc_pool_reward_succeeds(pool)
  BY DEF Call, add_share, may_add_share, remove_share, may_remove_share, claim_nothing,
         claim_rewards
<1>2. info \in PoolInfo /\ data \in PoolAccountInfo
  BY <1>1, UpdateType DEF TypeOK
<1>3. CASE \E amount \in Shares : add_share(who, pool, amount)
  BY <1>1, <1>3 DEF add_share, TypeOK
<1>4. ASSUME NEW amount \in Shares, remove_share(who, pool, amount)
      PROVE  /\ Pools' = [Pools EXCEPT ![pool] = Pools'[pool]]
             /\ Pools'[pool].last_update_block = info.last_update_block
             /\ block' = block
             /\ \E value \in Nat : Paid(value)
  <2> DEFINE reward == reward_sent(info, data, amount)
  <2>1. get_rewards_by_account_shares_succeeds(info, data, amount) /\ Paid(reward)
    BY <1>4 DEF remove_share, may_remove_share
  <2>2. reward \in Nat
    <3>1. reward \in 0 .. info.total_rewards_useable
      BY <1>2, <2>1, RemovalType, PoolAssumption, Zenon
    <3>2. info.total_rewards_useable \in Nat
      BY <1>2, CurrencyAssumption DEF PoolInfo, Balance
    <3> QED
      BY <3>1, <3>2
  <2>3. \E value \in Nat : Paid(value)
    BY <2>1, <2>2
  <2> QED
    BY <1>4, <2>3 DEF remove_share, TypeOK, pool_after_removal
<1>5. CASE claim_nothing(who, pool)
  BY <1>1, <1>5 DEF claim_nothing, TypeOK
<1>6. ASSUME claim_rewards(who, pool)
      PROVE  /\ Pools' = [Pools EXCEPT ![pool] = Pools'[pool]]
             /\ Pools'[pool].last_update_block = info.last_update_block
             /\ block' = block
             /\ \E value \in Nat : Paid(value)
  <2> DEFINE actual == claimable(info, data)
  <2>1. data.borrowed_amount <= calc_reward_by_shares(info, data.shares) /\ Paid(actual)
    BY <1>6 DEF claim_rewards
  <2>2. actual \in Nat
    <3>1. data.shares \in Nat /\ data.borrowed_amount \in Nat
      BY <1>2, PoolAssumption, CurrencyAssumption DEF PoolAccountInfo, Balance
    <3>2. calc_reward_by_shares(info, data.shares) \in Nat
      BY <1>2, <3>1, RewardType
    <3> QED
      BY <2>1, <3>1, <3>2 DEF claimable
  <2>3. \E value \in Nat : Paid(value)
    BY <2>1, <2>2
  <2> QED
    BY <1>2, <1>6, <2>3 DEF claim_rewards, TypeOK, PoolInfo
<1> QED
  BY <1>1, <1>3, <1>4, <1>5, <1>6, Zenon DEF Call

(* Minting the reward of a pool adds it to the money there is, and a         *)
(* transfer adds nothing.                                                    *)
LEMMA MoneyOfCall ==
    ASSUME TypeOK, PoolIsBacked, ExistentialDeposit = 0, RewardsFit,
           NEW pool \in PoolIds, calc_pool_reward_succeeds(pool)
    PROVE  /\ SumFunctionOnSet(update_balance(pool), Accounts)
                 = SumFunctionOnSet(free, Accounts) + pool_reward(pool)
           /\ \A who \in Users, value \in Nat :
                 can_transfer(update_balance(pool), sub_account_id(pool), who, value) =>
                    SumFunctionOnSet(transfer(update_balance(pool), sub_account_id(pool), who, value), Accounts)
                       = SumFunctionOnSet(update_balance(pool), Accounts)
<1> DEFINE sub == sub_account_id(pool)
           b == update_balance(pool)
<1>1. /\ sub \in Accounts /\ IsFiniteSet(Accounts)
      /\ free \in [Accounts -> Int] /\ b \in [Accounts -> Int]
  <2>1. free \in [Accounts -> Balance] /\ b \in [Accounts -> Balance]
    BY UpdateType DEF TypeOK
  <2>2. Balance \subseteq Int
    BY CurrencyAssumption DEF Balance
  <2>3. free \in [Accounts -> Int] /\ b \in [Accounts -> Int]
    <3> HIDE DEF b
    <3> QED
      BY <2>1, <2>2, Zenon
  <2> QED
    BY <2>3, PoolAssumption
<1>2. SumFunctionOnSet(b, Accounts) = SumFunctionOnSet(free, Accounts) + pool_reward(pool)
  <2>1. b[sub] = free[sub] + pool_reward(pool)
    BY UpdateBacked DEF PoolIsBacked, calc_pool_reward
  <2>2. \A a \in Accounts \ {sub} : b[a] = free[a]
    BY <1>1 DEF update_balance, deposit_creating
  <2>3. pool_reward(pool) \in Int
    BY UpdateType
  <2>4. SumFunctionOnSet(b, Accounts) = SumFunctionOnSet(free, Accounts) - free[sub] + b[sub]
    <3> HIDE DEF b, sub
    <3> QED
      BY <1>1, <2>2, SumUpdate
  <2>5. SumFunctionOnSet(free, Accounts) \in Int /\ free[sub] \in Int
    BY <1>1, SumInt
  <2> QED
    BY <2>1, <2>3, <2>4, <2>5
<1>3. ASSUME NEW who \in Users, NEW value \in Nat, can_transfer(b, sub, who, value)
      PROVE  SumFunctionOnSet(transfer(b, sub, who, value), Accounts)
                = SumFunctionOnSet(b, Accounts)
  <2>1. who \in Accounts /\ who # sub
    BY PoolAssumption
  <2>2. ~(b[sub] - value < ExistentialDeposit)
    <3>1. b[sub] \in Nat
      BY <1>1, UpdateType, CurrencyAssumption DEF Balance
    <3> QED
      BY <1>3, <3>1 DEF can_transfer
  <2>3. transfer(b, sub, who, value) = [b EXCEPT ![sub] = b[sub] - value, ![who] = b[who] + value]
    BY <2>2 DEF transfer
  <2> DEFINE t == transfer(b, sub, who, value)
  <2>4. b[sub] \in Int /\ b[who] \in Int
    BY <1>1, <2>1
  <2>5. /\ t[sub] = b[sub] - value /\ t[who] = b[who] + value
        /\ \A a \in Accounts \ {sub, who} : t[a] = b[a]
    BY <1>1, <2>1, <2>3
  <2> HIDE DEF b, sub, t
  <2>6. t[sub] + t[who] = b[sub] + b[who]
    BY <2>4, <2>5
  <2>7. \A a \in Accounts : b[a] \in Int /\ t[a] \in Int
    <3>1. t[sub] \in Int /\ t[who] \in Int
      BY <2>4, <2>5
    <3>2. \A a \in Accounts : b[a] \in Int
      BY <1>1
    <3> QED
      BY <2>5, <3>1, <3>2, Zenon
  <2>8. SumFunctionOnSet(t, Accounts) = SumFunctionOnSet(b, Accounts)
    BY <1>1, <2>1, <2>5, <2>6, <2>7, SumMove
  <2> QED
    BY <2>8 DEF t
<1> QED
  BY <1>2, <1>3

(* Bringing a pool up to date adds its reward to what has been granted.      *)
LEMMA GrantsOfCall ==
    ASSUME GrantInv, GrantsFit, NEW pool \in PoolIds
    PROVE  SumFunctionOnSet(grants_with(pool), dex_rewards)
              = SumFunctionOnSet(grants, dex_rewards) + pool_reward(pool)
<1> DEFINE g == grants
           h == grants_with(pool)
<1>1. /\ \A d \in dex_rewards : g[d] \in Int /\ h[d] \in Int
      /\ \A d \in dex_rewards : key(d) # pool => h[d] = g[d]
      /\ IsFiniteSet(dex_rewards)
  BY GrantsType, DexRewardsAssumption
<1>2. SumFunctionOnSet(g, dex_rewards) \in Int
  BY <1>1, SumInt
<1>3. CASE \A d \in dex_rewards : key(d) # pool
  <2>1. SumFunctionOnSet(h, dex_rewards) = SumFunctionOnSet(g, dex_rewards)
    <3> HIDE DEF g, h
    <3> QED
      BY <1>1, <1>3, SumCong
  <2> QED
    BY <1>2, <1>3, <2>1, RewardIsPending
<1>4. ASSUME NEW d \in dex_rewards, key(d) = pool
      PROVE  SumFunctionOnSet(h, dex_rewards) = SumFunctionOnSet(g, dex_rewards) + pool_reward(pool)
  <2>1. \A e \in dex_rewards \ {d} : h[e] = g[e]
    BY <1>1, <1>4, DexPools
  <2>2. SumFunctionOnSet(h, dex_rewards) = SumFunctionOnSet(g, dex_rewards) - g[d] + h[d]
    <3> HIDE DEF g, h
    <3> QED
      BY <1>1, <2>1, SumUpdate
  <2>3. /\ g[d] = d[3] * (active[pool] - pending(pool))
        /\ h[d] = d[3] * active[pool]
        /\ pool_reward(pool) = d[3] * pending(pool)
    BY <1>4, GrantsType, RewardIsPending
  <2>4. d[3] \in Int /\ active[pool] \in Int /\ pending(pool) \in Int
    BY DexPools, GrantsType
  <2>5. h[d] - g[d] = pool_reward(pool) /\ h[d] \in Int /\ g[d] \in Int
    <3>1. d[3] * (active[pool] - pending(pool)) = d[3] * active[pool] - d[3] * pending(pool)
      BY <2>4, Products
    <3>2. d[3] * active[pool] \in Int /\ d[3] * pending(pool) \in Int
      BY <2>4, Products
    <3> QED
      BY <1>1, <2>3, <3>1, <3>2
  <2> QED
    BY <1>2, <2>2, <2>5
<1> QED
  BY <1>3, <1>4

(* Every call keeps the money there is equal to what has been granted.       *)
LEMMA CallGrants ==
    ASSUME GrantInv, GrantsFit, ExistentialDeposit = 0,
           NEW who \in Users, NEW pool \in PoolIds, Call(who, pool), UNCHANGED active
    PROVE  GrantInv'
<1>1. TypeOK /\ PoolIsBacked /\ RewardsFit
  BY GrantsAreAmounts DEF GrantInv
<1>2. TypeOK' /\ PoolIsBacked'
  BY <1>1, NextType, NextBacked DEF Next
<1>3. /\ calc_pool_reward_succeeds(pool)
      /\ Pools' = [Pools EXCEPT ![pool] = Pools'[pool]]
      /\ Pools'[pool].last_update_block = calc_pool_reward(pool).last_update_block
      /\ block' = block /\ active' = active
  BY <1>1, CallMoney
<1>4. Pools'[pool].last_update_block = block
  <2> DEFINE last == Pools[pool].last_update_block
  <2>1. last \in Int /\ block \in Int /\ last <= block
    BY <1>1 DEF GrantInv, TypeOK, PoolInfo
  <2>2. calc_pool_reward(pool).last_update_block = IF block <= last THEN last ELSE block
    BY DEF calc_pool_reward
  <2> HIDE DEF last
  <2> QED
    BY <1>3, <2>1, <2>2
<1>5. \A q \in PoolIds \ {pool} : Pools'[q] = Pools[q]
  BY <1>1, <1>3 DEF TypeOK
<1>6. pending(pool)' = 0 /\ \A q \in PoolIds \ {pool} : pending(q)' = pending(q)
  <2>1. block \in Int
    BY <1>1 DEF TypeOK
  <2> QED
    BY <1>3, <1>4, <1>5, <2>1 DEF pending
<1>7. \A p \in PoolIds : Pools'[p].last_update_block <= block' /\ pending(p)' <= active'[p]
  <2>1. block \in Int /\ active[pool] \in 0 .. block
    BY <1>1 DEF TypeOK, GrantInv
  <2>2. Pools'[pool].last_update_block <= block' /\ pending(pool)' <= active'[pool]
    BY <1>3, <1>4, <1>6, <2>1
  <2>3. ASSUME NEW q \in PoolIds \ {pool}
        PROVE  Pools'[q].last_update_block <= block' /\ pending(q)' <= active'[q]
    <3>1. Pools'[q] = Pools[q] /\ pending(q)' = pending(q)
      BY <1>5, <1>6
    <3>2. Pools[q].last_update_block <= block /\ pending(q) <= active[q]
      BY DEF GrantInv
    <3> QED
      BY <1>3, <3>1, <3>2
  <2> QED
    BY <2>2, <2>3
<1>8. SumFunctionOnSet(grants', dex_rewards) = SumFunctionOnSet(grants_with(pool), dex_rewards)
  <2>1. ASSUME NEW d \in dex_rewards
        PROVE  grants'[d] = grants_with(pool)[d]
    <3>1. grants'[d] = d[3] * (active[key(d)] - pending(key(d))')
      BY <1>3 DEF grants, key
    <3>2. pending(key(d))' = IF key(d) = pool THEN 0 ELSE pending(key(d))
      BY <1>6, DexPools
    <3> QED
      BY <3>1, <3>2 DEF grants_with
  <2> QED
    BY <2>1, DexRewardsAssumption, SumCong
<1>9. SumFunctionOnSet(free', Accounts) = SumFunctionOnSet(free, Accounts) + pool_reward(pool)
  <2>1. CASE free' = update_balance(pool)
    BY <1>1, <1>3, <2>1, MoneyOfCall
  <2>2. ASSUME NEW value \in Nat,
               can_transfer(update_balance(pool), sub_account_id(pool), who, value),
               free' = transfer(update_balance(pool), sub_account_id(pool), who, value)
        PROVE  SumFunctionOnSet(free', Accounts)
                  = SumFunctionOnSet(free, Accounts) + pool_reward(pool)
    BY <1>1, <1>3, <2>2, MoneyOfCall
  <2> QED
    BY <1>1, <2>1, <2>2, CallMoney
<1>10. SumFunctionOnSet(free', Accounts) = SumFunctionOnSet(grants', dex_rewards)
  BY <1>8, <1>9, GrantsOfCall DEF GrantInv
<1>11. active' \in [PoolIds -> 0 .. block']
  BY <1>3 DEF GrantInv
<1> QED
  BY <1>2, <1>7, <1>10, <1>11 DEF GrantInv

(* The end of a block makes it an active block that is still to be granted,  *)
(* for the pools with shares.                                                *)
LEMMA BlockGrants ==
    ASSUME GrantInv, GrantsFit, ExistentialDeposit = 0, EndBlock
    PROVE  GrantInv'
<1>1. /\ TypeOK /\ PoolIsBacked /\ RewardsFit
      /\ NextBlock /\ block' = block + 1 /\ Pools' = Pools /\ free' = free
  BY GrantsAreAmounts DEF GrantInv, EndBlock, NextBlock
<1>2. TypeOK' /\ PoolIsBacked'
  BY <1>1, NextType, NextBacked DEF Next
<1>3. ASSUME NEW p \in PoolIds
      PROVE  /\ active'[p] \in 0 .. block'
             /\ Pools'[p].last_update_block <= block'
             /\ pending(p)' <= active'[p]
             /\ active'[p] - pending(p)' = active[p] - pending(p)
  <2> DEFINE ended == IF Pools[p].total_shares > 0 THEN 1 ELSE 0
  <2>1. active'[p] = active[p] + ended
    BY DEF EndBlock
  <2>2. /\ block \in Nat /\ active[p] \in 0 .. block
        /\ Pools[p].last_update_block \in Int /\ Pools[p].last_update_block <= block
        /\ pending(p) <= active[p]
    BY PoolAssumption DEF GrantInv, TypeOK, PoolInfo
  <2>3. pending(p)' = pending(p) + ended
    BY <1>1, <2>2 DEF pending
  <2>4. ended \in 0 .. 1 /\ pending(p) \in Int
    BY <2>2 DEF pending
  <2> HIDE DEF ended
  <2> QED
    BY <1>1, <2>1, <2>2, <2>3, <2>4
<1>4. active' \in [PoolIds -> 0 .. block']
  BY <1>3 DEF EndBlock
<1>5. SumFunctionOnSet(grants', dex_rewards) = SumFunctionOnSet(grants, dex_rewards)
  <2>1. ASSUME NEW d \in dex_rewards
        PROVE  grants'[d] = grants[d]
    <3>1. /\ grants'[d] = d[3] * (active'[key(d)] - pending(key(d))')
          /\ grants[d] = d[3] * (active[key(d)] - pending(key(d)))
      BY DEF grants, key
    <3> QED
      BY <1>3, <3>1, DexPools
  <2> QED
    BY <2>1, DexRewardsAssumption, SumCong
<1>6. SumFunctionOnSet(free', Accounts) = SumFunctionOnSet(grants', dex_rewards)
  BY <1>1, <1>5 DEF GrantInv
<1> QED
  BY <1>2, <1>3, <1>4, <1>6 DEF GrantInv

(* The inductive invariant of the grants.                                    *)
LEMMA GrantsCorrect ==
    ASSUME ExistentialDeposit = 0, GrantsFit
    PROVE  IncentiveSpec => []GrantInv
<1>1. IncentiveInit => GrantInv
  <2> SUFFICES ASSUME IncentiveInit
               PROVE  GrantInv
    OBVIOUS
  <2>1. TypeOK /\ PoolIsBacked /\ block = 0 /\ active = [p \in PoolIds |-> 0]
    BY InitType DEF IncentiveInit, Init
  <2>2. ASSUME NEW p \in PoolIds
        PROVE  Pools[p].last_update_block = 0 /\ pending(p) = 0 /\ active[p] = 0
    BY <2>1 DEF IncentiveInit, Init, pending
  <2>3. SumFunctionOnSet(free, Accounts) = 0
    BY PoolAssumption, SumZero DEF IncentiveInit, Init
  <2>4. SumFunctionOnSet(grants, dex_rewards) = 0
    <3>1. ASSUME NEW d \in dex_rewards
          PROVE  grants[d] = 0
      <4>1. active[key(d)] - pending(key(d)) = 0 /\ d[3] \in Int
        BY <2>2, DexPools
      <4>2. grants[d] = d[3] * (active[key(d)] - pending(key(d)))
        BY DEF grants
      <4> QED
        BY <4>1, <4>2, Products
    <3> QED
      BY <3>1, DexRewardsAssumption, SumZero
  <2> QED
    BY <2>1, <2>2, <2>3, <2>4 DEF GrantInv
<1>2. GrantInv /\ [IncentiveNext]_incentiveVars => GrantInv'
  <2> SUFFICES ASSUME GrantInv, [IncentiveNext]_incentiveVars
               PROVE  GrantInv'
    OBVIOUS
  <2>1. CASE EndBlock
    BY <2>1, BlockGrants
  <2>2. ASSUME UNCHANGED active, NEW who \in Users, NEW first \in CurrencyIds,
               NEW second \in CurrencyIds,
               \/ \E amount \in Shares : \/ AddShare(who, first, second, amount)
                                         \/ RemoveShare(who, first, second, amount)
               \/ ClaimRewards(who, first, second)
        PROVE  GrantInv'
    <3>1. IsPair(first, second) /\ Call(who, PairKey(first, second))
      BY <2>2 DEF AddShare, RemoveShare, ClaimRewards, Call
    <3> QED
      BY <2>2, <3>1, PairKeySymmetric, CallGrants
  <2>3. CASE UNCHANGED incentiveVars
    <3>1. /\ Pools' = Pools /\ PoolAccountData' = PoolAccountData /\ block' = block
          /\ free' = free /\ active' = active
      BY <2>3 DEF incentiveVars, vars
    <3> QED
      BY <3>1 DEF GrantInv, TypeOK, PoolIsBacked, grants, key, pending
  <2> QED
    BY <2>1, <2>2, <2>3 DEF IncentiveNext
<1> QED
  BY <1>1, <1>2, PTL DEF IncentiveSpec

(* Every block that a pool ends with shares is granted to it once and at the *)
(* rate of its pair, however many blocks pass between two calls and however  *)
(* many calls come in one block: caculate_reward is asked for each span of   *)
(* blocks once, and the mint loses none of what it answers.                  *)
THEOREM BlocksGrantedOnce ==
    ASSUME ExistentialDeposit = 0, GrantsFit
    PROVE  IncentiveSpec => []EveryBlockIsGrantedOnce
<1>1. GrantInv => EveryBlockIsGrantedOnce
  <2> SUFFICES ASSUME GrantInv
               PROVE  EveryBlockIsGrantedOnce
    OBVIOUS
  <2>1. DOMAIN free = Accounts
    BY DEF GrantInv, TypeOK
  <2> QED
    BY <2>1 DEF GrantInv, EveryBlockIsGrantedOnce, SumFunction, grants, key
<1> QED
  BY <1>1, GrantsCorrect, PTL

-----------------------------------------------------------------------------
(* The steps that follow the writes of a call cannot fail.                   *)

(* An account owns no more shares and owes no more than its pool counts, so  *)
(* what fits the pool fits the account.                                      *)
LEMMA AccountFits ==
    ASSUME TypeOK, SharesAddUp, DebtsAreVirtual,
           NEW who \in Users, NEW p \in PoolIds, NEW amount \in Shares,
           may_add_share(p, amount)
    PROVE  may_add_to_account(who, p, amount)
<1> DEFINE info == calc_pool_reward(p)
           data == PoolAccountData[p][who]
           virtual == virtual_reward(info, amount)
<1>1. /\ calc_pool_reward_succeeds(p)
      /\ info.total_shares + amount <= MaxShare
      /\ info.total_rewards + virtual <= MaxBalance
  BY DEF may_add_share, fits
<1>2. info \in PoolInfo /\ data \in PoolAccountInfo /\ Pools[p] \in PoolInfo /\ pool_reward(p) \in Nat
  BY <1>1, UpdateType DEF TypeOK
<1>3. amount \in Nat /\ virtual \in Nat
  BY <1>2, PoolAssumption, RewardType
<1>4. data.shares <= Pools[p].total_shares /\ data.borrowed_amount <= Pools[p].total_rewards
  <2>1. \A u \in Users : shares_of(p)[u] \in Nat /\ debts_of(p)[u] \in Nat
    BY PoolAssumption, CurrencyAssumption
    DEF TypeOK, PoolAccountInfo, Balance, shares_of, debts_of
  <2>2. /\ shares_of(p)[who] <= SumFunctionOnSet(shares_of(p), Users)
        /\ debts_of(p)[who] <= SumFunctionOnSet(debts_of(p), Users)
    BY <2>1, UsersFinite, SumBound
  <2>3. shares_of(p)[who] = data.shares /\ debts_of(p)[who] = data.borrowed_amount
    BY DEF shares_of, debts_of
  <2>4. Pools[p].total_shares = SumFunctionOnSet(shares_of(p), Users)
    BY PoolSums DEF SharesAddUp, shares_of
  <2>5. SumFunctionOnSet(debts_of(p), Users) + Pools[p].total_rewards_useable
           <= Pools[p].total_rewards
    BY PoolSums DEF DebtsAreVirtual
  <2>6. /\ Pools[p].total_rewards_useable \in Nat /\ Pools[p].total_rewards \in Nat
        /\ SumFunctionOnSet(debts_of(p), Users) \in Nat
        /\ data.borrowed_amount \in Nat
    BY <1>2, <2>1, UsersFinite, SumNat, CurrencyAssumption DEF PoolInfo, PoolAccountInfo, Balance
  <2>7. data.shares <= Pools[p].total_shares
    BY <2>2, <2>3, <2>4
  <2> DEFINE debts == SumFunctionOnSet(debts_of(p), Users)
             debt == data.borrowed_amount
  <2>8. debt <= debts
    BY <2>2, <2>3
  <2> HIDE DEF debts, debt
  <2>9. debt <= Pools[p].total_rewards
    BY <2>5, <2>6, <2>8 DEF debts, debt
  <2> QED
    BY <2>7, <2>9 DEF debt
<1>5. /\ info.total_shares = Pools[p].total_shares
      /\ info.total_rewards = Pools[p].total_rewards + pool_reward(p)
  BY DEF calc_pool_reward
<1>6. /\ data.shares \in Nat /\ data.borrowed_amount \in Nat
      /\ Pools[p].total_shares \in Nat /\ Pools[p].total_rewards \in Nat
      /\ MaxShare \in Nat /\ MaxBalance \in Nat
  BY <1>2, PoolAssumption, CurrencyAssumption DEF PoolInfo, PoolAccountInfo, Balance
<1>7. data.shares + amount <= MaxShare
  BY <1>1, <1>3, <1>4, <1>5, <1>6
<1>8. data.borrowed_amount + virtual <= MaxBalance
  <2> HIDE DEF virtual, info, data
  <2> QED
    BY <1>1, <1>2, <1>3, <1>4, <1>5, <1>6
<1> QED
  BY <1>7, <1>8 DEF may_add_to_account, fits

(* All the money there is fits the balance type.                             *)
LEMMA MoneyFits ==
    ASSUME GrantInv, GrantsFit, NEW pool \in PoolIds
    PROVE  SumFunctionOnSet(grants_with(pool), dex_rewards) <= MaxBalance
<1> DEFINE h == grants_with(pool)
           w == [d \in dex_rewards |-> d[3] * MaxBlock]
<1>1. ASSUME NEW d \in dex_rewards
      PROVE  h[d] \in Int /\ w[d] \in Int /\ h[d] <= w[d]
  <2>1. key(d) \in PoolIds /\ d[3] \in Nat
    BY DexPools
  <2> DEFINE left == IF key(d) = pool THEN 0 ELSE pending(key(d))
  <2>2. active[key(d)] - left \in Int /\ active[key(d)] - left <= MaxBlock /\ MaxBlock \in Int
    <3>1. block \in Nat /\ block <= MaxBlock /\ MaxBlock \in Nat
      BY PoolAssumption DEF GrantInv, TypeOK
    <3>2. active[key(d)] \in 0 .. block
      BY <2>1 DEF GrantInv
    <3>3. pending(key(d)) \in Nat
      <4>1. Pools[key(d)].last_update_block \in Int /\ Pools[key(d)].last_update_block <= block
        BY <2>1 DEF GrantInv, TypeOK, PoolInfo
      <4> QED
        BY <3>1, <4>1 DEF pending
    <3> QED
      BY <3>1, <3>2, <3>3
  <2>3. h[d] = d[3] * (active[key(d)] - left) /\ w[d] = d[3] * MaxBlock
    BY DEF grants_with
  <2> HIDE DEF left, h, w
  <2> QED
    BY <2>1, <2>2, <2>3, Products
<1>2. SumFunctionOnSet(h, dex_rewards) <= SumFunctionOnSet(w, dex_rewards)
  <2> HIDE DEF h, w
  <2> QED
    BY <1>1, DexRewardsAssumption, SumLeq
<1>3. SumFunctionOnSet(w, dex_rewards) <= MaxBalance
  BY DEF GrantsFit, SumFunction
<1>4. SumFunctionOnSet(h, dex_rewards) \in Int /\ SumFunctionOnSet(w, dex_rewards) \in Int
  <2> HIDE DEF h, w
  <2> QED
    BY <1>1, DexRewardsAssumption, SumInt
<1> QED
  BY <1>2, <1>3, <1>4, CurrencyAssumption

(* A reward that remove_share has admitted is in the sub account, and fits   *)
(* the balance of the holder.                                                *)
LEMMA PaymentSucceeds ==
    ASSUME GrantInv, GrantsFit, ExistentialDeposit = 0,
           NEW who \in Users, NEW p \in PoolIds, NEW amount \in Shares,
           may_remove_share(who, p, amount)
    PROVE  can_transfer(update_balance(p), sub_account_id(p), who,
                        reward_sent(calc_pool_reward(p), PoolAccountData[p][who], amount))
<1> DEFINE info == calc_pool_reward(p)
           data == PoolAccountData[p][who]
           b == update_balance(p)
           sub == sub_account_id(p)
           reward == reward_sent(info, data, amount)
<1>1. /\ TypeOK /\ PoolIsBacked /\ RewardsFit
      /\ calc_pool_reward_succeeds(p)
      /\ get_rewards_by_account_shares_succeeds(info, data, amount)
  BY GrantsAreAmounts DEF GrantInv, may_remove_share
<1>2. info \in PoolInfo /\ data \in PoolAccountInfo /\ b \in [Accounts -> Balance]
  BY <1>1, UpdateType DEF TypeOK
<1>3. reward \in 0 .. info.total_rewards_useable
  BY <1>1, <1>2, RemovalType, PoolAssumption, Zenon
<1>4. b[sub] = info.total_rewards_useable
  BY <1>1, UpdateBacked
<1>5. /\ who \in Accounts /\ sub \in Accounts /\ who # sub /\ IsFiniteSet(Accounts)
      /\ \A a \in Accounts : b[a] \in Nat
  BY <1>2, PoolAssumption, CurrencyAssumption DEF Balance
<1>6. b[who] + b[sub] <= MaxBalance
  <2>1. SumFunctionOnSet(b, Accounts) <= MaxBalance
    <3>1. SumFunctionOnSet(b, Accounts) = SumFunctionOnSet(free, Accounts) + pool_reward(p)
      BY <1>1, MoneyOfCall
    <3> QED
      BY <3>1, GrantsOfCall, MoneyFits DEF GrantInv
  <2>2. b[who] + b[sub] <= SumFunctionOnSet(b, Accounts) /\ SumFunctionOnSet(b, Accounts) \in Nat
    <3> HIDE DEF b, sub
    <3> QED
      BY <1>5, SumBoundTwo, SumNat
  <2>3. b[who] \in Nat /\ b[sub] \in Nat /\ MaxBalance \in Nat
    BY <1>5, CurrencyAssumption
  <2> QED
    BY <2>1, <2>2, <2>3
<1>7. reward \in Nat /\ reward <= b[sub] /\ b[who] \in Nat /\ b[sub] \in Nat /\ MaxBalance \in Nat
  BY <1>3, <1>4, <1>5, CurrencyAssumption
<1> HIDE DEF info, data, b, sub, reward
<1>8. can_transfer(b, sub, who, reward)
  BY <1>6, <1>7 DEF can_transfer, fits
<1> QED
  BY <1>8 DEF info, data, b, sub, reward

(* Whatever calls came before, once a call has passed the checks that it     *)
(* makes before its first write, its later steps succeed: no half of a call  *)
(* is left behind even outside a storage transaction, for the runtime's      *)
(* existential deposit and as long as all grants fit the balance types.      *)
THEOREM LateStepsSucceed ==
    ASSUME ExistentialDeposit = 0, GrantsFit
    PROVE  IncentiveSpec => []LateStepsCannotFail
<1>1. GrantInv /\ SharesAddUp /\ DebtsAreVirtual => LateStepsCannotFail
  <2>1. SUFFICES ASSUME GrantInv, SharesAddUp, DebtsAreVirtual,
                        NEW who \in Users, NEW p \in PoolIds, NEW amount \in Shares
                 PROVE  /\ may_add_share(p, amount) => may_add_to_account(who, p, amount)
                        /\ may_remove_share(who, p, amount) =>
                              can_transfer(update_balance(p), sub_account_id(p), who,
                                           reward_sent(calc_pool_reward(p), PoolAccountData[p][who], amount))
    BY Zenon DEF LateStepsCannotFail
  <2>2. TypeOK
    BY <2>1 DEF GrantInv
  <2>3. may_add_share(p, amount) => may_add_to_account(who, p, amount)
    BY <2>1, <2>2, AccountFits, Zenon
  <2>4. may_remove_share(who, p, amount) =>
           can_transfer(update_balance(p), sub_account_id(p), who,
                        reward_sent(calc_pool_reward(p), PoolAccountData[p][who], amount))
    BY <2>1, PaymentSucceeds, Zenon
  <2> QED
    BY <2>3, <2>4, Zenon
<1> QED
  BY <1>1, GrantsCorrect, IncentivesImplementPool, CountersAgree, PTL

-----------------------------------------------------------------------------
(* The holder of all shares of a pool.  The ratio of all shares is exact, so *)
(* that what it can claim exceeds what the pool has by the surplus, and the  *)
(* surplus never shrinks.                                                    *)

\* Who has shares of a pool, and all of them.
alone(who, pool) ==
    /\ PoolAccountData[pool][who].shares > 0
    /\ PoolAccountData[pool][who].shares = Pools[pool].total_shares

StrandedBySurplus ==
    \A who \in Users, p \in PoolIds :
       alone(who, p) => (stranded(who, p) <=> surplus(p) > 0)

(* A stranded holder has all shares: a grant leaves the shares as they are.  *)
LEMMA StrandedIsAlone ==
    ASSUME NEW who \in Users, NEW p \in PoolIds, stranded(who, p)
    PROVE  alone(who, p)
<1>1. calc_pool_reward(p).total_shares = Pools[p].total_shares
  BY DEF calc_pool_reward
<1> QED
  BY <1>1, Zenon DEF stranded, alone

(* When one holder has all shares, the debts of the pool are its debt.       *)
LEMMA AloneOwesAll ==
    ASSUME TypeOK, SharesAddUp, NoSharesNoDebt,
           NEW who \in Users, NEW p \in PoolIds, alone(who, p)
    PROVE  total_borrowed(p) = PoolAccountData[p][who].borrowed_amount
<1> DEFINE S == shares_of(p)
           D == debts_of(p)
<1>1. \A u \in Users : /\ S[u] \in Nat /\ D[u] \in Nat
                       /\ S[u] = 0 => D[u] = 0
                       /\ S[u] = PoolAccountData[p][u].shares
                       /\ D[u] = PoolAccountData[p][u].borrowed_amount
  BY PoolAssumption, CurrencyAssumption
  DEF TypeOK, PoolAccountInfo, Balance, shares_of, debts_of, NoSharesNoDebt
<1>2. SumFunctionOnSet(S, Users) = S[who]
  BY <1>1, PoolSums DEF SharesAddUp, alone, shares_of
<1>3. ASSUME NEW u \in Users \ {who}
      PROVE  D[u] = 0
  <2>1. S[who] + S[u] <= SumFunctionOnSet(S, Users)
    <3> HIDE DEF S
    <3> QED
      BY <1>1, UsersFinite, SumBoundTwo
  <2> HIDE DEF S, D
  <2> QED
    BY <1>1, <1>2, <2>1
<1>4. SumFunctionOnSet(D, Users) = D[who]
  <2> HIDE DEF D
  <2>1. IsFiniteSet(Users \ {who})
    BY UsersFinite, FS_Subset
  <2>2. SumFunctionOnSet(D, Users \ {who}) = 0
    BY <1>3, <2>1, SumZero
  <2>3. SumFunctionOnSet(D, Users) = D[who] + SumFunctionOnSet(D, Users \ {who})
    BY <1>1, UsersFinite, SumSplit
  <2> QED
    BY <1>1, <2>2, <2>3
<1> QED
  BY <1>1, <1>4, PoolSums

(* What all shares can claim is all of total_rewards but the debt.           *)
LEMMA AloneClaims ==
    ASSUME TypeOK, NEW who \in Users, NEW p \in PoolIds, alone(who, p)
    PROVE  LET info == calc_pool_reward(p)
               data == PoolAccountData[p][who]
           IN /\ data.shares = info.total_shares
              /\ calc_reward_by_shares(info, data.shares) = info.total_rewards
              /\ account_balance_to_remove(data, data.shares) = data.borrowed_amount
              /\ info.total_rewards - info.total_rewards_useable
                    = Pools[p].total_rewards - Pools[p].total_rewards_useable
              /\ info.total_rewards \in Nat /\ info.total_rewards_useable \in Nat
              /\ data.borrowed_amount \in Nat
<1> DEFINE info == calc_pool_reward(p)
           data == PoolAccountData[p][who]
<1>1. /\ data \in PoolAccountInfo /\ data.shares \in Nat \ {0} /\ data.borrowed_amount \in Nat
      /\ Pools[p].total_rewards \in Nat /\ Pools[p].total_rewards_useable \in Nat
      /\ DIV \in Nat \ {0} /\ DIV \in Nat
  BY PoolAssumption, CurrencyAssumption
  DEF alone, TypeOK, PoolInfo, PoolAccountInfo, Balance
<1>2. pool_reward(p) \in Nat
  BY HandlerAssumption, CurrencyAssumption DEF TypeOK, pool_reward, PoolInfo, Balance
<1>3. /\ info.total_shares = data.shares
      /\ info.total_rewards = Pools[p].total_rewards + pool_reward(p)
      /\ info.total_rewards_useable = Pools[p].total_rewards_useable + pool_reward(p)
  BY DEF calc_pool_reward, alone
<1>4. calc_reward_by_shares(info, data.shares) = info.total_rewards
  <2>1. info.total_rewards \in Nat
    BY <1>1, <1>2, <1>3
  <2> HIDE DEF info, data
  <2>2. checked_from_rational(data.shares, data.shares) = DIV
    BY <1>1, WholeRatio, Zenon DEF checked_from_rational
  <2>3. checked_mul_int(DIV, info.total_rewards) = info.total_rewards
    BY <1>1, <2>1, WholeRatio, Zenon DEF checked_mul_int
  <2> QED
    BY <1>1, <1>3, <2>2, <2>3 DEF calc_reward_by_shares
<1>5. account_balance_to_remove(data, data.shares) = data.borrowed_amount
  <2> HIDE DEF data
  <2> QED
    BY <1>1, WholeDebt
<1> HIDE DEF info, data
<1>6. /\ info.total_rewards - info.total_rewards_useable
            = Pools[p].total_rewards - Pools[p].total_rewards_useable
      /\ info.total_rewards \in Nat /\ info.total_rewards_useable \in Nat
  BY <1>1, <1>2, <1>3
<1> QED
  BY <1>1, <1>3, <1>4, <1>5, <1>6 DEF info, data

(* A holder of all shares is refused its reward exactly when there is a      *)
(* surplus.                                                                  *)
LEMMA SurplusStrands ==
    TypeOK /\ SharesAddUp /\ NoSharesNoDebt => StrandedBySurplus
<1> SUFFICES ASSUME TypeOK, SharesAddUp, NoSharesNoDebt,
                    NEW who \in Users, NEW p \in PoolIds, alone(who, p)
             PROVE  stranded(who, p) <=> surplus(p) > 0
  BY DEF StrandedBySurplus
<1> DEFINE info == calc_pool_reward(p)
           data == PoolAccountData[p][who]
           R == Pools[p].total_rewards
           U == Pools[p].total_rewards_useable
<1>1. /\ data.shares = info.total_shares /\ data.shares > 0
      /\ claimable(info, data) = info.total_rewards - data.borrowed_amount
      /\ info.total_rewards - info.total_rewards_useable = R - U
      /\ info.total_rewards \in Nat /\ info.total_rewards_useable \in Nat
      /\ data.borrowed_amount \in Nat
  BY AloneClaims DEF claimable, alone
<1>2. stranded(who, p) <=> claimable(info, data) > info.total_rewards_useable
  BY <1>1, Zenon DEF stranded
<1>3. surplus(p) = R - U - data.borrowed_amount /\ R \in Int /\ U \in Int
  BY AloneOwesAll DEF surplus, TypeOK, PoolInfo, Balance
<1> HIDE DEF info, data, R, U
<1> QED
  BY <1>1, <1>2, <1>3

(* A stranded holder keeps some shares: the removal of all is refused.       *)
LEMMA StrandedKeepsShares ==
    ASSUME TypeOK, [Next]_vars, NEW who \in Users, NEW p \in PoolIds, stranded(who, p)
    PROVE  PoolAccountData'[p][who].shares > 0
<1> DEFINE info == calc_pool_reward(p)
           had == PoolAccountData[p][who]
<1>1. alone(who, p) /\ had.shares \in Nat /\ had.shares > 0
  <2>1. alone(who, p)
    BY StrandedIsAlone
  <2>2. had \in PoolAccountInfo
    BY DEF TypeOK
  <2> QED
    BY <2>1, <2>2, PoolAssumption DEF alone, PoolAccountInfo
<1>2. CASE UNCHANGED PoolAccountData
  BY <1>1, <1>2
<1>3. ASSUME NEW u \in Users, NEW q \in PoolIds, Call(u, q), <<u, q>> # <<who, p>>
      PROVE  PoolAccountData'[p][who] = had
  <2>1. PICK i \in PoolInfo, data \in PoolAccountInfo :
           PoolAccountData' = [PoolAccountData EXCEPT ![q][u] = data]
    BY <1>3, CallSummary
  <2> QED
    BY <1>3, <2>1 DEF TypeOK
<1>4. ASSUME NEW amount \in Shares, add_share(who, p, amount)
      PROVE  PoolAccountData'[p][who].shares > 0
  <2>1. PoolAccountData'[p][who].shares = had.shares + amount /\ amount \in Nat
    BY <1>4, PoolAssumption, Zenon DEF add_share, TypeOK
  <2> QED
    BY <1>1, <2>1
<1>5. ASSUME NEW amount \in Shares, remove_share(who, p, amount)
      PROVE  PoolAccountData'[p][who].shares > 0
  <2>1. /\ PoolAccountData'[p][who].shares = had.shares - amount
        /\ get_rewards_by_account_shares_succeeds(info, had, amount)
    BY <1>5, Zenon DEF remove_share, may_remove_share, TypeOK
  <2>2. /\ amount <= had.shares /\ amount \in Nat
        /\ removal_reward(info, had, amount) <= info.total_rewards_useable
    BY <2>1, PoolAssumption DEF get_rewards_by_account_shares_succeeds, may_remove
  <2>3. removal_reward(info, had, had.shares) = claimable(info, had)
    BY <1>1, AloneClaims DEF removal_reward, claimable
  <2>4. claimable(info, had) > info.total_rewards_useable
    BY Zenon DEF stranded
  <2>5. claimable(info, had) \in Int /\ info.total_rewards_useable \in Int
    BY <1>1, AloneClaims DEF claimable
  <2>6. amount # had.shares
    <3> HIDE DEF info, had
    <3> QED
      BY <2>2, <2>3, <2>4, <2>5
  <2> HIDE DEF info, had
  <2> QED
    BY <1>1, <2>1, <2>2, <2>6
<1>6. CASE claim_nothing(who, p)
  BY <1>1, <1>6 DEF claim_nothing
<1>7. CASE claim_rewards(who, p)
  <2>1. PoolAccountData'[p][who].shares = had.shares
    BY <1>7, Zenon DEF claim_rewards, TypeOK
  <2> QED
    BY <1>1, <2>1
<1>8. ASSUME NEW u \in Users, NEW q \in PoolIds, Call(u, q)
      PROVE  PoolAccountData'[p][who].shares > 0
  <2>1. CASE u = who /\ q = p
    BY <1>4, <1>5, <1>6, <1>7, <1>8, <2>1 DEF Call
  <2>2. CASE ~(u = who /\ q = p)
    BY <1>1, <1>3, <1>8, <2>2
  <2> QED
    BY <2>1, <2>2
<1> QED
  BY <1>2, <1>8 DEF Next, NextBlock, vars

(* Who is left alone with shares has all of them.                            *)
LEMMA AloneAgain ==
    ASSUME TypeOK', SharesAddUp', NEW who \in Users, NEW p \in PoolIds,
           PoolAccountData'[p][who].shares > 0,
           \A other \in Users \ {who} : ~(PoolAccountData'[p][other].shares > 0)
    PROVE  alone(who, p)'
<1> DEFINE S == [u \in Users |-> PoolAccountData'[p][u].shares]
<1>1. \A u \in Users : S[u] \in Nat
  BY PoolAssumption DEF TypeOK, PoolAccountInfo
<1>2. \A u \in Users \ {who} : S[u] = 0
  BY <1>1
<1>3. Pools'[p].total_shares = SumFunctionOnSet(S, Users)
  BY DEF SharesAddUp, SumFunction
<1>4. SumFunctionOnSet(S, Users) = S[who]
  <2> HIDE DEF S
  <2>1. IsFiniteSet(Users \ {who})
    BY UsersFinite, FS_Subset
  <2>2. SumFunctionOnSet(S, Users \ {who}) = 0
    BY <1>2, <2>1, SumZero
  <2>3. SumFunctionOnSet(S, Users) = S[who] + SumFunctionOnSet(S, Users \ {who})
    BY <1>1, UsersFinite, SumSplit
  <2> QED
    BY <1>1, <2>2, <2>3
<1> QED
  BY <1>3, <1>4 DEF alone

(* No step lowers the surplus.                                               *)
LEMMA SurplusGrows ==
    ASSUME TypeOK, [Next]_vars, NEW p \in PoolIds
    PROVE  surplus(p) \in Int /\ surplus(p)' >= surplus(p)
<1>1. surplus(p) \in Int
  <2>1. \A u \in Users : debts_of(p)[u] \in Int
    BY DEF TypeOK, PoolAccountInfo, Balance, debts_of
  <2>2. total_borrowed(p) \in Int
    BY <2>1, PoolSums, SumInt, UsersFinite
  <2> QED
    BY <2>2 DEF surplus, TypeOK, PoolInfo, Balance
<1>2. ASSUME NEW who \in Users, NEW amount \in Shares, keeps_reward(who, p, amount)
      PROVE  account_balance_to_remove(PoolAccountData[p][who], amount) \in Nat
  <2>1. /\ PoolAccountData[p][who].shares # 0 /\ amount \in Nat
        /\ PoolAccountData[p][who] \in PoolAccountInfo
    BY <1>2, PoolAssumption
    DEF keeps_reward, remove_share, may_remove_share,
        get_rewards_by_account_shares_succeeds, may_remove, PoolAccountInfo, TypeOK
  <2> QED
    BY <2>1, DebtType
<1> QED
  BY <1>1, <1>2, StepSurplus

(* A stranded holder stays stranded in a step after which it is alone.       *)
LEMMA StaysStranded ==
    ASSUME TypeOK, TypeOK', SharesAddUp', StrandedBySurplus, StrandedBySurplus', [Next]_vars,
           NEW who \in Users, NEW p \in PoolIds, stranded(who, p)
    PROVE  \/ stranded(who, p)'
           \/ \E other \in Users \ {who} : PoolAccountData'[p][other].shares > 0
<1> SUFFICES ASSUME \A other \in Users \ {who} : ~(PoolAccountData'[p][other].shares > 0)
             PROVE  stranded(who, p)'
  OBVIOUS
<1>1. alone(who, p)
  BY StrandedIsAlone
<1>2. surplus(p) > 0
  BY <1>1, Zenon DEF StrandedBySurplus
<1>3. surplus(p)' > 0
  <2>1. surplus(p)' \in Int
    <3>1. \A u \in Users : debts_of(p)'[u] \in Int
      BY DEF TypeOK, PoolAccountInfo, Balance, debts_of
    <3>2. total_borrowed(p)' = SumFunctionOnSet(debts_of(p)', Users)
      BY DEF total_borrowed, SumFunction, debts_of
    <3>3. total_borrowed(p)' \in Int
      BY <3>1, <3>2, SumInt, UsersFinite
    <3> QED
      BY <3>3 DEF surplus, TypeOK, PoolInfo, Balance
  <2> QED
    BY <1>2, <2>1, SurplusGrows
<1>4. alone(who, p)'
  BY StrandedKeepsShares, AloneAgain
<1>5. alone(who, p)' => (stranded(who, p)' <=> surplus(p)' > 0)
  BY Zenon DEF StrandedBySurplus
<1> QED
  BY <1>3, <1>4, <1>5, Zenon

(* The only holder of a pool that is refused its reward because the pool     *)
(* cannot pay it is refused it until someone else has shares of the pool:    *)
(* neither blocks and their grants, nor claims, nor the removal of a part of *)
(* its shares end that.                                                      *)
THEOREM Stranded == Spec => StrandedUntilJoined
<1> DEFINE Inv == TypeOK /\ SharesAddUp /\ StrandedBySurplus
<1>1. Spec => []Inv
  BY CountersAgree, LeaversOweNothing, SurplusStrands, PTL
<1>2. Inv /\ Inv' /\ [Next]_vars =>
        [\A who \in Users, p \in PoolIds :
            stranded(who, p) => \/ stranded(who, p)'
                                \/ \E other \in Users \ {who} :
                                      PoolAccountData'[p][other].shares > 0]_vars
  BY StaysStranded
<1> QED
  BY <1>1, <1>2, PTL DEF Spec, StrandedUntilJoined

=============================================================================
