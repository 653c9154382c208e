----------------------------- MODULE Incentives -----------------------------
(***************************************************************************)
(* The incentives pallet (modules/incentives): it names the reward pools   *)
(* of the exchange by unordered pairs of currencies, is the RewardHandler  *)
(* that says what a block grants to a pool, and forwards the calls of the  *)
(* users to the reward pool pallet.                                        *)
(***************************************************************************)
EXTENDS RewardPool

CONSTANTS CurrencyIds,   \* naturals, for the derived order of CurrencyId
          dex_rewards    \* genesis: set of <<currency, currency, reward per block>>

CurrencyPairs == CurrencyIds \X CurrencyIds

\* PairKey::try_from; the callers refuse two equal currencies.
PairKey(first, second) == IF first < second THEN <<first, second>> ELSE <<second, first>>

IsPair(first, second) == first # second

\* The genesis build: unwrap, assert and insert for each configured pair.
ASSUME DexRewardsAssumption ==
    /\ CurrencyIds \subseteq Nat
    /\ \A c \in CurrencyPairs : IsPair(c[1], c[2]) => PairKey(c[1], c[2]) \in PoolIds
    /\ IsFiniteSet(dex_rewards)
    /\ dex_rewards \subseteq CurrencyIds \X CurrencyIds \X (1 .. MaxBalance)
    /\ \A d \in dex_rewards : IsPair(d[1], d[2])
    /\ \A d, e \in dex_rewards : PairKey(d[1], d[2]) = PairKey(e[1], e[2]) => d = e

DexIncentiveRewards(pool) ==
    {d[3] : d \in {e \in dex_rewards : PairKey(e[1], e[2]) = pool}}

\* RewardHandler::caculate_reward; the value of the constant of RewardPool.
dex_reward(pool, total_share, last_update_block, now) ==
    IF total_share = 0 \/ DexIncentiveRewards(pool) = {} \/ last_update_block >= now
    THEN 0
    ELSE LET ratio == CHOOSE r \in DexIncentiveRewards(pool) : TRUE
             product == ratio * (now - last_update_block)
         IN IF product > MaxBalance THEN MaxBalance ELSE product

ASSUME IncentivesIsTheHandler ==
    \A p \in PoolIds, s \in 0 .. MaxShare, from, to \in 0 .. MaxBlock :
       caculate_reward(p, s, from, to) = dex_reward(p, s, from, to)

\* All that can be granted until the last block fits the balance type, and
\* what one pool can be granted the signed type that mints it.
GrantsFit == /\ SumFunction([d \in dex_rewards |-> d[3] * MaxBlock]) <= MaxBalance
             /\ \A d \in dex_rewards : d[3] * MaxBlock <= MaxAmount

-----------------------------------------------------------------------------
(* IncentiveOps, on the currencies in the order that the user gives. *)

AddShare(who, first, second, amount) ==
    IsPair(first, second) /\ add_share(who, PairKey(first, second), amount)

RemoveShare(who, first, second, amount) ==
    IsPair(first, second) /\ remove_share(who, PairKey(first, second), amount)

ClaimRewards(who, first, second) ==
    /\ IsPair(first, second)
    /\ \/ claim_nothing(who, PairKey(first, second))
       \/ claim_rewards(who, PairKey(first, second))

get_account_shares(who, first, second) ==
    IF IsPair(first, second) THEN PoolAccountData[PairKey(first, second)][who].shares ELSE 0

\* Mutant: the query ignores the existential reward.
any_accumlated_reward(who, first, second) ==
    LET pool == PairKey(first, second)
        data == PoolAccountData[pool][who]
    IN IF IsPair(first, second) /\ data.shares > 0 /\ may_remove_share(who, pool, data.shares)
       THEN removal_reward(calc_pool_reward(pool), data, data.shares)
       ELSE 0

\* Zero as well when the computation fails, or the reward is too small to send.
get_accumlated_rewards(who, first, second) ==
    LET pool == PairKey(first, second)
        info == calc_pool_reward(pool)
        data == PoolAccountData[pool][who]
    IN IF IsPair(first, second) /\ data.shares > 0 /\ may_remove_share(who, pool, data.shares)
       THEN reward_sent(info, data, data.shares)
       ELSE 0

get_account_info(who, first, second) ==
    [shares |-> get_account_shares(who, first, second),
     accumlated_rewards |-> get_accumlated_rewards(who, first, second)]

-----------------------------------------------------------------------------
(* active[p] is the number of blocks that pool p has ended with shares: a    *)
(* history variable for the property on grants.                              *)

VARIABLE active

incentiveVars == <<vars, active>>

IncentiveInit == Init /\ active = [p \in PoolIds |-> 0]

EndBlock == /\ NextBlock
            /\ active' = [p \in PoolIds |->
                             active[p] + (IF Pools[p].total_shares > 0 THEN 1 ELSE 0)]

IncentiveNext ==
    \/ EndBlock
    \/ /\ UNCHANGED active
       /\ \E who \in Users, first, second \in CurrencyIds :
             \/ \E amount \in Shares : \/ AddShare(who, first, second, amount)
                                       \/ RemoveShare(who, first, second, amount)
             \/ ClaimRewards(who, first, second)

IncentiveSpec == IncentiveInit /\ [][IncentiveNext]_incentiveVars

-----------------------------------------------------------------------------

\* Blocks with shares whose reward has not been granted yet.
pending(p) == IF Pools[p].total_shares > 0 THEN block - Pools[p].last_update_block ELSE 0

(* Every block that a pool ends with shares is granted to it once, at the    *)
(* rate of its pair, and no other block is, whatever calls come in the block *)
(* or fail to come for many blocks: all money there is, in the sub accounts  *)
(* and with the users, comes from such grants ("the rewards are allocated at *)
(* (block_add, block_remove]").                                              *)
EveryBlockIsGrantedOnce ==
    SumFunction(free) =
       SumFunction([d \in dex_rewards |->
          d[3] * (active[PairKey(d[1], d[2])] - pending(PairKey(d[1], d[2])))])

(* What get_account_info promises a holder is what it is paid when it then   *)
(* removes all its shares in the same block, in whichever order it names the *)
(* two currencies for the question and for the removal.                      *)
PromiseIsPaid ==
    [][\A who \in Users, first, second \in CurrencyIds :
          (/\ get_account_shares(who, first, second) > 0
           /\ get_account_shares(who, second, first)' = 0)
          => free'[who] = free[who]
                + get_account_info(who, first, second).accumlated_rewards]_incentiveVars

=============================================================================
