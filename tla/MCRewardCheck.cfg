\* The check of get_rewards_by_account_shares that "should not happen".
\* 12 is a multiple of every number of shares, so that no ratio is rounded.
SPECIFICATION IncentiveSpec
CONSTANTS
  Users = {u1, u2}
  CurrencyIds = {1, 2}
  dex_rewards <- MCDexRewards
  PoolIds <- MCPoolIds
  Accounts <- MCAccounts
  caculate_reward <- dex_reward
  Shares = {1, 2}
  MaxShare = 4
  MaxBlock = 2
  ExistentialReward = 0
  ExistentialDeposit = 0
  MaxBalance = 120
  DIV = 12
INVARIANT RewardCheckNeverFires
