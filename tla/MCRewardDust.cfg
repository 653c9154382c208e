\* The existential deposit and reward are equal and positive, as in mock.rs of
\* the pallet, so that a claim can reap the sub account of the pool.
SPECIFICATION IncentiveSpec
CONSTANTS
  Users = {u1, u2}
  CurrencyIds = {1, 2}
  dex_rewards <- MCDexRewards
  PoolIds <- MCPoolIds
  Accounts <- MCAccounts
  caculate_reward <- dex_reward
  Shares = {1, 2}
  MaxShare = 4
  MaxBlock = 2
  ExistentialReward = 2
  ExistentialDeposit = 2
  MaxBalance = 120
  DIV = 12
INVARIANT UseableCanBeWithdrawn
