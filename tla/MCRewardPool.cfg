\* One rewarded pair, two holders: shares of different sizes, debts, claims and
\* removals in every order over four blocks.
SPECIFICATION IncentiveSpec
CONSTANTS
  Users = {u1, u2}
  CurrencyIds = {1, 2}
  dex_rewards <- MCDexRewards
  PoolIds <- MCPoolIds
  Accounts <- MCAccounts
  caculate_reward <- dex_reward
  Shares = {1, 2}
  MaxShare = 3
  MaxBlock = 3
  ExistentialReward = 1
  ExistentialDeposit = 0
  MaxBalance = 40
  DIV = 10
INVARIANTS SharesAddUp PoolIsBacked DebtsAreVirtual LateStepsCannotFail
           EveryBlockIsGrantedOnce
PROPERTIES OthersKeepTheirRewards SurplusIsForgivenDebt StrandedUntilJoined
           PromiseIsPaid
SYMMETRY Symmetry
\* The block number is bounded, and shares cannot always be removed at once.
CHECK_DEADLOCK FALSE
