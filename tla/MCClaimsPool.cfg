SPECIFICATION FairPoolSpec
CONSTANTS
  BSC = BSC
  Networks = {BSC}
  TxHashes = {t1, t2}
  EthereumAddresses = {e1}
  Accounts = {alice, treasury}
  ModuleAccount = treasury
  None = None
  ExistentialDeposit = 0
  MaxBalance = 4
  Limits = {2}
  Fees = {0}
  Values = {1}
  GenesisBalances <- MCGenesis
  Nodes = {node1, node2}
INVARIANTS PoolsHoldNoDeadClaim
PROPERTIES PaidAsSigned SignedClaimsArePaid
