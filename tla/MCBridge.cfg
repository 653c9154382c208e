SPECIFICATION FairBridgeSpec
CONSTANTS
  BSC = BSC
  Networks = {BSC, Ethereum}
  TxHashes = {t1}
  EthereumAddresses = {e1, e2}
  alice = alice
  Accounts = {alice, treasury}
  ModuleAccount = treasury
  RelayerKeys = {alice}
  None = None
  ExistentialDeposit = 0
  MaxBalance = 7
  Limits = {2}
  Fees = {1}
  Values = {2}
  GenesisBalances <- MCGenesis
INVARIANTS
  OneStorageInForce
  ClaimsHaveDeposits
PROPERTIES
  Conservation
  ImplementsLedger
  DepositsAreMinted
