\* The runtime: no existential deposit.
SPECIFICATION EvmSpec
CONSTANTS
  Natives = {alice, bob}
  Addresses = {e1, e2}
  None = None
  ExistentialDeposit = 0
  Amounts = {1, 2}
  Endowment = 3
  MaxNonce = 3
PROPERTIES ClaimMovesAllFunds EvmNonceNeverFalls
SYMMETRY Symmetry
\* The nonces are bounded.
CHECK_DEADLOCK FALSE
