\* With an existential deposit mapped accounts can be reaped.
SPECIFICATION EvmSpec
CONSTANTS
  Natives = {alice, bob}
  Addresses = {e1, e2}
  None = None
  ExistentialDeposit = 1
  Amounts = {1, 2}
  Endowment = 3
  MaxNonce = 3
INVARIANTS MappingIsTwoWay AddressRoundTrip
SYMMETRY Symmetry
\* The nonces are bounded.
CHECK_DEADLOCK FALSE
