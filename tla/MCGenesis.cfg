CONSTANT Specs <- BuiltInAndArbitrary
SPECIFICATION Spec
INVARIANTS BuiltInChainsStart IssuanceIsBacked BuildsWhenWellFormed ReadyWhenPaired
