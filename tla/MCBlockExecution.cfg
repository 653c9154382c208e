CONSTANTS
    v1 = v1
    v2 = v2
    Payers = {p1}
    Validators <- TwoValidators
    ValidatorLists <- Changing
    Treasury = treasury
    DefaultAccount = zero
    Funds = 4
    MaxWeight = 2
    MaxTip = 1
    MAXIMUM_BLOCK_WEIGHT = 5
    NORMAL_WEIGHT = 4
    AVERAGE_INIT = 1
    BaseBlock = 1
    BaseExtrinsic = 1
    MaxMandatory = 6
SPECIFICATION ExecutionSpec
INVARIANTS EthereumAuthorIsOwner AuthorIsPaid UserWeightFits
PROPERTIES OnlyGasIsBurnt EightyTwenty
