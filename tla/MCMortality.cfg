CONSTANTS
    BlockHashCount = 5
    MaxBlock = 24
SPECIFICATION MortalitySpec
INVARIANT ValidForItsPeriod
