CONSTANTS
    Blocks <- MCBlocks
    Maturity = 2
    BlockGap = 300
    BadScripts = {}
    MaxHeight = 6
    MaxMoney = 30
    MaxWeight = 200
    MaxSigops = 10
    Bip34Height = 3
    Bip34Hash <- MCBip34Hash
    CsvHeight = 4
    SegwitHeight = 4
    RepeatHashes <- MCRepeats
    Bip30Limit = 5
    Subsidy = 4
    HalvingInterval = 4
    MaxHalvings = 64
SPECIFICATION ConnectSpec
INVARIANTS BatchIsSequential CoinsAreReplay NothingFromNothing
CHECK_DEADLOCK FALSE
