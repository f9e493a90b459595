SPECIFICATION AlgorithmsSpec
CONSTANTS
    MaxNodes = 150
    Forks <- MCForks
    ByteBits = 2
    LimbBits = 6
    Limbs = 3
    MedianSpan = 3
    MaxTimewarp = 2
    HeightBip34 = 1
    HeightBip66 = 2
    HeightBip65 = 2
    MaxChain = 8
    MaxMoney = 30
    MaxWeight = 200
    MaxSigops = 10
    Bip34Height = 3
    Bip34Hash = "none"
    CsvHeight = 4
    SegwitHeight = 4
    RepeatHashes = {}
    Bip30Limit = 5
    Subsidy = 4
    HalvingInterval = 4
    MaxHalvings = 64
    GroupBits = 3
    VarintBits = 10
    MaxExponent = 2
    MaxAmount = 30000
    MaxInputs = 9
    MaxOutputs = 9
    MaxCoinHeight = 31
    MaxScript = 6
    NumBase = 4
    NumSize = 2
    LockSize = 3
    MaxScriptSize = 40
    MaxElement = 80
    MaxStack = 9
    MaxOps = 5
    MaxKeys = 3
    SigopWeight = 2
    WeightOffset = 2
    Size <- MCSize
    Verifies <- MCVerifies
    TxLock = 3
    TxSequence = 5
    TxVersion = 2
    LockThreshold = 6
    SequenceFinal = 15
    DisableFlag = 8
    TypeFlag = 4
    SequenceMask = 3
    MaxProgram = 3
    SignetHeader <- MCSignetHeader
    ByteBase = 5
    Widths <- MCWidths
    MaxSerialized = 30
INVARIANTS
    SignaturesBind
    AncestorAgrees
    LocatorFindsFork
    CompactExact
    HeaderChainAdvances
    HeaderBindsBlock
    CodecsExact
    
    ChecksAreCharged
    SoftForksTighten
CHECK_DEADLOCK FALSE
