\* Captures of up to four packets of sixteen kinds.
SPECIFICATION StoredSpec
CONSTANTS
    A = A
    B = B
    C = C
    D = D
    N = N
    s1 = s1
    s2 = s2
    s3 = s3
    s4 = s4
    s5 = s5
    r = r
    None = None
    Malformed = Malformed
    Unset = Unset
    ZeroSpi = ZeroSpi
    Second <- MCSecond
    ReplaySample = 2
    TRANSFORM_BRUTEFORCE_THRESHOLD = 2
    AGGRESSIVE_PROBE_THRESHOLD = 2
    REKEY_STORM_THRESHOLD = 2
    REKEY_STORM_WINDOW_SEC = 60
    PublicIp <- MCPublic
    Alphabet <- MCAlphabet
    MaxPackets = 4
    PredictIke <- MCPredictIke
    PredictMode <- MCPredictMode
    PredictTraffic <- MCPredictTraffic
    Texts <- MCTexts
    MaxRecords = 5
    MaxImportPackets = 2
INVARIANTS
    Accounted
    SameUnlessMoved
    ObservedOnly
    FindingsRest
    AcceptedWins
    ReplayVerdict
    DowngradeWitness
    OrderIrrelevant
    WireThenGateway
    DriftIsReported
    OneStory
PROPERTIES
    KnownStaysKnown
    RetransmissionTellsNothing
CHECK_DEADLOCK FALSE
