\* Two clients and two runs; the source of the second run may hang.
SPECIFICATION FairSpec
CONSTANTS
    Client = {c1, c2}
    NoClient = NoClient
    NoFile = NoFile
    MaxRuns = 2
    Supply = 1
    PacketLimit = 1
    MayHang = {2}
INVARIANTS
    TypeOK
    OneRunning
    OverIsQuiet
    LastTickSeesAll
PROPERTIES
    OverIsFinal
    StopIsAnswered
    RunEnds
CHECK_DEADLOCK FALSE
