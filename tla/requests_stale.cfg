\* An import that read the job before a live tick saved it saves it after.
SPECIFICATION Spec
CONSTANTS
    a = a
    b = b
    Id = {a, b}
    NoReport = NoReport
    Missing = Missing
    NoRow = NoRow
    NoJob = NoJob
    Job = {j1}
    Report = {g}
    MaxPackets = 2
    AnalysisOf <- MCAnalysis
    Request = {r1}
    KeepCaptures = {TRUE}
    SeedDemo = FALSE
    DemoCapture = 2
    MaxCrashes = 0
    MaxRuns = 1
    Auditing = FALSE
CONSTRAINT ShortLog
PROPERTIES
    NeverOlder
CHECK_DEADLOCK FALSE
