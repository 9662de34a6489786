\* A live tick commits while the audit check reads.
SPECIFICATION Spec
CONSTANTS
    a = a
    b = b
    Id = {a, b}
    NoReport = NoReport
    Missing = Missing
    NoRow = NoRow
    NoJob = NoJob
    Job = {j1, j2}
    Report = {}
    MaxPackets = 2
    AnalysisOf <- MCAnalysis
    Request = {r1}
    KeepCaptures = {TRUE}
    SeedDemo = FALSE
    DemoCapture = 2
    MaxCrashes = 0
    MaxRuns = 1
    Auditing = TRUE
CONSTRAINT ShortLog
INVARIANTS
    NoFalseAlarm
CHECK_DEADLOCK FALSE
