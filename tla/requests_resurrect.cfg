\* An import that read the job before it was deleted saves it after.
SPECIFICATION Spec
CONSTANTS
    a = a
    b = b
    Id = {a, b}
    NoReport = NoReport
    Missing = Missing
    NoRow = NoRow
    NoJob = NoJob
    Job = {j1, j2}
    Report = {g}
    MaxPackets = 2
    AnalysisOf <- MCAnalysis
    Request = {r1, r2}
    KeepCaptures = {TRUE}
    SeedDemo = FALSE
    DemoCapture = 2
    MaxCrashes = 0
    MaxRuns = 0
    Auditing = FALSE
CONSTRAINT ShortLog
SYMMETRY RequestSymmetry
PROPERTIES
    DeletedStaysDeleted
CHECK_DEADLOCK FALSE
