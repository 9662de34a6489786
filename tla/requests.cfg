\* Uploads, imports, deletes, the seed, the audit check and a live run, with a
\* crash, on one job or two, with an analysis whose two records share an id.
SPECIFICATION Spec
CONSTANTS
    a = a
    b = b
    Id = {a, b}
    NoReport = NoReport
    Missing = Missing
    NoRow = NoRow
    NoJob = NoJob
    Job = {j1, j2}
    Report = {g}
    MaxPackets = 2
    AnalysisOf <- MCCollidingAnalysis
    Request = {r1, r2}
    KeepCaptures = {TRUE, FALSE}
    SeedDemo = TRUE
    DemoCapture = 2
    MaxCrashes = 1
    MaxRuns = 1
    Auditing = TRUE
CONSTRAINTS ShortLog Load QuietCheck FewImports
SYMMETRY RequestSymmetry
INVARIANTS
    TypeOK
    NoStrayRows
    RowsMatchFiles
    AuditCommitsStore
    FlaggedMeansMoved
    RewriteIsDetected
PROPERTIES
    ImplementsLedger
    OnlyImportsUndo
CHECK_DEADLOCK FALSE
