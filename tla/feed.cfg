\* Two pages, three ticks of a run and one upload.
SPECIFICATION Spec
CONSTANTS
    a = a
    b = b
    c = c
    d = d
    u = u
    Socket = {s1, s2}
    Id = {a, b}
    Event = {c, d}
    Doc = {1, 2}
    NoDoc = NoDoc
    Fingerprint <- MCFingerprint
    Upload = {u}
    UploadDocs <- MCUploadDocs
    UploadEvents <- MCUploadEvents
    Finds <- MCFinds
    MaxTicks = 3
CONSTRAINT FewAtOnce
SYMMETRY SocketSymmetry
INVARIANTS
    Mirror
    NoGhost
CHECK_DEADLOCK FALSE
