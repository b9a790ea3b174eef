CONSTANTS
    Procs = {p1, p2}
    None = None
    Schemas = {1, 2}
    Keys = {k1, k2}
    k1 = k1
    k2 = k2
    Jobs <- DownloadsAndDelete
    Siblings = FALSE
    MaxRuns = 3
    MaxCrashes = 0
    MayFail = FALSE
SPECIFICATION Spec
INVARIANTS NoTruncatedArtifact
