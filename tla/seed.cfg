\* Two Packs of one revision, one after the other or at once.
CONSTANTS
    Procs = {p1, p2}
    Files = {f1, f2}
    Siblings <- OneSibling
    None = None
    MayFail = TRUE
    MaxRuns = 3
    MaxCrashes = 1
SPECIFICATION Spec
INVARIANTS TypeOK UnverifiedOnlyBriefly PackedIsVerified
SYMMETRY Symmetry
