\* Two Packs of one revision at once, and nothing fails.
CONSTANTS
    Procs = {p1, p2}
    Files = {f1}
    Siblings <- TwoSiblings
    None = None
    MayFail = FALSE
    MaxRuns = 2
    MaxCrashes = 0
SPECIFICATION Spec
INVARIANTS PackedIsComplete
