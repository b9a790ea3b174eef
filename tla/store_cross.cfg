CONSTANTS
    Procs = {p1, p2}
    None = None
    Schemas = {1, 2}
    Keys = {k1, k2}
    k1 = k1
    k2 = k2
    Jobs <- LocalAndDelete
    Siblings = TRUE
    MaxRuns = 3
    MaxCrashes = 0
    MayFail = TRUE
SPECIFICATION Spec
INVARIANTS NoCrossSchemaReuse
