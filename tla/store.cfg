CONSTANTS
    Procs = {p1, p2}
    None = None
    Schemas = {1, 2}
    Keys = {k1, k2}
    k1 = k1
    k2 = k2
    Jobs <- AllJobs
    Siblings = TRUE
    MaxRuns = 3
    MaxCrashes = 1
    MayFail = TRUE
SPECIFICATION Spec
INVARIANTS TypeOK CommitRecordTrue SchemaTruth EmwpMatchesMwp BuiltFromSource DeleteLeavesNothing ReturnedArtifactDelivered
PROPERTIES LiveStagedUntouched ImplementsArtifactSet
SYMMETRY Symmetry
