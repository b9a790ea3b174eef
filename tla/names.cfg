\* Two runs at a time, three in all, on any two of fourteen names.
CONSTANTS
    Words = {"m", "r", "c", "*"}
    Users = {u1, u2}
    Requests <- MCRequests
    Rands = {x, y}
    MaxRuns = 3
SPECIFICATION Spec
SYMMETRY Symmetry
INVARIANTS TypeOK StagedSurvives BuiltFromOwn ReturnsOwn
PROPERTIES OnlyOwnTouched DeleteCollects
