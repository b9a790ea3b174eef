\* Two runs at a time on revisions "r" and "r.emwp".
CONSTANTS
    Words = {"m", "r", "c", "*"}
    Users = {u1, u2}
    Requests <- MCRequests
    Rands = {x, y}
    MaxRuns = 3
SPECIFICATION Spec
SYMMETRY Symmetry
PROPERTIES NeverOverwritten
