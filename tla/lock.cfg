\* Three runs at once: a delete, a waiter on the unlinked inode, a third on the new lock file.
CONSTANTS
    Procs = {p1, p2, p3}
    Inodes = {i1, i2}
    None = None
    MaxRuns = 1
SPECIFICATION Spec
INVARIANTS TypeOK MutualExclusion HolderKeepsPath
PROPERTIES ImplementsMutex EveryRunReturns
