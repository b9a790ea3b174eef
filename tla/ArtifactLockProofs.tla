------------------------- MODULE ArtifactLockProofs -------------------------
(***************************************************************************)
(* Proofs about ArtifactLock, for any set of runs and of inodes: its type  *)
(* invariant, mutual exclusion, HolderKeepsPath, and that it implements    *)
(* Mutex.                                                                  *)
(***************************************************************************)
EXTENDS ArtifactLock, TLAPS

\* The flock on an inode belongs to a run exactly when the run has that inode
\* open and is past its flock call.
OwnerInv ==
    \A p \in Procs : \A i \in Inodes :
        owner[i] = p <=> fd[p] = i /\ pc[p] \in Acquired

\* What Recheck established stays true until the holder itself unlinks.
PathInv == \A p \in Procs : InCS(p) => path = fd[p]

\* A linked lock file keeps its directory from being pruned.
DirInv == path # None => dir

IInv == TypeOK /\ OwnerInv /\ PathInv /\ DirInv

-----------------------------------------------------------------------------
(* Consequences of the invariant.                                          *)

\* The holder's descriptor is a real inode whose flock it owns, and that is
\* what the path leads to.
LEMMA HolderFacts ==
    ASSUME IInv, NEW p \in Procs, InCS(p)
    PROVE  /\ fd[p] \in Inodes
           /\ path = fd[p]
           /\ owner[fd[p]] = p
           /\ path # None
           /\ dir
<1>1. pc[p] \in Acquired /\ pc[p] \in Opened
  BY DEF IInv, TypeOK, InCS, Critical, Acquired, Opened
<1>2. fd[p] \in Inodes /\ fd[p] # None
  BY <1>1 DEF IInv, TypeOK
<1>3. owner[fd[p]] = p
  BY <1>1, <1>2 DEF IInv, OwnerInv
<1>4. path = fd[p]
  BY DEF IInv, PathInv
<1> QED BY <1>2, <1>3, <1>4 DEF IInv, DirInv

\* IInv implies HolderKeepsPath.
LEMMA InvHolderKeepsPath == IInv => HolderKeepsPath
<1> SUFFICES ASSUME IInv, NEW p \in Procs, InCS(p)
             PROVE  dir /\ path = fd[p] /\ owner[path] = p
  BY DEF HolderKeepsPath
<1> QED BY HolderFacts

\* IInv implies MutualExclusion.
LEMMA InvMutualExclusion == IInv => MutualExclusion
<1> SUFFICES ASSUME IInv, NEW p \in Procs, NEW q \in Procs, InCS(p), InCS(q)
             PROVE  p = q
  BY DEF MutualExclusion
<1>1. path = fd[p] /\ owner[fd[p]] = p
  BY HolderFacts
<1>2. path = fd[q] /\ owner[fd[q]] = q
  BY HolderFacts
<1> QED BY <1>1, <1>2

-----------------------------------------------------------------------------
(* Induction.                                                              *)

\* The initial states satisfy the invariant.
LEMMA InitInv == Init => IInv
<1> SUFFICES ASSUME Init PROVE IInv
  OBVIOUS
<1>1. TypeOK
  <2>1. sibling \in BOOLEAN /\ dir \in BOOLEAN /\ own \in BOOLEAN
    BY Zenon DEF Init
  <2>2. \A p \in Procs : fd[p] = None /\ pc[p] = "idle"
    BY DEF Init
  <2>3. \A p \in Procs : fd[p] # None <=> pc[p] \in Opened
    BY <2>2 DEF Opened, Acquired
  <2>4. /\ path \in Inodes \cup {None}
        /\ fd \in [Procs -> Inodes \cup {None}]
        /\ owner \in [Inodes -> Procs \cup {None}]
        /\ pc \in [Procs -> Running \cup {"idle"}]
        /\ kind \in [Procs -> Kinds]
        /\ left \in [Procs -> 0..MaxRuns]
        /\ outcome \in [Procs -> {"none", "ok", "enoent", "error", "crashed"}]
    BY LockAssumption DEF Init, Kinds
  <2> QED BY <2>1, <2>3, <2>4 DEF TypeOK
<1>2. OwnerInv /\ PathInv /\ DirInv
  BY LockAssumption DEF Init, OwnerInv, PathInv, DirInv, InCS, Critical, Acquired
<1> QED BY <1>1, <1>2 DEF IInv

\* Closing a descriptor keeps what the invariant says of owners, when the
\* run that closes leaves the steps in which it holds the flock.
LEMMA CloseOwner ==
    ASSUME IInv, NEW p \in Procs, Close(p),
           pc' = [pc EXCEPT ![p] = pc'[p]], pc'[p] \notin Acquired
    PROVE  OwnerInv'
<1> SUFFICES ASSUME NEW q \in Procs, NEW i \in Inodes
             PROVE  owner'[i] = q <=> fd'[q] = i /\ pc'[q] \in Acquired
  BY DEF OwnerInv
<1>1. CASE q = p
  BY <1>1, LockAssumption DEF IInv, TypeOK, Close
<1>2. CASE q # p
  <2>1. owner'[i] = q <=> owner[i] = q
    BY <1>2, LockAssumption DEF IInv, TypeOK, Close
  <2>2. fd'[q] = fd[q] /\ pc'[q] = pc[q]
    BY <1>2 DEF IInv, TypeOK, Close
  <2> QED BY <2>1, <2>2 DEF IInv, OwnerInv
<1> QED BY <1>1, <1>2

\* Closing types.
LEMMA CloseType ==
    ASSUME IInv, NEW p \in Procs, Close(p)
    PROVE  /\ fd' \in [Procs -> Inodes \cup {None}]
           /\ owner' \in [Inodes -> Procs \cup {None}]
           /\ fd'[p] = None
           /\ \A q \in Procs \ {p} : fd'[q] = fd[q]
  BY DEF IInv, TypeOK, Close

\* Taking a free flock keeps what the invariant says of owners.
LEMMA LockOwner ==
    ASSUME IInv, NEW p \in Procs, Lock(p), pc[p] \in {"trylock", "wait"},
           pc' = [pc EXCEPT ![p] = "recheck"], UNCHANGED fd
    PROVE  OwnerInv' /\ owner' \in [Inodes -> Procs \cup {None}]
<1>1. fd[p] \in Inodes
  BY DEF IInv, TypeOK, Opened
<1>2. owner' = [owner EXCEPT ![fd[p]] = p] /\ owner[fd[p]] = None
  BY DEF Lock
<1>3. owner' \in [Inodes -> Procs \cup {None}]
  BY <1>1, <1>2 DEF IInv, TypeOK
<1>4. ASSUME NEW q \in Procs, NEW i \in Inodes
      PROVE  owner'[i] = q <=> fd'[q] = i /\ pc'[q] \in Acquired
  <2>1. CASE i = fd[p] /\ q = p
    BY <1>1, <1>2, <2>1 DEF IInv, TypeOK, Acquired
  <2>2. CASE i = fd[p] /\ q # p
    <3>1. owner[i] # q /\ owner'[i] # q
      BY <1>1, <1>2, <2>2, LockAssumption DEF IInv, TypeOK
    <3>2. ~(fd[q] = i /\ pc[q] \in Acquired)
      BY <3>1 DEF IInv, OwnerInv
    <3> QED BY <3>1, <3>2, <2>2 DEF IInv, TypeOK
  <2>3. CASE i # fd[p]
    <3>1. owner'[i] = owner[i]
      BY <1>2, <2>3 DEF IInv, TypeOK
    <3>2. CASE q = p
      BY <3>1, <3>2, <2>3 DEF IInv, OwnerInv
    <3>3. CASE q # p
      BY <3>1, <3>3 DEF IInv, OwnerInv, TypeOK
    <3> QED BY <3>2, <3>3
  <2> QED BY <2>1, <2>2, <2>3
<1> QED BY <1>3, <1>4 DEF OwnerInv

\* No step of any run, of a crash or of a sibling revision leaves the
\* invariant.
LEMMA NextInv == IInv /\ [Next]_vars => IInv'
<1> SUFFICES ASSUME IInv, [Next]_vars PROVE IInv'
  OBVIOUS
<1> USE DEF Goto, Returns, disk, run
<1>1. ASSUME NEW p \in Procs, NEW k \in Kinds, Start(p, k) PROVE IInv'
  <2>1. TypeOK'
    BY <1>1, LockAssumption DEF IInv, TypeOK, Start, Running, Opened, Acquired
  <2>2. OwnerInv' /\ PathInv' /\ DirInv'
    BY <1>1 DEF IInv, TypeOK, OwnerInv, PathInv, DirInv, Start, InCS, Critical, Acquired
  <2> QED BY <2>1, <2>2 DEF IInv
<1>2. ASSUME NEW p \in Procs, MkdirAll(p) PROVE IInv'
  <2>1. TypeOK'
    BY <1>2 DEF IInv, TypeOK, MkdirAll, Running, Opened, Acquired
  <2>2. OwnerInv' /\ PathInv' /\ DirInv'
    BY <1>2 DEF IInv, TypeOK, OwnerInv, PathInv, DirInv, MkdirAll, InCS, Critical, Acquired
  <2> QED BY <2>1, <2>2 DEF IInv
<1>3. ASSUME NEW p \in Procs, OpenLock(p) PROVE IInv'
  <2>0. path' \in Inodes
    BY <1>3 DEF IInv, TypeOK, OpenLock
  <2>1. TypeOK'
    BY <1>3, <2>0, LockAssumption DEF IInv, TypeOK, OpenLock, Running, Opened, Acquired
  <2>2. OwnerInv'
    BY <1>3 DEF IInv, TypeOK, OwnerInv, OpenLock, Acquired
  <2>3. PathInv'
    <3> SUFFICES ASSUME NEW q \in Procs, InCS(q)' PROVE path' = fd'[q]
      BY DEF PathInv
    <3>1. q # p /\ InCS(q)
      BY <1>3 DEF IInv, TypeOK, OpenLock, InCS, Critical
    <3>2. path # None /\ path = fd[q]
      BY <3>1, HolderFacts
    <3> QED BY <1>3, <3>1, <3>2 DEF IInv, TypeOK, OpenLock
  <2>4. DirInv'
    BY <1>3 DEF DirInv, OpenLock
  <2> QED BY <2>1, <2>2, <2>3, <2>4 DEF IInv
<1>4. ASSUME NEW p \in Procs, OpenFails(p) PROVE IInv'
  <2>1. TypeOK'
    BY <1>4 DEF IInv, TypeOK, OpenFails, Running, Opened, Acquired
  <2>2. OwnerInv' /\ PathInv' /\ DirInv'
    BY <1>4 DEF IInv, TypeOK, OwnerInv, PathInv, DirInv, OpenFails, InCS, Critical, Acquired
  <2> QED BY <2>1, <2>2 DEF IInv
<1>5. ASSUME NEW p \in Procs, TryLock(p) PROVE IInv'
  <2>1. CASE pc[p] = "trylock" /\ pc' = [pc EXCEPT ![p] = "recheck"] /\ Lock(p)
    <3>1. OwnerInv' /\ owner' \in [Inodes -> Procs \cup {None}]
      BY <1>5, <2>1, LockOwner DEF TryLock
    <3>2. TypeOK'
      BY <1>5, <2>1, <3>1 DEF IInv, TypeOK, TryLock, Running, Opened, Acquired
    <3>3. PathInv' /\ DirInv'
      BY <1>5, <2>1 DEF IInv, TypeOK, PathInv, DirInv, TryLock, InCS, Critical
    <3> QED BY <3>1, <3>2, <3>3 DEF IInv
  <2>2. CASE pc[p] = "trylock" /\ pc' = [pc EXCEPT ![p] = "wait"] /\ UNCHANGED owner
    <3>1. TypeOK'
      BY <1>5, <2>2 DEF IInv, TypeOK, TryLock, Running, Opened, Acquired
    <3>2. OwnerInv' /\ PathInv' /\ DirInv'
      BY <1>5, <2>2 DEF IInv, TypeOK, OwnerInv, PathInv, DirInv, TryLock, InCS, Critical, Acquired
    <3> QED BY <3>1, <3>2 DEF IInv
  <2> QED BY <1>5, <2>1, <2>2 DEF TryLock
<1>6. ASSUME NEW p \in Procs, WaitLock(p) PROVE IInv'
  <2>1. OwnerInv' /\ owner' \in [Inodes -> Procs \cup {None}]
    BY <1>6, LockOwner DEF WaitLock
  <2>2. TypeOK'
    BY <1>6, <2>1 DEF IInv, TypeOK, WaitLock, Running, Opened, Acquired
  <2>3. PathInv' /\ DirInv'
    BY <1>6 DEF IInv, TypeOK, PathInv, DirInv, WaitLock, InCS, Critical
  <2> QED BY <2>1, <2>2, <2>3 DEF IInv
<1>7. ASSUME NEW p \in Procs, Recheck(p) PROVE IInv'
  <2>1. CASE pc[p] = "recheck" /\ pc' = [pc EXCEPT ![p] = "held"]
             /\ path = fd[p] /\ UNCHANGED <<fd, owner>>
    <3>1. TypeOK'
      BY <1>7, <2>1 DEF IInv, TypeOK, Recheck, Running, Opened, Acquired
    <3>2. OwnerInv' /\ PathInv' /\ DirInv'
      BY <1>7, <2>1 DEF IInv, TypeOK, OwnerInv, PathInv, DirInv, Recheck, InCS, Critical, Acquired
    <3> QED BY <3>1, <3>2 DEF IInv
  <2>2. CASE pc[p] = "recheck" /\ pc' = [pc EXCEPT ![p] = "open"] /\ Close(p)
    <3>1. OwnerInv'
      BY <2>2, CloseOwner DEF IInv, TypeOK, Acquired
    <3>2. TypeOK'
      BY <1>7, <2>2, CloseType DEF IInv, TypeOK, Recheck, Running, Opened, Acquired
    <3>3. PathInv' /\ DirInv'
      BY <1>7, <2>2, CloseType DEF IInv, TypeOK, PathInv, DirInv, Recheck, InCS, Critical
    <3> QED BY <3>1, <3>2, <3>3 DEF IInv
  <2> QED BY <1>7, <2>1, <2>2 DEF Recheck
<1>8. ASSUME NEW p \in Procs, SyscallFails(p) \/ Crash(p) PROVE IInv'
  <2>1. pc' = [pc EXCEPT ![p] = "idle"] /\ Close(p) /\ UNCHANGED <<dir, own, sibling, path>>
    BY <1>8 DEF SyscallFails, Crash
  <2>2. OwnerInv'
    BY <2>1, CloseOwner DEF IInv, TypeOK, Acquired
  <2>3. TypeOK'
    BY <1>8, <2>1, CloseType DEF IInv, TypeOK, SyscallFails, Crash, Running, Opened, Acquired
  <2>4. PathInv' /\ DirInv'
    BY <2>1, CloseType DEF IInv, TypeOK, PathInv, DirInv, InCS, Critical
  <2> QED BY <2>2, <2>3, <2>4 DEF IInv
<1>9. ASSUME NEW p \in Procs, Work(p) PROVE IInv'
  <2>0. own' \in BOOLEAN
    BY <1>9, Zenon DEF IInv, TypeOK, Work
  <2>1. TypeOK'
    BY <1>9, <2>0 DEF IInv, TypeOK, Work, Running, Opened, Acquired
  <2>2. OwnerInv' /\ PathInv' /\ DirInv'
    BY <1>9 DEF IInv, TypeOK, OwnerInv, PathInv, DirInv, Work, InCS, Critical, Acquired
  <2> QED BY <2>1, <2>2 DEF IInv
<1>10. ASSUME NEW p \in Procs, Unlink(p) PROVE IInv'
  <2>1. TypeOK'
    BY <1>10 DEF IInv, TypeOK, Unlink, Running, Opened, Acquired
  <2>2. OwnerInv' /\ DirInv'
    BY <1>10 DEF IInv, TypeOK, OwnerInv, DirInv, Unlink, Acquired
  <2>3. PathInv'
    <3> SUFFICES ASSUME NEW q \in Procs, InCS(q)' PROVE FALSE
      BY DEF PathInv
    <3>1. InCS(p)
      BY <1>10 DEF Unlink, InCS, Critical
    <3>2. q # p /\ InCS(q)
      BY <1>10 DEF IInv, TypeOK, Unlink, InCS, Critical
    <3> QED BY <3>1, <3>2, InvMutualExclusion DEF MutualExclusion
  <2> QED BY <2>1, <2>2, <2>3 DEF IInv
<1>11. ASSUME NEW p \in Procs, Release(p) PROVE IInv'
  <2>1. /\ pc' = [pc EXCEPT ![p] = pc'[p]] /\ pc'[p] \in {"idle", "prune"}
        /\ Close(p) /\ UNCHANGED <<dir, own, sibling, path>>
    BY <1>11 DEF IInv, TypeOK, Release
  <2>2. OwnerInv'
    BY <2>1, CloseOwner DEF Acquired
  <2>3. TypeOK'
    BY <1>11, <2>1, CloseType DEF IInv, TypeOK, Release, Running, Opened, Acquired
  <2>4. PathInv' /\ DirInv'
    BY <2>1, CloseType DEF IInv, TypeOK, PathInv, DirInv, InCS, Critical
  <2> QED BY <2>2, <2>3, <2>4 DEF IInv
<1>12. ASSUME NEW p \in Procs, Prune(p) PROVE IInv'
  <2>0. dir' \in BOOLEAN
    BY <1>12, Zenon DEF Prune
  <2>1. TypeOK'
    BY <1>12, <2>0 DEF IInv, TypeOK, Prune, Running, Opened, Acquired
  <2>2. OwnerInv' /\ PathInv'
    BY <1>12 DEF IInv, TypeOK, OwnerInv, PathInv, Prune, InCS, Critical, Acquired
  <2>3. DirInv'
    BY <1>12 DEF IInv, DirInv, Prune, Empty
  <2> QED BY <2>1, <2>2, <2>3 DEF IInv
<1>13. ASSUME SiblingWrites \/ SiblingRemoves \/ SiblingPrunes PROVE IInv'
  <2>0. dir' \in BOOLEAN /\ sibling' \in BOOLEAN
    BY <1>13, Zenon DEF IInv, TypeOK, SiblingWrites, SiblingRemoves, SiblingPrunes
  <2>1. TypeOK'
    BY <1>13, <2>0 DEF IInv, TypeOK, SiblingWrites, SiblingRemoves, SiblingPrunes
  <2>2. OwnerInv' /\ PathInv'
    <3>1. UNCHANGED <<path, fd, owner, pc>>
      BY <1>13 DEF SiblingWrites, SiblingRemoves, SiblingPrunes
    <3> QED BY <3>1 DEF IInv, OwnerInv, PathInv, InCS
  <2>3. DirInv'
    BY <1>13 DEF IInv, DirInv, Empty, SiblingWrites, SiblingRemoves, SiblingPrunes
  <2> QED BY <2>1, <2>2, <2>3 DEF IInv
<1>14. CASE UNCHANGED vars
  BY <1>14 DEF vars, IInv, TypeOK, OwnerInv, PathInv, DirInv, InCS
<1> QED
  BY <1>1, <1>2, <1>3, <1>4, <1>5, <1>6, <1>7, <1>8, <1>9, <1>10, <1>11,
     <1>12, <1>13, <1>14 DEF Next, Progress

\* The invariant holds in every reachable state.
THEOREM Invariance == Spec => []IInv
<1> QED BY InitInv, NextInv, PTL DEF Spec

\* Type correctness and the descriptor discipline of acquireArtifactLock.
THEOREM TypeCorrect == Spec => []TypeOK
<1>1. IInv => TypeOK
  BY DEF IInv
<1> QED BY Invariance, <1>1, PTL

\* At most one run works on a revision's artifacts.
THEOREM LockExcludes == Spec => []MutualExclusion
<1> QED BY Invariance, InvMutualExclusion, PTL

\* The lock a run holds is the one every later run meets, in a directory no
\* prune takes away.
THEOREM LockStaysLinked == Spec => []HolderKeepsPath
<1> QED BY Invariance, InvHolderKeepsPath, PTL

-----------------------------------------------------------------------------
(* ArtifactLock implements Mutex.                                          *)

\* The abstract holder is the run in its critical section, if there is one.
LEMMA HolderIs == IInv => /\ \A p \in Procs : InCS(p) => Holder = p
                          /\ (\A p \in Procs : ~InCS(p)) => Holder = None
<1> SUFFICES ASSUME IInv, NEW p \in Procs, InCS(p) PROVE Holder = p
  BY DEF Holder
<1>1. (CHOOSE q \in Procs : InCS(q)) \in Procs /\ InCS(CHOOSE q \in Procs : InCS(q))
  OBVIOUS
<1>2. Holder = CHOOSE q \in Procs : InCS(q)
  BY DEF Holder
<1> QED BY <1>1, <1>2, InvMutualExclusion DEF MutualExclusion

\* The same of the next state.
LEMMA HolderIsNext == (IInv => \A p \in Procs : InCS(p) => Holder = p)'
<1>1. IInv => \A p \in Procs : InCS(p) => Holder = p
  BY HolderIs
<1> QED BY <1>1, PTL

\* A step after which the same runs are in their critical section is a
\* stuttering step of the mutex.
LEMMA SameHolder ==
    ASSUME IInv, IInv', \A p \in Procs : InCS(p)' <=> InCS(p)
    PROVE  UNCHANGED Holder
<1>1. CASE \E p \in Procs : InCS(p)
  <2>1. PICK p \in Procs : InCS(p) /\ InCS(p)'
    BY <1>1
  <2>2. Holder = p
    BY <2>1, HolderIs
  <2>3. Holder' = p
    BY <2>1, HolderIsNext
  <2> QED BY <2>2, <2>3
<1>2. CASE \A p \in Procs : ~InCS(p)
  BY <1>2 DEF Holder
<1> QED BY <1>1, <1>2

\* A run that leaves its critical section releases the mutex.
LEMMA LeavingReleases ==
    ASSUME IInv, NEW p \in Procs, InCS(p), ~InCS(p)',
           \A q \in Procs \ {p} : InCS(q)' <=> InCS(q)
    PROVE  AbstractLock!Release(p)
<1>1. Holder = p
  BY HolderIs
<1>2. \A q \in Procs : ~InCS(q)'
  BY InvMutualExclusion DEF MutualExclusion
<1>3. Holder' = None
  BY <1>2 DEF Holder
<1> QED BY <1>1, <1>3 DEF AbstractLock!Release

\* The step that confirms the locked inode acquires the mutex.
LEMMA EnteringAcquires ==
    ASSUME IInv, IInv', NEW p \in Procs, pc[p] = "recheck", path = fd[p],
           pc' = [pc EXCEPT ![p] = "held"]
    PROVE  AbstractLock!Acquire(p)
<1>1. fd[p] \in Inodes /\ owner[fd[p]] = p /\ ~InCS(p)
  BY DEF IInv, TypeOK, OwnerInv, Opened, Acquired, InCS, Critical
<1>2. \A q \in Procs : ~InCS(q)
  BY <1>1, HolderFacts
<1>3. Holder = None
  BY <1>2 DEF Holder
<1>4. InCS(p)'
  BY DEF IInv, TypeOK, InCS, Critical
<1>5. Holder' = p
  BY <1>4, HolderIsNext
<1> QED BY <1>3, <1>5 DEF AbstractLock!Acquire

\* Every step maps to a step of the mutex or to a stutter.
LEMMA StepRefines == IInv /\ IInv' /\ [Next]_vars => [AbstractLock!Next]_Holder
<1> SUFFICES ASSUME IInv, IInv', [Next]_vars PROVE [AbstractLock!Next]_Holder
  OBVIOUS
<1> USE DEF Goto
<1>1. CASE UNCHANGED pc
  BY <1>1, SameHolder DEF InCS
<1>2. ASSUME NEW p \in Procs, NEW to,
             pc' = [pc EXCEPT ![p] = to], pc[p] \notin Critical, to \notin Critical
      PROVE  UNCHANGED Holder
  BY <1>2, SameHolder DEF IInv, TypeOK, InCS
<1>3. ASSUME NEW p \in Procs, NEW to,
             pc' = [pc EXCEPT ![p] = to], pc[p] \in Critical, to \notin Critical
      PROVE  AbstractLock!Next
  <2>1. InCS(p) /\ ~InCS(p)' /\ \A q \in Procs \ {p} : InCS(q)' <=> InCS(q)
    BY <1>3 DEF IInv, TypeOK, InCS
  <2> QED BY <2>1, LeavingReleases DEF AbstractLock!Next
<1>4. ASSUME NEW p \in Procs, NEW k \in Kinds, Start(p, k) PROVE UNCHANGED Holder
  BY <1>4, <1>2 DEF Start, Critical
<1>5. ASSUME NEW p \in Procs,
             MkdirAll(p) \/ OpenLock(p) \/ OpenFails(p) \/ TryLock(p) \/ WaitLock(p)
             \/ SyscallFails(p) \/ Prune(p)
      PROVE  UNCHANGED Holder
  BY <1>5, <1>2 DEF MkdirAll, OpenLock, OpenFails, TryLock, WaitLock, SyscallFails,
                    Prune, Critical
<1>6. ASSUME NEW p \in Procs, Recheck(p) PROVE [AbstractLock!Next]_Holder
  <2>1. CASE pc[p] = "recheck" /\ pc' = [pc EXCEPT ![p] = "held"] /\ path = fd[p]
    BY <2>1, EnteringAcquires DEF AbstractLock!Next
  <2>2. CASE pc[p] = "recheck" /\ pc' = [pc EXCEPT ![p] = "open"]
    BY <2>2, <1>2 DEF Critical
  <2> QED BY <1>6, <2>1, <2>2 DEF Recheck
<1>7. ASSUME NEW p \in Procs, Work(p) PROVE UNCHANGED Holder
  BY <1>7, SameHolder DEF Work, IInv, TypeOK, InCS, Critical
<1>8. ASSUME NEW p \in Procs, Unlink(p) PROVE AbstractLock!Next
  BY <1>8, <1>3 DEF Unlink, Critical
<1>9. ASSUME NEW p \in Procs, Release(p) PROVE [AbstractLock!Next]_Holder
  BY <1>9, <1>2, <1>3 DEF Release, Critical
<1>10. ASSUME NEW p \in Procs, Crash(p) PROVE [AbstractLock!Next]_Holder
  <2>1. pc' = [pc EXCEPT ![p] = "idle"]
    BY <1>10 DEF Crash
  <2>2. CASE pc[p] \in Critical
    BY <2>1, <2>2, <1>3 DEF Critical
  <2>3. CASE pc[p] \notin Critical
    BY <2>1, <2>3, <1>2 DEF Critical
  <2> QED BY <2>2, <2>3
<1>11. ASSUME SiblingWrites \/ SiblingRemoves \/ SiblingPrunes PROVE UNCHANGED pc
  BY <1>11 DEF SiblingWrites, SiblingRemoves, SiblingPrunes
<1> QED
  BY <1>1, <1>4, <1>5, <1>6, <1>7, <1>8, <1>9, <1>10, <1>11 DEF Next, Progress, vars

\* acquireArtifactLock and release, with everything Delete does to the lock
\* file, implement the abstract mutex.
THEOREM LockImplementsMutex == Spec => ImplementsMutex
<1>1. Init => AbstractLock!Init
  BY DEF Init, InCS, Critical, Holder, AbstractLock!Init
<1> QED BY <1>1, Invariance, StepRefines, PTL
        DEF Spec, ImplementsMutex, AbstractLock!Spec
=============================================================================
