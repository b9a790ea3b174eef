---------------------------- MODULE ArtifactLock ----------------------------
(***************************************************************************)
(* The lock file of one (model, revision): acquireArtifactLock with its    *)
(* re-stat loop, the two operations that take it (Pack and Delete), the    *)
(* unlink of the lock file by Delete while it holds it, and the pruning of *)
(* the empty model directory after the lock is dropped (wrap/wrap.go,      *)
(* wrap/delete.go).                                                        *)
(*                                                                         *)
(* A process is a modelwrap run (a container: it may be killed at any      *)
(* point, and the kernel then closes its descriptors).  The file system is *)
(* modelled by what the lock depends on: whether the model directory       *)
(* exists, whether anything else is in it, the inode linked at             *)
(* <revision>.lock, each run's open descriptor, and the flock on each      *)
(* inode.  An unlinked inode that no process has open may be reused by the *)
(* next create.  What a run does with the artifacts while it holds the     *)
(* lock is PackStore's subject; here it is one step, Work.                 *)
(***************************************************************************)
EXTENDS Naturals

CONSTANTS
    Procs,      \* concurrent modelwrap runs on this revision
    Inodes,     \* inodes the lock file may get
    None,       \* no inode, no owner
    MaxRuns     \* bound: runs a process slot may start one after another

ASSUME LockAssumption ==
    /\ None \notin Procs
    /\ None \notin Inodes
    /\ MaxRuns \in Nat

VARIABLES
    dir,        \* outputModelDir exists
    own,        \* it holds artifacts or staged files of this revision
    sibling,    \* it holds files of another revision of the model
    path,       \* inode linked at base+".lock", or None
    fd,         \* fd[p]: inode p has open as its lock file, or None
    owner,      \* owner[i]: process whose descriptor holds the flock on i
    pc,         \* pc[p]: next system call of p
    kind,       \* kind[p]: "pack" or "delete"
    left,       \* left[p]: runs p may still start
    outcome     \* outcome[p]: what the last run of p returned

disk == <<dir, own, sibling, path>>
run  == <<kind, left>>
vars == <<dir, own, sibling, path, fd, owner, pc, kind, left, outcome>>

Kinds    == {"pack", "delete"}
Acquired == {"recheck", "held", "worked", "unlinked"}
Opened   == {"trylock", "wait"} \cup Acquired
Critical == {"held", "worked"}
Running  == {"mkdir", "open", "prune"} \cup Opened

InCS(p) == pc[p] \in Critical

\* Mutant of Empty: the prune ignores the lock file.
EmptyButLock == ~own /\ ~sibling

\* rmdir of outputModelDir would succeed.
Empty == path = None /\ ~own /\ ~sibling

Init ==
    /\ sibling \in BOOLEAN
    /\ dir = sibling
    /\ own = FALSE
    /\ path = None
    /\ fd = [p \in Procs |-> None]
    /\ owner = [i \in Inodes |-> None]
    /\ pc = [p \in Procs |-> "idle"]
    /\ kind = [p \in Procs |-> "pack"]
    /\ left = [p \in Procs |-> MaxRuns]
    /\ outcome = [p \in Procs |-> "none"]

-----------------------------------------------------------------------------
(* Helpers.                                                                *)

Goto(p, from, to) == pc[p] = from /\ pc' = [pc EXCEPT ![p] = to]

\* Mutant of Close: the descriptor is dropped but not closed.
CloseNothing(p) ==
    /\ fd' = [fd EXCEPT ![p] = None]
    /\ UNCHANGED owner

\* close(2) of p's descriptor: the flock goes with it.
Close(p) ==
    /\ fd' = [fd EXCEPT ![p] = None]
    /\ owner' = [i \in Inodes |-> IF owner[i] = p THEN None ELSE owner[i]]

Returns(p, what) == outcome' = [outcome EXCEPT ![p] = what]

-----------------------------------------------------------------------------
(* One run of Pack or Delete.                                              *)

\* Pack gets here after its download, Delete right away.
Start(p, k) ==
    /\ left[p] > 0
    /\ Goto(p, "idle", "mkdir")
    /\ kind' = [kind EXCEPT ![p] = k]
    /\ left' = [left EXCEPT ![p] = @ - 1]
    /\ Returns(p, "none")
    /\ UNCHANGED <<disk, fd, owner>>

\* os.MkdirAll(outputModelDir)
MkdirAll(p) ==
    /\ Goto(p, "mkdir", "open")
    /\ dir' = TRUE
    /\ UNCHANGED <<own, sibling, path, fd, owner, run, outcome>>

\* os.OpenFile(path, O_CREATE|O_RDWR) where the directory is there.
OpenLock(p) ==
    /\ dir
    /\ Goto(p, "open", "trylock")
    /\ \/ path # None /\ UNCHANGED path
       \/ /\ path = None
          /\ path' \in {i \in Inodes : \A q \in Procs : fd[q] # i}
    /\ fd' = [fd EXCEPT ![p] = path']
    /\ UNCHANGED <<dir, own, sibling, owner, run, outcome>>

\* os.OpenFile where the directory is gone: ENOENT ends the run.
OpenFails(p) ==
    /\ ~dir
    /\ Goto(p, "open", "idle")
    /\ Returns(p, "enoent")
    /\ UNCHANGED <<disk, fd, owner, run>>

\* Mutant of Lock: a shared flock.
LockShared(p) == owner' = [owner EXCEPT ![fd[p]] = p]

Lock(p) ==
    /\ owner[fd[p]] = None
    /\ owner' = [owner EXCEPT ![fd[p]] = p]

\* flock(LOCK_EX|LOCK_NB): the lock, or EWOULDBLOCK and the blocking call.
TryLock(p) ==
    /\ \/ Goto(p, "trylock", "recheck") /\ Lock(p)
       \/ Goto(p, "trylock", "wait") /\ owner[fd[p]] # None /\ UNCHANGED owner
    /\ UNCHANGED <<disk, fd, run, outcome>>

\* flock(LOCK_EX): enabled once the holder has closed.
WaitLock(p) ==
    /\ Goto(p, "wait", "recheck")
    /\ Lock(p)
    /\ UNCHANGED <<disk, fd, run, outcome>>

\* Mutant of Recheck: no second stat of the path.
RecheckNothing(p) ==
    /\ Goto(p, "recheck", "held")
    /\ UNCHANGED <<disk, fd, owner, run, outcome>>

\* Mutant of Recheck: the retry does not close the old file.
RecheckLeaks(p) ==
    /\ \/ Goto(p, "recheck", "held") /\ path = fd[p]
       \/ Goto(p, "recheck", "open") /\ path # fd[p]
    /\ UNCHANGED <<disk, fd, owner, run, outcome>>

\* os.Stat(path), os.SameFile: is the inode still the one at the path?
Recheck(p) ==
    /\ \/ Goto(p, "recheck", "held") /\ path = fd[p] /\ UNCHANGED <<fd, owner>>
       \/ Goto(p, "recheck", "open") /\ path # fd[p] /\ Close(p)
    /\ UNCHANGED <<disk, run, outcome>>

\* MkdirAll, OpenFile, flock or Stat fails for another reason: the run ends.
SyscallFails(p) ==
    /\ pc[p] \in {"mkdir", "open", "trylock", "wait", "recheck"}
    /\ pc' = [pc EXCEPT ![p] = "idle"]
    /\ Close(p)
    /\ Returns(p, "error")
    /\ UNCHANGED <<disk, run>>

\* Everything done to the revision under the lock: a Pack publishes, or
\* fails with or without files left behind; a Delete removes, or fails to.
Work(p) ==
    /\ Goto(p, "held", "worked")
    /\ own' \in {own, kind[p] = "pack"}
    /\ UNCHANGED <<dir, sibling, path, fd, owner, run, outcome>>

\* Delete: os.Remove(base+".lock"), which may fail and is then reported.
Unlink(p) ==
    /\ kind[p] = "delete"
    /\ Goto(p, "worked", "unlinked")
    /\ path' \in {None, path}
    /\ UNCHANGED <<dir, own, sibling, fd, owner, run, outcome>>

\* release(): Pack's deferred one, and Delete's.
Release(p) ==
    /\ \/ kind[p] = "pack" /\ Goto(p, "worked", "idle") /\ Returns(p, "ok")
       \/ Goto(p, "unlinked", "prune") /\ UNCHANGED outcome
    /\ Close(p)
    /\ UNCHANGED <<disk, run>>

\* Delete: pruneEmptyParents, no longer under the lock.
Prune(p) ==
    /\ Goto(p, "prune", "idle")
    /\ dir' = (dir /\ ~Empty)
    /\ Returns(p, "ok")
    /\ UNCHANGED <<own, sibling, path, fd, owner, run>>

\* The process is killed; the kernel closes its descriptors.
Crash(p) ==
    /\ pc[p] \in Running
    /\ pc' = [pc EXCEPT ![p] = "idle"]
    /\ Close(p)
    /\ Returns(p, "crashed")
    /\ UNCHANGED <<disk, run>>

-----------------------------------------------------------------------------
(* Runs on the model's other revisions share the directory but not the     *)
(* lock.                                                                   *)

SiblingWrites ==
    /\ dir' = TRUE
    /\ sibling' \in {sibling, TRUE}
    /\ UNCHANGED <<own, path, fd, owner, pc, run, outcome>>

SiblingRemoves ==
    /\ sibling' = FALSE
    /\ UNCHANGED <<dir, own, path, fd, owner, pc, run, outcome>>

SiblingPrunes ==
    /\ dir /\ Empty
    /\ dir' = FALSE
    /\ UNCHANGED <<own, sibling, path, fd, owner, pc, run, outcome>>

-----------------------------------------------------------------------------
Progress(p) ==
    \/ MkdirAll(p) \/ OpenLock(p) \/ OpenFails(p)
    \/ TryLock(p) \/ WaitLock(p) \/ Recheck(p)
    \/ Work(p) \/ Unlink(p) \/ Release(p) \/ Prune(p)

Next ==
    \/ \E p \in Procs :
          \/ \E k \in Kinds : Start(p, k)
          \/ Progress(p)
          \/ SyscallFails(p)
          \/ Crash(p)
    \/ SiblingWrites
    \/ SiblingRemoves
    \/ SiblingPrunes

\* A run that can take its next system call takes it, unless it is killed;
\* nothing obliges anybody to start one.
Spec == Init /\ [][Next]_vars /\ \A p \in Procs : WF_vars(Progress(p))

-----------------------------------------------------------------------------
(* Properties.                                                             *)

\* Every variable has its type, and a run holds a descriptor exactly while
\* it is between OpenFile and close: no path out of acquireArtifactLock,
\* retries and errors included, leaves a descriptor (and its flock) behind.
TypeOK ==
    /\ dir \in BOOLEAN /\ own \in BOOLEAN /\ sibling \in BOOLEAN
    /\ path \in Inodes \cup {None}
    /\ fd \in [Procs -> Inodes \cup {None}]
    /\ owner \in [Inodes -> Procs \cup {None}]
    /\ pc \in [Procs -> Running \cup {"idle"}]
    /\ kind \in [Procs -> Kinds]
    /\ left \in [Procs -> 0..MaxRuns]
    /\ outcome \in [Procs -> {"none", "ok", "enoent", "error", "crashed"}]
    /\ \A p \in Procs : fd[p] # None <=> pc[p] \in Opened

\* Two runs never touch the revision's artifacts at the same time, although
\* a delete unlinks the lock file while others wait on the old inode
\* (the re-stat loop of acquireArtifactLock).
MutualExclusion ==
    \A p, q \in Procs : InCS(p) /\ InCS(q) => p = q

\* While a run works on the artifacts the lock file at the path is the one
\* it has locked, and the directory is there: whoever comes later meets the
\* same inode and waits, and no prune by a finished delete or by a sibling
\* revision takes the directory away under a build or a publish.
HolderKeepsPath ==
    \A p \in Procs : InCS(p) => dir /\ path = fd[p] /\ owner[path] = p

\* acquireArtifactLock and release implement the abstract mutex: the lock is
\* acquired where the re-stat confirms the inode, and given up where a delete
\* unlinks the file (not only where it closes it).
Holder == IF \E p \in Procs : InCS(p) THEN CHOOSE p \in Procs : InCS(p) ELSE None

AbstractLock == INSTANCE Mutex WITH holder <- Holder

ImplementsMutex == AbstractLock!Spec

\* Every run that starts returns or is killed: a waiter whose inode was
\* unlinked does not wait for it forever, and the retry loop ends.
EveryRunReturns ==
    \A p \in Procs : pc[p] # "idle" ~> pc[p] = "idle"
=============================================================================
