------------------------------- MODULE Mutex -------------------------------
(***************************************************************************)
(* What acquireArtifactLock promises its callers (wrap/wrap.go): of all    *)
(* the modelwrap processes working on one (model, revision) on one host,   *)
(* at most one is between its acquisition of the lock and the point where  *)
(* it stops relying on it.  ArtifactLock implements this with flock on a   *)
(* lock file that --delete unlinks; PackStore relies on nothing else.      *)
(***************************************************************************)
CONSTANTS Procs, None

VARIABLE holder     \* the process inside its critical section, or None

Init == holder = None

Acquire(p) == holder = None /\ holder' = p

Release(p) == holder = p /\ holder' = None

Next == \E p \in Procs : Acquire(p) \/ Release(p)

Spec == Init /\ [][Next]_holder
=============================================================================
