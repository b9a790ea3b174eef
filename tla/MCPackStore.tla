---------------------------- MODULE MCPackStore ----------------------------
(* PackStore on small instances: the requests of each run.                 *)
EXTENDS PackStore, TLC

CONSTANTS k1, k2

Symmetry == Permutations(Procs)

PackJob(schema, local) ==
    [op |-> "pack", schema |-> schema, local |-> local,
     verify |-> FALSE, encrypt |-> FALSE, key |-> None]

DeleteJob == [PackJob(1, TRUE) EXCEPT !.op = "delete"]

Encrypted(j, key) == [j EXCEPT !.encrypt = TRUE, !.key = key]
Verified(j) == [j EXCEPT !.verify = TRUE]

\* Two schemas, two keys, a missing key, both sources.
AllJobs == {DeleteJob, PackJob(1, TRUE), Verified(Encrypted(PackJob(2, FALSE), k1)),
            Encrypted(PackJob(2, TRUE), k2), Encrypted(PackJob(1, FALSE), None)}

\* Downloads of one revision, and its deletion.
Downloads == {PackJob(1, FALSE)}
DownloadsAndDelete == Downloads \cup {DeleteJob}
LocalAndDelete == {PackJob(1, TRUE), PackJob(2, TRUE), DeleteJob}
=============================================================================
