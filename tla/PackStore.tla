------------------------------ MODULE PackStore ------------------------------
(***************************************************************************)
(* The artifact store of one (model, revision): Pack and Delete            *)
(* (wrap/wrap.go, wrap/delete.go) run by several processes over the same   *)
(* output directory and the same download cache, each file-system effect a *)
(* step of its own, with failures and kills between any two of them.       *)
(*                                                                         *)
(* The lock is the abstract Mutex, which ArtifactLock implements.  A file  *)
(* is what a reader can tell of it: the bytes of an image follow from the  *)
(* schema that built it and from the state of the source directory, its    *)
(* root hash (the .info file) stands for the image, and an encrypted image *)
(* is the plain image and the key.  mkfs, veritysetup, sgdisk and hf are   *)
(* outside the repository and modelled from how it uses them.  Seeding     *)
(* (wrap/seed.go) is here as far as the shared download cache can tell:    *)
(* SeedDownload has it file by file.                                       *)
(***************************************************************************)
EXTENDS Naturals, Sequences, FiniteSets

CONSTANTS
    Procs,          \* process slots
    None,
    Schemas,        \* PackSchemas' ids; 1 predates the sidecars
    Keys,           \* EMWP master keys
    Jobs,           \* the requests a process may be started with
    Siblings,       \* whether other revisions are in the cache to seed from
    MaxRuns,        \* bound: runs started in all
    MaxCrashes,     \* bound: processes killed
    MayFail         \* whether system calls and tools may fail

Suffixes == {".mpk", ".info", ".emwp", ".emwp.info", ".schema"}

JobType == [op : {"pack", "delete"}, schema : Schemas, local : BOOLEAN,
            verify : BOOLEAN, encrypt : BOOLEAN, key : Keys \cup {None}]

\* whole: built from every file of the source; clean: without hf's .cache.
Images == [schema : Schemas, whole : BOOLEAN, clean : BOOLEAN]
Ciphers == [image : Images, key : Keys]

ASSUME StoreAssumption ==
    /\ Schemas \subseteq Nat \ {0} /\ 1 \in Schemas
    /\ Jobs \subseteq JobType
    /\ Siblings \in BOOLEAN
    /\ MaxRuns \in Nat /\ MaxCrashes \in Nat
    /\ MayFail \in BOOLEAN
    /\ None \notin Procs \cup Schemas \cup Keys \cup Images \cup Ciphers

VARIABLES
    disk,       \* disk[s]: content of base+s, or None
    cache,      \* cacheRevisionDir: "absent", "partial" or "full"
    dotCache,   \* hf's .cache directory is in it
    links,      \* runs with a link in it they have not verified yet
    stray,      \* an unverified link of a run that is over is left in it
    missed,     \* downloads that may miss a file removed behind them
    lost,       \* downloads and seedings a delete removed files from
    staged,     \* runs with a live staged temp file
    orphan,     \* a staged temp file of a run that is over is left behind
    holder,     \* the run holding the artifact lock (Mutex)
    pc,         \* pc[p]: next step of p
    job,        \* job[p]: its request
    at,         \* at[p]: position in a list of files
    seen,       \* seen[p]: files its early check has found so far
    ref,        \* ref[p]: the image it built or read from the info file
    result,     \* result[p]: what the last run of p returned
    left,       \* runs that may still be started
    crashes,    \* processes killed so far
    meddled,    \* history, meddled[p]: what others changed in p's source
    stripped    \* history: a delete took the sidecar of a set that stayed

source == <<cache, dotCache, links, stray, missed, lost>>
temps  == <<staged, orphan>>
knows  == <<job, at, seen, ref>>
mind   == <<knows, meddled>>
ledger == <<left, crashes, stripped>>
vars   == <<disk, source, temps, holder, pc, mind, result, ledger>>

Lock == INSTANCE Mutex

\* checkExistingArtifacts stats in this order, then reads the sidecar.
StatOrder   == <<".mpk", ".info", ".emwp", ".emwp.info">>

\* Mutant of DeleteOrder: the sidecar is forgotten.
DeleteOrderNoSidecar == <<".emwp.info", ".emwp", ".info", ".mpk">>

\* Delete removes in this order.
DeleteOrder == <<".emwp.info", ".emwp", ".info", ".mpk", ".schema">>

Empty == [s \in Suffixes |-> None]

\* A set packed before sidecars existed: complete, schema 1, no sidecar.
Legacy ==
    LET i == [schema |-> 1, whole |-> TRUE, clean |-> TRUE]
    IN  [Empty EXCEPT ![".mpk"] = i, ![".info"] = i]

Init ==
    /\ disk \in {Empty, Legacy}
    /\ cache = "absent" /\ dotCache = FALSE
    /\ links = {} /\ stray = FALSE /\ missed = {} /\ lost = {}
    /\ staged = {} /\ orphan = FALSE
    /\ Lock!Init
    /\ pc = [p \in Procs |-> "idle"]
    /\ job = [p \in Procs |-> None]
    /\ at = [p \in Procs |-> 1]
    /\ seen = [p \in Procs |-> {}]
    /\ ref = [p \in Procs |-> None]
    /\ meddled = [p \in Procs |-> {}]
    /\ result = [p \in Procs |-> "none"]
    /\ left = MaxRuns
    /\ crashes = 0
    /\ stripped = FALSE

-----------------------------------------------------------------------------
(* checkExistingArtifacts, as a decision on what it has read.              *)

Present == {s \in Suffixes : disk[s] # None}

\* Mutant of Artifacts: an encrypted image alone is no artifact.
ArtifactsPlain(found) == found \cap {".mpk", ".info"}

Artifacts(found) == found \cap {".mpk", ".info", ".emwp", ".emwp.info"}
HasSet(found) == {".mpk", ".info"} \subseteq found
SidecarSchema == IF disk[".schema"] = None THEN 1 ELSE disk[".schema"]

\* Mutant of Verdict: a partial set is built over.
VerdictRebuilds(found, want) ==
    CASE ~HasSet(found)                             -> "fresh"
      [] HasSet(found) /\ SidecarSchema # want      -> "mismatch"
      [] HasSet(found) /\ SidecarSchema = want      -> "reuse"

\* Mutant of Verdict: any complete set is reused.
VerdictAnySchema(found, want) ==
    CASE Artifacts(found) = {}                      -> "fresh"
      [] Artifacts(found) # {} /\ ~HasSet(found)    -> "partial"
      [] HasSet(found)                              -> "reuse"

\* Mutant of Verdict: a set of another schema is replaced.
VerdictReplaces(found, want) ==
    CASE Artifacts(found) = {}                      -> "fresh"
      [] Artifacts(found) # {} /\ ~HasSet(found)    -> "partial"
      [] HasSet(found) /\ SidecarSchema # want      -> "fresh"
      [] HasSet(found) /\ SidecarSchema = want      -> "reuse"

Verdict(found, want) ==
    CASE Artifacts(found) = {}                      -> "fresh"
      [] Artifacts(found) # {} /\ ~HasSet(found)    -> "partial"
      [] HasSet(found) /\ SidecarSchema # want      -> "mismatch"
      [] HasSet(found) /\ SidecarSchema = want      -> "reuse"

-----------------------------------------------------------------------------
(* Helpers.                                                                *)

\* p takes a step and goes on.
Goes(p, from, to) ==
    /\ pc[p] = from
    /\ pc' = [pc EXCEPT ![p] = to]
    /\ UNCHANGED holder

\* Mutant of Ends: the lock is not released.
EndsLocked(p, r) ==
    /\ pc' = [pc EXCEPT ![p] = "idle"]
    /\ result' = [result EXCEPT ![p] = r]
    /\ job' = [job EXCEPT ![p] = None]
    /\ at' = [at EXCEPT ![p] = 1]
    /\ seen' = [seen EXCEPT ![p] = {}]
    /\ ref' = [ref EXCEPT ![p] = None]
    /\ meddled' = [meddled EXCEPT ![p] = {}]
    /\ UNCHANGED holder

\* The run returns (or dies) with r: it forgets everything, and its lock, if
\* it has it, is released.
Ends(p, r) ==
    /\ pc' = [pc EXCEPT ![p] = "idle"]
    /\ result' = [result EXCEPT ![p] = r]
    /\ IF holder = p THEN Lock!Release(p) ELSE UNCHANGED holder
    /\ job' = [job EXCEPT ![p] = None]
    /\ at' = [at EXCEPT ![p] = 1]
    /\ seen' = [seen EXCEPT ![p] = {}]
    /\ ref' = [ref EXCEPT ![p] = None]
    /\ meddled' = [meddled EXCEPT ![p] = {}]

Write(s, v) == disk' = [disk EXCEPT ![s] = v]

Stages(p)   == staged' = staged \cup {p} /\ UNCHANGED orphan
Unstages(p) == staged' = staged \ {p} /\ UNCHANGED orphan

\* A process starts Pack or Delete; Delete goes straight for the lock.
Start(p, j) ==
    /\ left > 0 /\ left' = left - 1
    /\ Goes(p, "idle", IF j.op = "pack" THEN "stat" ELSE "lock")
    /\ job' = [job EXCEPT ![p] = j]
    /\ result' = [result EXCEPT ![p] = "none"]
    /\ UNCHANGED <<disk, source, temps, at, seen, ref, meddled, crashes, stripped>>

-----------------------------------------------------------------------------
(* Pack before the lock: the early check and the download.                 *)

\* One os.Stat of the unlocked checkExistingArtifacts.
StatOne(p) ==
    /\ at[p] <= Len(StatOrder)
    /\ Goes(p, "stat", "stat")
    /\ seen' = [seen EXCEPT ![p] = @ \cup ({StatOrder[at[p]]} \cap Present)]
    /\ at' = [at EXCEPT ![p] = @ + 1]
    /\ UNCHANGED <<disk, source, temps, job, ref, meddled, result, ledger>>

\* Its read of the sidecar and its verdict, on files seen one by one.
StatDone(p) ==
    /\ at[p] > Len(StatOrder)
    /\ Verdict(seen[p], job[p].schema) \in {"fresh", "reuse"}
    /\ Goes(p, "stat", IF job[p].local THEN "lock" ELSE "download")
    /\ at' = [at EXCEPT ![p] = 1]
    /\ seen' = [seen EXCEPT ![p] = {}]
    /\ UNCHANGED <<disk, source, temps, job, ref, meddled, result, ledger>>

StatRefuses(p) ==
    /\ pc[p] = "stat" /\ at[p] > Len(StatOrder)
    /\ LET verdict == Verdict(seen[p], job[p].schema)
       IN  verdict \in {"partial", "mismatch"} /\ Ends(p, verdict)
    /\ UNCHANGED <<disk, source, temps, ledger>>

-----------------------------------------------------------------------------
(* The download into the directory every run of this revision shares.      *)

\* p's image will be, or is being, built from that directory.
UsesCache(p) ==
    \/ pc[p] \in {"fetch", "scrub"}
    \/ /\ pc[p] \in {"lock", "check", "stage", "build"}
       /\ job[p].op = "pack" /\ ~job[p].local

\* p changes what the others are going to build from.
Meddles(p, what) ==
    meddled' = [q \in Procs |->
                  IF q # p /\ UsesCache(q) THEN meddled[q] \cup what ELSE meddled[q]]

Refilled == IF cache = "absent" THEN "partial" ELSE cache

\* seedFromPreviousRevisions makes the directory for its probe of the mode,
\* and .cache in it.
SeedBegins(p) ==
    /\ Siblings
    /\ Goes(p, "download", "seed")
    /\ cache' = Refilled /\ dotCache' = TRUE
    /\ lost' = lost \ {p}
    /\ Meddles(p, {".cache"})
    /\ UNCHANGED <<disk, links, stray, missed, temps, knows, result, ledger>>

\* A worker links a sibling's file; a file that is there it leaves for hf.
SeedLinks(p) ==
    /\ Goes(p, "seed", "seed")
    /\ cache # "full" /\ cache' = "partial"
    /\ links' = links \cup {p}
    /\ UNCHANGED <<disk, dotCache, stray, missed, lost, temps, mind, result, ledger>>

\* The last link is dealt with, or others are in place yet.
SettlesLink(p) == links' = links \/ links' = links \ {p}

SeedVerifies(p) ==
    /\ Goes(p, "seed", "seed")
    /\ p \in links /\ SettlesLink(p)
    /\ UNCHANGED <<disk, cache, dotCache, stray, missed, lost, temps, mind, result, ledger>>

\* What does not verify is removed, by its path: what another run's hf has
\* meanwhile put there goes, and that hf may be past it; a link that another
\* run has made there after a delete goes too.
SeedRejects(p) ==
    /\ Goes(p, "seed", "seed")
    /\ p \in links /\ SettlesLink(p)
    /\ cache # "absent" /\ cache' = "partial"
    /\ missed' = missed \cup {q \in Procs : pc[q] = "fetch"}
    /\ lost' = IF p \in lost THEN lost \cup links ELSE lost
    /\ Meddles(p, {"files"})
    /\ UNCHANGED <<disk, dotCache, stray, temps, knows, result, ledger>>

\* Mutant of SeedAborts: a link that could not be removed is no error.
SeedAbortsHeedless(p) ==
    /\ p \in links
    /\ Goes(p, "seed", "fetch")
    /\ MayFail
    /\ dotCache' = TRUE
    /\ UNCHANGED <<disk, cache, links, stray, missed, lost, temps, mind, result, ledger>>

\* The removal fails, also where the link has gone with a delete: "aborting
\* to protect pack integrity".
SeedAborts(p) ==
    /\ pc[p] = "seed" /\ p \in links
    /\ Ends(p, "error")
    /\ links' = links \ {p}
    /\ \/ MayFail /\ stray' = TRUE
       \/ p \in lost /\ UNCHANGED stray
    /\ UNCHANGED <<disk, cache, dotCache, missed, lost, temps, ledger>>

\* hf starts to fill the directory and keeps its metadata in .cache.  Files
\* that are complete are kept.  Without siblings there was no seeding.
DownloadBegins(p) ==
    /\ Goes(p, "download", "fetch") \/ Goes(p, "seed", "fetch")
    /\ p \notin links
    /\ cache' = Refilled /\ dotCache' = TRUE
    /\ lost' = lost \ {p}
    /\ Meddles(p, {".cache"})
    /\ UNCHANGED <<disk, links, stray, missed, temps, knows, result, ledger>>

\* hf is done; it errors on vanished paths (DownloadFails).
HfReturns(p) ==
    /\ Goes(p, "fetch", "scrub")
    /\ p \notin lost
    /\ dotCache' = TRUE
    /\ missed' = missed \ {p}
    /\ UNCHANGED <<disk, links, lost, temps, knows, result, ledger>>

\* hf has put every file there; a file that was there it has hashed.
DownloadEnds(p) ==
    /\ HfReturns(p)
    /\ cache' = "full" /\ stray' = FALSE
    /\ Meddles(p, {".cache"})

\* A file that hf was done with has been removed behind it.
DownloadMisses(p) ==
    /\ HfReturns(p)
    /\ p \in missed
    /\ UNCHANGED <<cache, stray>>
    /\ Meddles(p, {".cache"})

\* hf's request for a file's metadata fails: it trusts the link that is there.
DownloadTrusts(p) ==
    /\ HfReturns(p)
    /\ MayFail /\ (stray \/ links # {})
    /\ UNCHANGED <<cache, stray>>
    /\ meddled' = [q \in Procs |->
         IF q = p THEN meddled[p] \cup (IF stray \/ links \ {p} # {} THEN {"files"} ELSE {})
         ELSE IF UsesCache(q) THEN meddled[q] \cup {".cache"} ELSE meddled[q]]

\* hf goes on where a delete has removed the directory under it.
DownloadStrays(p) ==
    /\ Goes(p, "fetch", "fetch")
    /\ cache = "absent" /\ cache' = "partial" /\ dotCache' = TRUE
    /\ Meddles(p, {".cache"})
    /\ UNCHANGED <<disk, links, stray, missed, lost, temps, knows, result, ledger>>

\* hf fails; what it has downloaded stays.
DownloadFails(p) ==
    /\ pc[p] = "fetch"
    /\ MayFail \/ p \in lost
    /\ Ends(p, "error")
    /\ missed' = missed \ {p}
    /\ UNCHANGED <<disk, cache, dotCache, links, stray, lost, temps, ledger>>

\* os.RemoveAll(modelDir/.cache), "for reproducibility".
Scrub(p) ==
    /\ Goes(p, "scrub", "lock")
    /\ dotCache' = FALSE
    /\ UNCHANGED <<disk, cache, links, stray, missed, lost, temps, mind, result, ledger>>

-----------------------------------------------------------------------------
(* Under the lock.                                                         *)

\* Mutant of AcquireLock: Delete does without the lock.
AcquireLockPackOnly(p) ==
    /\ pc[p] = "lock"
    /\ IF job[p].op = "pack" THEN Lock!Acquire(p) ELSE UNCHANGED holder
    /\ pc' = [pc EXCEPT ![p] = IF job[p].op = "pack" THEN "check" ELSE "remove"]
    /\ UNCHANGED <<disk, source, temps, mind, result, ledger>>

\* acquireArtifactLock
AcquireLock(p) ==
    /\ Lock!Acquire(p)
    /\ pc[p] = "lock"
    /\ pc' = [pc EXCEPT ![p] = IF job[p].op = "pack" THEN "check" ELSE "remove"]
    /\ UNCHANGED <<disk, source, temps, mind, result, ledger>>

\* The authoritative check.  Nobody else writes now: one step.
Check(p) ==
    /\ pc[p] = "check"
    /\ LET verdict == Verdict(Present, job[p].schema)
       IN  \/ verdict = "reuse" /\ Goes(p, "check", "backfill")
           \/ verdict = "fresh" /\ Goes(p, "check", "stage")
    /\ UNCHANGED <<disk, source, temps, mind, result, ledger>>

CheckRefuses(p) ==
    /\ pc[p] = "check"
    /\ LET verdict == Verdict(Present, job[p].schema)
       IN  verdict \in {"partial", "mismatch"} /\ Ends(p, verdict)
    /\ UNCHANGED <<disk, source, temps, ledger>>

\* backfillSchemaSidecar: an existing sidecar is left untouched.
Backfill(p) ==
    /\ Goes(p, "backfill", "readInfo")
    /\ IF disk[".schema"] = None THEN Write(".schema", job[p].schema) ELSE UNCHANGED disk
    /\ UNCHANGED <<source, temps, mind, result, ledger>>

\* buildMWP: stagedPath
StageMwp(p) ==
    /\ Goes(p, "stage", "build")
    /\ Stages(p)
    /\ UNCHANGED <<disk, source, mind, result, ledger>>

\* buildMWP: mkfs.erofs reads the source directory, which must exist, and
\* the hash tree fixes the root hash of what was read.
BuildMwp(p) ==
    /\ Goes(p, "build", "pubSchema")
    /\ job[p].local \/ cache # "absent"
    /\ ref' = [ref EXCEPT ![p] = [schema |-> job[p].schema,
                                  whole  |-> job[p].local \/ cache = "full",
                                  clean  |-> job[p].local \/ ~dotCache]]
    /\ UNCHANGED <<disk, source, temps, job, at, seen, meddled, result, ledger>>

\* mkfs refuses a missing directory; buildMWP removes its staged file.
BuildRefused(p) ==
    /\ pc[p] = "build" /\ ~job[p].local /\ cache = "absent"
    /\ Ends(p, "error")
    /\ Unstages(p)
    /\ UNCHANGED <<disk, source, ledger>>

\* Mutant of PublishSchema: a sidecar that is there is left untouched.
PublishSchemaOnce(p) ==
    /\ Goes(p, "pubSchema", "pubMpk")
    /\ IF disk[".schema"] = None THEN Write(".schema", job[p].schema) ELSE UNCHANGED disk
    /\ UNCHANGED <<source, temps, mind, result, ledger>>

\* publishArtifacts: the sidecar first,
PublishSchema(p) ==
    /\ Goes(p, "pubSchema", "pubMpk")
    /\ Write(".schema", job[p].schema)
    /\ UNCHANGED <<source, temps, mind, result, ledger>>

\* then the staged image,
PublishMpk(p) ==
    /\ Goes(p, "pubMpk", "pubInfo")
    /\ p \in staged
    /\ Write(".mpk", ref[p]) /\ Unstages(p)
    /\ UNCHANGED <<source, mind, result, ledger>>

\* and the commit record last.
PublishInfo(p) ==
    /\ Goes(p, "pubInfo", "readInfo")
    /\ Write(".info", ref[p])
    /\ UNCHANGED <<source, temps, mind, result, ledger>>

\* VerifyMWP if asked for, then parseInfoFile: what is returned is what the
\* info file says, not what this run built.
ReadInfo(p) ==
    /\ Goes(p, "readInfo", IF job[p].encrypt THEN "encrypt" ELSE "return")
    /\ disk[".info"] # None
    /\ job[p].verify => disk[".mpk"] = disk[".info"]
    /\ ref' = [ref EXCEPT ![p] = disk[".info"]]
    /\ UNCHANGED <<disk, source, temps, job, at, seen, meddled, result, ledger>>

\* loadMasterKey has a key and there is no .emwp yet: encryptEMWP stages one.
StageEmwp(p) ==
    /\ Goes(p, "encrypt", "pubEmwp")
    /\ job[p].key # None /\ disk[".emwp"] = None
    /\ Stages(p)
    /\ UNCHANGED <<disk, source, mind, result, ledger>>

\* An existing .emwp is used as it is, whatever key it was made with.
ReuseEmwp(p) ==
    /\ Goes(p, "encrypt", "pubEmwpInfo")
    /\ job[p].key # None /\ disk[".emwp"] # None
    /\ UNCHANGED <<disk, source, temps, mind, result, ledger>>

NoKey(p) ==
    /\ pc[p] = "encrypt" /\ job[p].key = None
    /\ Ends(p, "error")
    /\ UNCHANGED <<disk, source, temps, ledger>>

\* encryptEMWP: encrypt the .mpk on disk, rename into place.
PublishEmwp(p) ==
    /\ Goes(p, "pubEmwp", "pubEmwpInfo")
    /\ p \in staged
    /\ Write(".emwp", [image |-> disk[".mpk"], key |-> job[p].key]) /\ Unstages(p)
    /\ UNCHANGED <<source, mind, result, ledger>>

\* writeStaged(".emwp.info"), overwriting an existing one; VerifyEMWP then
\* stages a file to decrypt into.
PublishEmwpInfo(p) ==
    /\ Goes(p, "pubEmwpInfo", IF job[p].verify THEN "verifyEmwp" ELSE "return")
    /\ Write(".emwp.info", ref[p])
    /\ IF job[p].verify THEN Stages(p) ELSE UNCHANGED temps
    /\ UNCHANGED <<source, mind, result, ledger>>

\* VerifyEMWP: decrypt with the run's own key, verify against the info file.
EmwpVerifies(p) ==
    disk[".emwp"] = [image |-> disk[".emwp.info"], key |-> job[p].key]

VerifyEmwp(p) ==
    /\ Goes(p, "verifyEmwp", "return")
    /\ EmwpVerifies(p)
    /\ Unstages(p)
    /\ UNCHANGED <<disk, source, mind, result, ledger>>

VerifyEmwpRefuses(p) ==
    /\ pc[p] = "verifyEmwp" /\ ~EmwpVerifies(p)
    /\ Ends(p, "error")
    /\ Unstages(p)
    /\ UNCHANGED <<disk, source, ledger>>

\* ref.String() is returned and the deferred release runs.
PackReturns(p) ==
    /\ pc[p] = "return"
    /\ Ends(p, "ok")
    /\ UNCHANGED <<disk, source, temps, ledger>>

\* Any step may fail with an I/O or tool error.  A build or an encryption
\* removes its staged file; a failed publish leaves the staged image, and a
\* failed rename of writeStaged leaves its temp file.
ImageStaged  == {"pubSchema", "pubMpk"}
WritesStaged == {"backfill", "pubSchema", "pubInfo", "pubEmwpInfo"}

StepFails(p) ==
    /\ MayFail
    /\ pc[p] \in {"stat", "download", "scrub", "lock", "check", "stage", "build", "pubMpk",
                  "readInfo", "encrypt", "pubEmwp", "verifyEmwp"} \cup WritesStaged
    /\ Ends(p, "error")
    /\ staged' = staged \ {p}
    /\ \/ pc[p] \in ImageStaged \cup WritesStaged /\ orphan' = TRUE
       \/ pc[p] \notin ImageStaged /\ UNCHANGED orphan
    /\ UNCHANGED <<disk, source, ledger>>

-----------------------------------------------------------------------------
(* Delete, under the lock; an error is kept and the removal goes on.       *)

NotesError(p) == result' = [result EXCEPT ![p] = "error"]

\* os.Remove of one published file; ENOENT is no error.
RemoveOne(p) ==
    /\ at[p] <= Len(DeleteOrder)
    /\ Goes(p, "remove", "remove")
    /\ at' = [at EXCEPT ![p] = @ + 1]
    /\ LET s == DeleteOrder[at[p]]
       IN  \/ Write(s, None) /\ UNCHANGED result
           \/ MayFail /\ disk[s] # None /\ UNCHANGED disk /\ NotesError(p)
    /\ stripped' = (\/ stripped
                    \/ disk[".schema"] # None /\ disk'[".schema"] = None /\ HasSet(Present))
    /\ UNCHANGED <<source, temps, job, seen, ref, meddled, left, crashes>>

\* Every staged file of the revision goes, whoever made it.
SweepStaged(p) ==
    /\ at[p] > Len(DeleteOrder)
    /\ Goes(p, "remove", "purge")
    /\ \/ staged' = {} /\ orphan' = FALSE /\ UNCHANGED result
       \/ MayFail /\ UNCHANGED temps /\ NotesError(p)
    /\ UNCHANGED <<disk, source, mind, ledger>>

Downloading == {q \in Procs : pc[q] \in {"seed", "fetch"}}

\* os.RemoveAll(cacheRevisionDir) is not atomic: it starts,
PurgeBegins(p) ==
    /\ Goes(p, "purge", "purging")
    /\ cache' = IF cache = "absent" THEN "absent" ELSE "partial"
    /\ lost' = lost \cup Downloading
    /\ Meddles(p, {"files"})
    /\ UNCHANGED <<disk, dotCache, links, stray, missed, temps, knows, result, ledger>>

\* and ends, or fails half-way.
PurgeEnds(p) ==
    /\ Goes(p, "purging", "unlock")
    /\ lost' = lost \cup Downloading
    /\ \/ cache' = "absent" /\ dotCache' = FALSE /\ stray' = FALSE /\ UNCHANGED result
       \/ MayFail /\ UNCHANGED <<cache, dotCache, stray>> /\ NotesError(p)
    /\ Meddles(p, {"files"})
    /\ UNCHANGED <<disk, links, missed, temps, knows, ledger>>

\* The lock file is unlinked and released, empty directories are pruned.
DeleteReturns(p) ==
    /\ pc[p] = "unlock"
    /\ Ends(p, IF result[p] = "error" THEN "error" ELSE "ok")
    /\ UNCHANGED <<disk, source, temps, ledger>>

-----------------------------------------------------------------------------
\* A process is killed; nothing of its clean-up runs, the kernel releases
\* the lock.
Crash(p) ==
    /\ pc[p] # "idle" /\ crashes < MaxCrashes
    /\ crashes' = crashes + 1
    /\ Ends(p, "crashed")
    /\ staged' = staged \ {p}
    /\ orphan' = (orphan \/ p \in staged)
    /\ links' = links \ {p}
    /\ stray' = (stray \/ p \in links)
    /\ missed' = missed \ {p}
    /\ UNCHANGED <<disk, cache, dotCache, lost, left, stripped>>

Fill(p) ==
    \/ SeedBegins(p) \/ SeedLinks(p) \/ SeedVerifies(p) \/ SeedRejects(p)
    \/ DownloadBegins(p) \/ DownloadEnds(p) \/ DownloadMisses(p) \/ DownloadTrusts(p)
    \/ DownloadStrays(p)

Pack(p) ==
    \/ StatOne(p) \/ StatDone(p) \/ StatRefuses(p)
    \/ Fill(p) \/ SeedAborts(p) \/ DownloadFails(p) \/ Scrub(p)
    \/ Check(p) \/ CheckRefuses(p) \/ Backfill(p)
    \/ StageMwp(p) \/ BuildMwp(p) \/ BuildRefused(p)
    \/ PublishSchema(p) \/ PublishMpk(p) \/ PublishInfo(p) \/ ReadInfo(p)
    \/ StageEmwp(p) \/ ReuseEmwp(p) \/ NoKey(p) \/ PublishEmwp(p) \/ PublishEmwpInfo(p)
    \/ VerifyEmwp(p) \/ VerifyEmwpRefuses(p) \/ PackReturns(p)

Delete(p) ==
    \/ RemoveOne(p) \/ SweepStaged(p) \/ PurgeBegins(p) \/ PurgeEnds(p) \/ DeleteReturns(p)

Terminating ==
    /\ \A p \in Procs : pc[p] = "idle"
    /\ left = 0
    /\ UNCHANGED vars

Next ==
    \/ \E p \in Procs :
          \/ \E j \in Jobs : Start(p, j)
          \/ AcquireLock(p)
          \/ Pack(p)
          \/ Delete(p)
          \/ StepFails(p)
          \/ Crash(p)
    \/ Terminating

Spec == Init /\ [][Next]_vars

-----------------------------------------------------------------------------
(* Properties.                                                             *)

PCs == {"idle", "stat", "download", "seed", "fetch", "scrub", "lock", "check", "backfill", "stage",
        "build", "pubSchema", "pubMpk", "pubInfo", "readInfo", "encrypt", "pubEmwp",
        "pubEmwpInfo", "verifyEmwp", "return", "remove", "purge", "purging", "unlock"}
Outside == {"idle", "stat", "download", "seed", "fetch", "scrub", "lock"}
Results == {"none", "ok", "partial", "mismatch", "error", "crashed"}

DiskType ==
    /\ DOMAIN disk = Suffixes
    /\ disk[".mpk"] \in Images \cup {None} /\ disk[".info"] \in Images \cup {None}
    /\ disk[".emwp"] \in Ciphers \cup {None} /\ disk[".emwp.info"] \in Images \cup {None}
    /\ disk[".schema"] \in Schemas \cup {None}

\* Every variable has its type, and the artifact lock is held exactly by the
\* run that is in its locked part: every return of Pack, early or not, and
\* of Delete releases it.
TypeOK ==
    /\ DiskType
    /\ cache \in {"absent", "partial", "full"} /\ dotCache \in BOOLEAN
    /\ links \cup missed \cup lost \subseteq Procs /\ stray \in BOOLEAN
    /\ staged \subseteq Procs /\ orphan \in BOOLEAN
    /\ holder \in Procs \cup {None}
    /\ pc \in [Procs -> PCs]
    /\ job \in [Procs -> Jobs \cup {None}]
    /\ at \in [Procs -> 1 .. Len(DeleteOrder) + 1]
    /\ seen \in [Procs -> SUBSET Suffixes]
    /\ ref \in [Procs -> Images \cup {None}]
    /\ meddled \in [Procs -> SUBSET {"files", ".cache"}]
    /\ result \in [Procs -> Results]
    /\ left \in 0 .. MaxRuns
    /\ crashes \in 0 .. MaxCrashes
    /\ stripped \in BOOLEAN
    /\ \A p \in Procs : holder = p <=> pc[p] \notin Outside

\* The .info file is the commit record (SPEC.md:26): where it and the .mpk
\* are both there they describe the same image, whatever publish or removal
\* was interrupted and whoever came after.
CommitRecordTrue == HasSet(Present) => disk[".mpk"] = disk[".info"]

\* The schema a later request compares with is the one that built the image,
\* for sets older than sidecars too, unless a Delete took the sidecar of a
\* set it could not remove (checkExistingArtifacts, wrap.go:286).
SchemaTruth ==
    HasSet(Present) /\ ~stripped => SidecarSchema = disk[".info"].schema

\* A complete plain set beside an encrypted one is what was encrypted.
EmwpMatchesMwp ==
    HasSet(Present) =>
        /\ disk[".emwp"] # None => disk[".emwp"].image = disk[".info"]
        /\ disk[".emwp.info"] # None => disk[".emwp.info"] = disk[".info"]

\* What a run is about to publish holds the whole source, unless during its
\* own download or after it another run removed files of it (a delete, or a
\* seeding by path) or hf trusted a link others had left unverified; and
\* nothing of .cache, unless another seeding or hf ran since its download.
BuiltFromSource ==
    \A p \in Procs : pc[p] \in {"pubSchema", "pubMpk", "pubInfo"} =>
        /\ ref[p].whole \/ "files" \in meddled[p]
        /\ ref[p].clean \/ ".cache" \in meddled[p]

\* A Delete about to return without an error has left no published file and
\* no staged file, of runs that crashed or failed included.
DeleteLeavesNothing ==
    \A p \in Procs : pc[p] = "unlock" /\ result[p] # "error" =>
        disk = Empty /\ staged = {} /\ ~orphan

\* The sweep of a Delete never takes a live run's staged file (delete.go:75):
\* it disappears by a step of its owner only.
LiveStagedUntouched ==
    [][\A p \in staged : p \notin staged' => pc'[p] # pc[p]]_vars

\* What a Pack is about to return is what a reader finds at that moment, and
\* was built under the schema asked for.
ReturnedArtifactDelivered ==
    \A p \in Procs : pc[p] = "return" =>
        /\ disk[".mpk"] = ref[p] /\ disk[".info"] = ref[p]
        /\ ~stripped => ref[p].schema = job[p].schema
        /\ job[p].encrypt => disk[".emwp"] # None /\ disk[".emwp.info"] = ref[p]

OfferedMwp == IF HasSet(Present) THEN disk[".info"] ELSE None
OfferedEmwp ==
    IF HasSet(Present) /\ {".emwp", ".emwp.info"} \subseteq Present THEN disk[".emwp"] ELSE None

Offered == INSTANCE ArtifactSet WITH mwp <- OfferedMwp, emwp <- OfferedEmwp

\* Through all its intermediate states the store is an ArtifactSet: what it
\* offers is what its commit records name, and no offer is ever replaced.
ImplementsArtifactSet == Offered!Spec

-----------------------------------------------------------------------------
(* What the repository says and the code does not do.                      *)

\* wrap/wrap.go:286: existing artifacts are "never silently reused across
\* schemas".
NoCrossSchemaReuse ==
    \A p \in Procs : pc[p] = "return" => ref[p].schema = job[p].schema

\* wrap/delete.go:44: a Pack still in its pre-lock download phase when the
\* cache is deleted "fails loudly".
NoTruncatedArtifact == disk[".mpk"] # None => disk[".mpk"].whole
=============================================================================
