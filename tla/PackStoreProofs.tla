-------------------------- MODULE PackStoreProofs --------------------------
(***************************************************************************)
(* Proofs about PackStore, for any number of processes, runs, kills and    *)
(* failures and any set of requests: its type invariant with the locking   *)
(* discipline, that the commit record is true, and that an encrypted image *)
(* beside a complete plain set is an encryption of it.                     *)
(***************************************************************************)
EXTENDS PackStore, TLAPS

\* TypeOK in two parts: the lock and the program counters,
LockType ==
    /\ holder \in Procs \cup {None}
    /\ pc \in [Procs -> PCs]
    /\ \A p \in Procs : holder = p <=> pc[p] \notin Outside

\* what the runs know,
MindType ==
    /\ job \in [Procs -> Jobs \cup {None}]
    /\ at \in [Procs -> 1 .. Len(DeleteOrder) + 1]
    /\ seen \in [Procs -> SUBSET Suffixes]
    /\ ref \in [Procs -> Images \cup {None}]
    /\ meddled \in [Procs -> SUBSET {"files", ".cache"}]
    /\ result \in [Procs -> Results]

\* and everything else.
WorldType ==
    /\ cache \in {"absent", "partial", "full"} /\ dotCache \in BOOLEAN
    /\ links \cup missed \cup lost \subseteq Procs /\ stray \in BOOLEAN
    /\ staged \subseteq Procs /\ orphan \in BOOLEAN
    /\ left \in 0 .. MaxRuns
    /\ crashes \in 0 .. MaxCrashes
    /\ stripped \in BOOLEAN

Building  == {"stage", "build", "pubSchema", "pubMpk"}
Built     == {"pubSchema", "pubMpk", "pubInfo"}
InfoRead  == {"encrypt", "pubEmwp", "pubEmwpInfo", "verifyEmwp", "return"}
Committed == {"backfill", "readInfo"} \cup InfoRead

\* No encrypted image, and no commit record.
Bare == disk[".info"] = None /\ disk[".emwp"] = None /\ disk[".emwp.info"] = None

\* What a run that holds the lock may rely on: nothing is there while it
\* builds, the plain set is complete and its own from the commit on.
RunInv(p) ==
    /\ pc[p] # "idle" => job[p] \in Jobs
    /\ pc[p] \in Building => Bare /\ disk[".mpk"] = None
    /\ pc[p] \in Built => ref[p] \in Images
    /\ pc[p] = "pubInfo" => Bare /\ disk[".mpk"] = ref[p]
    /\ pc[p] \in Committed => disk[".mpk"] # None /\ disk[".info"] # None
    /\ pc[p] \in InfoRead => ref[p] = disk[".info"]
    /\ pc[p] = "pubEmwp" => job[p].key # None /\ disk[".emwp"] = None

\* A complete set is one build's, and so is what stands beside it.
SetInv == CommitRecordTrue /\ EmwpMatchesMwp

StoreInv ==
    /\ LockType /\ MindType /\ WorldType /\ DiskType
    /\ \A p \in Procs : RunInv(p)
    /\ SetInv

-----------------------------------------------------------------------------
(* Lemmas.                                                                 *)

\* The parts make up TypeOK.
LEMMA TypeParts == LockType /\ MindType /\ WorldType /\ DiskType => TypeOK
BY DEF LockType, MindType, WorldType, TypeOK

\* None is no image, no key and no process.
LEMMA NoneFacts ==
    /\ None \notin Procs /\ None \notin Schemas /\ None \notin Keys
    /\ None \notin Images /\ None \notin Ciphers
BY StoreAssumption

\* A complete set, spelt out.
LEMMA HasSetFacts == HasSet(Present) <=> disk[".mpk"] # None /\ disk[".info"] # None
BY DEF HasSet, Present, Suffixes

\* What SetInv says, spelt out.
LEMMA SetFacts ==
    SetInv <=>
        (disk[".mpk"] # None /\ disk[".info"] # None =>
            /\ disk[".mpk"] = disk[".info"]
            /\ disk[".emwp"] # None => disk[".emwp"].image = disk[".info"]
            /\ disk[".emwp.info"] # None => disk[".emwp.info"] = disk[".info"])
BY HasSetFacts DEF SetInv, CommitRecordTrue, EmwpMatchesMwp

\* Writing one file leaves the others alone.
LEMMA WriteFacts ==
    ASSUME DiskType, NEW s \in Suffixes, NEW v, Write(s, v)
    PROVE  /\ DOMAIN disk' = Suffixes
           /\ disk'[s] = v
           /\ \A t \in Suffixes \ {s} : disk'[t] = disk[t]
BY DEF DiskType, Write

\* Two runs are not in their locked parts at once.
LEMMA OneHolder ==
    ASSUME LockType, NEW p \in Procs, NEW q \in Procs,
           pc[p] \notin Outside, pc[q] \notin Outside
    PROVE  p = q
BY DEF LockType

\* A step within the locked part, or within what comes before it.
LEMMA GoesLock ==
    ASSUME LockType, NEW p \in Procs, NEW from, NEW to \in PCs, Goes(p, from, to),
           from \in Outside <=> to \in Outside
    PROVE  /\ LockType'
           /\ pc[p] = from /\ pc'[p] = to
           /\ \A q \in Procs \ {p} : pc'[q] = pc[q]
BY DEF LockType, Goes

\* The end of a run, with its lock.
LEMMA EndsLock ==
    ASSUME LockType, NEW p \in Procs, NEW r, Ends(p, r)
    PROVE  /\ LockType'
           /\ pc'[p] = "idle"
           /\ \A q \in Procs \ {p} : pc'[q] = pc[q]
<1>1. /\ pc' = [pc EXCEPT ![p] = "idle"]
      /\ holder' = IF holder = p THEN None ELSE holder
  BY DEF Ends, Lock!Release
<1>2. "idle" \in PCs /\ "idle" \in Outside
  BY DEF PCs, Outside
<1>3. holder' \in Procs \cup {None} /\ pc' \in [Procs -> PCs]
  BY <1>1, <1>2 DEF LockType
<1>4. ASSUME NEW q \in Procs PROVE holder' = q <=> pc'[q] \notin Outside
  <2>1. CASE q = p
    BY <2>1, <1>1, <1>2, NoneFacts DEF LockType
  <2>2. CASE q # p
    BY <2>2, <1>1, NoneFacts DEF LockType
  <2> QED BY <2>1, <2>2
<1> QED BY <1>1, <1>3, <1>4 DEF LockType

\* The end of a run types, and leaves the others' minds alone.
LEMMA EndsMind ==
    ASSUME MindType, NEW p \in Procs, NEW r \in Results, Ends(p, r)
    PROVE  /\ MindType'
           /\ \A q \in Procs \ {p} : job'[q] = job[q] /\ ref'[q] = ref[q]
<1>1. 1 \in 1 .. Len(DeleteOrder) + 1
  BY DEF DeleteOrder
<1> QED BY <1>1 DEF MindType, Ends

\* A run that is outside its locked part relies on nothing but its request.
LEMMA OutsideInv ==
    ASSUME NEW p \in Procs, pc[p] \in Outside, pc[p] # "idle" => job[p] \in Jobs
    PROVE  RunInv(p)
BY DEF RunInv, Outside, Building, Built, Committed, InfoRead

\* A step of p that does not write the disk.
LEMMA QuietStep ==
    ASSUME StoreInv, NEW p \in Procs, LockType', MindType', WorldType', UNCHANGED disk,
           \A q \in Procs \ {p} : pc'[q] = pc[q] /\ job'[q] = job[q] /\ ref'[q] = ref[q],
           RunInv(p)'
    PROVE  StoreInv'
<1>1. ASSUME NEW q \in Procs \ {p} PROVE RunInv(q)'
  <2>1. RunInv(q) /\ pc'[q] = pc[q] /\ job'[q] = job[q] /\ ref'[q] = ref[q]
    BY DEF StoreInv
  <2> QED BY <2>1 DEF RunInv, Bare
<1>2. SetInv'
  BY SetFacts DEF StoreInv, SetInv, CommitRecordTrue, EmwpMatchesMwp, HasSet, Present
<1>3. DiskType'
  BY DEF StoreInv, DiskType
<1> QED BY <1>1, <1>2, <1>3 DEF StoreInv

\* A step of the holder that writes the disk.
LEMMA HolderStep ==
    ASSUME StoreInv, NEW p \in Procs, pc[p] \notin Outside,
           LockType', MindType', WorldType', DiskType',
           \A q \in Procs \ {p} : pc'[q] = pc[q] /\ job'[q] = job[q] /\ ref'[q] = ref[q],
           RunInv(p)', SetInv'
    PROVE  StoreInv'
<1>1. ASSUME NEW q \in Procs \ {p} PROVE RunInv(q)'
  <2>1. pc[q] \in Outside
    BY OneHolder DEF StoreInv
  <2>2. RunInv(q) /\ pc'[q] = pc[q] /\ job'[q] = job[q]
    BY DEF StoreInv
  <2> QED BY <2>1, <2>2 DEF RunInv, Outside, Building, Built, Committed, InfoRead
<1> QED BY <1>1 DEF StoreInv

\* The end of a run that does not write the disk.
LEMMA EndStep ==
    ASSUME StoreInv, NEW p \in Procs, NEW r \in Results, Ends(p, r), WorldType', UNCHANGED disk
    PROVE  StoreInv'
<1>1. LockType' /\ pc'[p] = "idle" /\ \A q \in Procs \ {p} : pc'[q] = pc[q]
  BY EndsLock DEF StoreInv
<1>2. MindType' /\ \A q \in Procs \ {p} : job'[q] = job[q] /\ ref'[q] = ref[q]
  BY EndsMind DEF StoreInv
<1>3. RunInv(p)'
  BY <1>1 DEF RunInv, Building, Built, Committed, InfoRead
<1> QED BY <1>1, <1>2, <1>3, QuietStep

\* A step of p outside its locked part, that does not write the disk.
LEMMA OutsideStep ==
    ASSUME StoreInv, NEW p \in Procs, NEW from \in Outside, NEW to \in Outside,
           Goes(p, from, to), MindType', WorldType', UNCHANGED disk, job'[p] \in Jobs,
           \A q \in Procs \ {p} : job'[q] = job[q] /\ ref'[q] = ref[q]
    PROVE  StoreInv'
<1>1. to \in PCs
  BY DEF Outside, PCs
<1>2. LockType' /\ pc'[p] = to /\ \A q \in Procs \ {p} : pc'[q] = pc[q]
  BY <1>1, GoesLock DEF StoreInv
<1>3. RunInv(p)'
  BY <1>2 DEF RunInv, Outside, Building, Built, Committed, InfoRead
<1> QED BY <1>2, <1>3, QuietStep

\* A step of p within its locked part, that does not write the disk.
LEMMA InsideStep ==
    ASSUME StoreInv, NEW p \in Procs, NEW from, NEW to \in PCs \ Outside,
           Goes(p, from, to), from \notin Outside, UNCHANGED <<disk, job>>,
           MindType', WorldType',
           \A q \in Procs \ {p} : ref'[q] = ref[q],
           pc'[p] = to /\ pc[p] = from => RunInv(p)'
    PROVE  StoreInv'
<1>1. /\ LockType' /\ pc[p] = from /\ pc'[p] = to
      /\ \A q \in Procs \ {p} : pc'[q] = pc[q]
  BY GoesLock DEF StoreInv
<1> QED BY <1>1, QuietStep

-----------------------------------------------------------------------------
(* The steps before the lock.                                              *)

\* The empty store and the one packed before sidecars are sound.
LEMMA InitStore == Init => StoreInv
<1> SUFFICES ASSUME Init PROVE StoreInv OBVIOUS
<1> USE StoreAssumption
<1>1. LockType
  BY DEF Init, Lock!Init, LockType, PCs, Outside
<1>2. MindType
  <2>1. 1 \in 1 .. Len(DeleteOrder) + 1
    BY DEF DeleteOrder
  <2> QED BY <2>1 DEF Init, MindType, Results
<1>3. WorldType
  <2>1. MaxRuns \in 0 .. MaxRuns /\ 0 \in 0 .. MaxCrashes
    OBVIOUS
  <2> QED BY <2>1 DEF Init, WorldType
<1>4. CASE disk = Empty
  <2>1. DiskType
    BY <1>4 DEF DiskType, Empty, Suffixes
  <2>2. SetInv
    BY <1>4, SetFacts DEF Empty, Suffixes
  <2>3. \A p \in Procs : RunInv(p)
    BY DEF Init, RunInv, Building, Built, Committed, InfoRead
  <2> QED BY <1>1, <1>2, <1>3, <2>1, <2>2, <2>3 DEF StoreInv
<1>5. CASE disk = Legacy
  <2> DEFINE i == [schema |-> 1, whole |-> TRUE, clean |-> TRUE]
  <2>1. i \in Images
    BY DEF Images
  <2>2. /\ DOMAIN disk = Suffixes
        /\ disk[".mpk"] = i /\ disk[".info"] = i
        /\ disk[".emwp"] = None /\ disk[".emwp.info"] = None /\ disk[".schema"] = None
    BY <1>5 DEF Legacy, Empty, Suffixes
  <2>3. DiskType
    BY <2>1, <2>2 DEF DiskType
  <2>4. SetInv
    BY <2>2, SetFacts
  <2>5. \A p \in Procs : RunInv(p)
    BY DEF Init, RunInv, Building, Built, Committed, InfoRead
  <2> QED BY <1>1, <1>2, <1>3, <2>3, <2>4, <2>5 DEF StoreInv
<1> QED BY <1>4, <1>5 DEF Init

\* What others have changed is one of two things.
LEMMA MeddlesType ==
    ASSUME MindType, NEW p, NEW what \in SUBSET {"files", ".cache"}, Meddles(p, what)
    PROVE  meddled' \in [Procs -> SUBSET {"files", ".cache"}]
BY DEF MindType, Meddles

\* A step of a download that goes on leaves the disk and the requests alone.
LEMMA FillSteps ==
    ASSUME NEW p, Fill(p)
    PROVE  /\ \E from \in {"download", "seed", "fetch"}, to \in {"seed", "fetch", "scrub"} :
                 Goes(p, from, to)
           /\ UNCHANGED <<disk, temps, knows, result, ledger>>
<1> USE DEF mind
<1>1. CASE SeedBegins(p) \/ SeedLinks(p) \/ SeedVerifies(p) \/ SeedRejects(p)
  BY <1>1 DEF SeedBegins, SeedLinks, SeedVerifies, SeedRejects
<1>2. CASE DownloadBegins(p) \/ DownloadStrays(p)
  BY <1>2 DEF DownloadBegins, DownloadStrays
<1>3. CASE DownloadEnds(p) \/ DownloadMisses(p) \/ DownloadTrusts(p)
  BY <1>3 DEF DownloadEnds, DownloadMisses, DownloadTrusts, HfReturns
<1> QED BY <1>1, <1>2, <1>3 DEF Fill

\* It keeps the types.
LEMMA FillTypes ==
    ASSUME MindType, WorldType, NEW p \in Procs, Fill(p)
    PROVE  MindType' /\ WorldType'
<1> USE DEF mind, knows, temps, ledger
<1>1. meddled' \in [Procs -> SUBSET {"files", ".cache"}]
  <2>1. CASE SeedLinks(p) \/ SeedVerifies(p)
    BY <2>1 DEF SeedLinks, SeedVerifies, MindType
  <2>2. CASE DownloadTrusts(p)
    BY <2>2 DEF DownloadTrusts, MindType
  <2>3. CASE \/ SeedBegins(p) \/ SeedRejects(p) \/ DownloadBegins(p) \/ DownloadEnds(p)
             \/ DownloadMisses(p) \/ DownloadStrays(p)
    <3>1. \E what \in SUBSET {"files", ".cache"} : Meddles(p, what)
      BY <2>3 DEF SeedBegins, SeedRejects, DownloadBegins, DownloadEnds, DownloadMisses,
                  DownloadStrays
    <3> QED BY <3>1, MeddlesType
  <2> QED BY <2>1, <2>2, <2>3 DEF Fill
<1>2. MindType'
  BY <1>1, FillSteps DEF MindType
<1>3. CASE SeedBegins(p) \/ SeedLinks(p) \/ SeedVerifies(p) \/ SeedRejects(p)
  BY <1>2, <1>3 DEF SeedBegins, SeedLinks, SeedVerifies, SeedRejects, SettlesLink, Refilled,
                    WorldType
<1>4. CASE DownloadBegins(p) \/ DownloadStrays(p)
  BY <1>2, <1>4 DEF DownloadBegins, DownloadStrays, Refilled, WorldType
<1>5. CASE DownloadEnds(p) \/ DownloadMisses(p) \/ DownloadTrusts(p)
  BY <1>2, <1>5 DEF DownloadEnds, DownloadMisses, DownloadTrusts, HfReturns, WorldType
<1> QED BY <1>3, <1>4, <1>5 DEF Fill

\* Start, the early check, the download.
LEMMA UnlockedSteps ==
    ASSUME StoreInv, NEW p \in Procs,
           \/ \E j \in Jobs : Start(p, j)
           \/ StatOne(p) \/ StatDone(p) \/ StatRefuses(p)
           \/ Fill(p) \/ SeedAborts(p) \/ DownloadFails(p) \/ Scrub(p)
    PROVE  StoreInv'
<1> USE DEF vars, source, temps, mind, knows, ledger
<1>0. /\ LockType /\ MindType /\ WorldType /\ RunInv(p)
      /\ 1 \in 1 .. Len(DeleteOrder) + 1
  BY DEF StoreInv, DeleteOrder
<1>1. ASSUME NEW j \in Jobs, Start(p, j) PROVE StoreInv'
  <2>1. left' \in 0 .. MaxRuns
    BY <1>0, <1>1, StoreAssumption DEF Start, WorldType
  <2>2. WorldType'
    BY <1>0, <1>1, <2>1 DEF Start, WorldType
  <2>3. MindType' /\ job'[p] \in Jobs
    BY <1>0, <1>1 DEF Start, MindType, Results
  <2>4. \A q \in Procs \ {p} : job'[q] = job[q] /\ ref'[q] = ref[q]
    BY <1>0, <1>1 DEF Start, MindType
  <2>5. "idle" \in Outside /\ "stat" \in Outside /\ "lock" \in Outside
    BY DEF Outside
  <2>6. UNCHANGED disk
    BY <1>1 DEF Start
  <2>7. CASE j.op = "pack"
    <3>1. Goes(p, "idle", "stat")
      BY <1>1, <2>7 DEF Start
    <3> QED BY <3>1, <2>2, <2>3, <2>4, <2>5, <2>6, OutsideStep
  <2>8. CASE j.op # "pack"
    <3>1. Goes(p, "idle", "lock")
      BY <1>1, <2>8 DEF Start
    <3> QED BY <3>1, <2>2, <2>3, <2>4, <2>5, <2>6, OutsideStep
  <2> QED BY <2>7, <2>8
<1>2. CASE StatOne(p)
  <2>1. at[p] + 1 \in 1 .. Len(DeleteOrder) + 1
    BY <1>0, <1>2 DEF StatOne, MindType, StatOrder, DeleteOrder
  <2>2. seen[p] \cup ({StatOrder[at[p]]} \cap Present) \in SUBSET Suffixes
    BY <1>0 DEF MindType, Present
  <2>3. MindType'
    BY <1>0, <1>2, <2>1, <2>2 DEF StatOne, MindType
  <2>4. WorldType'
    BY <1>0, <1>2 DEF StatOne, WorldType
  <2>5. Goes(p, "stat", "stat") /\ UNCHANGED <<disk, job, ref>> /\ pc[p] = "stat"
    BY <1>2 DEF StatOne, Goes
  <2>6. job'[p] \in Jobs
    BY <1>0, <2>5 DEF RunInv
  <2> QED BY <2>3, <2>4, <2>5, <2>6, OutsideStep DEF Outside
<1>3. CASE StatDone(p)
  <2>1. MindType' /\ WorldType'
    BY <1>0, <1>3 DEF StatDone, MindType, WorldType
  <2>2. UNCHANGED <<disk, job, ref>> /\ pc[p] = "stat"
    BY <1>3 DEF StatDone, Goes
  <2>3. job'[p] \in Jobs
    BY <1>0, <2>2 DEF RunInv
  <2>4. PICK to \in Outside : Goes(p, "stat", to)
    BY <1>3 DEF StatDone, Outside
  <2> QED BY <2>1, <2>2, <2>3, <2>4, OutsideStep DEF Outside
<1>4. CASE StatRefuses(p)
  <2>1. PICK r \in Results : Ends(p, r)
    BY <1>4 DEF StatRefuses, Results
  <2>2. WorldType' /\ UNCHANGED disk
    BY <1>0, <1>4 DEF StatRefuses, WorldType
  <2> QED BY <2>1, <2>2, EndStep
<1>5. CASE Fill(p)
  <2>1. MindType' /\ WorldType'
    BY <1>0, <1>5, FillTypes
  <2>2. PICK from \in {"download", "seed", "fetch"}, to \in {"seed", "fetch", "scrub"} :
           Goes(p, from, to)
    BY <1>5, FillSteps
  <2>3. UNCHANGED <<disk, job, ref>> /\ pc[p] = from
    BY <1>5, <2>2, FillSteps DEF Goes
  <2>4. job'[p] \in Jobs
    BY <1>0, <2>3 DEF RunInv
  <2> QED BY <2>1, <2>2, <2>3, <2>4, OutsideStep DEF Outside
<1>6. CASE SeedAborts(p)
  <2>1. Ends(p, "error") /\ "error" \in Results /\ UNCHANGED disk
    BY <1>6 DEF SeedAborts, Results
  <2>2. WorldType'
    BY <1>0, <1>6 DEF SeedAborts, WorldType
  <2> QED BY <2>1, <2>2, EndStep
<1>7. CASE DownloadFails(p)
  <2>1. Ends(p, "error") /\ "error" \in Results /\ UNCHANGED disk
    BY <1>7 DEF DownloadFails, Results
  <2>2. WorldType'
    BY <1>0, <1>7 DEF DownloadFails, WorldType
  <2> QED BY <2>1, <2>2, EndStep
<1>8. CASE Scrub(p)
  <2>1. WorldType'
    BY <1>0, <1>8 DEF Scrub, WorldType
  <2>2. /\ Goes(p, "scrub", "lock") /\ MindType' /\ UNCHANGED <<disk, job, ref>>
        /\ pc[p] = "scrub"
    BY <1>0, <1>8 DEF Scrub, MindType, Goes
  <2>3. job'[p] \in Jobs
    BY <1>0, <2>2 DEF RunInv
  <2> QED BY <2>1, <2>2, <2>3, OutsideStep DEF Outside
<1> QED BY <1>1, <1>2, <1>3, <1>4, <1>5, <1>6, <1>7, <1>8

-----------------------------------------------------------------------------
(* The steps under the lock.                                               *)

\* acquireArtifactLock
LEMMA LockStep ==
    ASSUME StoreInv, NEW p \in Procs, AcquireLock(p)
    PROVE  StoreInv'
<1> USE DEF vars, source, temps, mind, knows, ledger
<1>0. LockType /\ MindType /\ WorldType /\ RunInv(p)
  BY DEF StoreInv
<1>1. PICK to \in {"check", "remove"} :
         holder = None /\ holder' = p /\ pc' = [pc EXCEPT ![p] = to] /\ pc[p] = "lock"
  BY <1>0 DEF AcquireLock, Lock!Acquire
<1>2. to \in PCs /\ to \notin Outside
  BY DEF PCs, Outside
<1>3. LockType'
  <2>1. holder' \in Procs \cup {None} /\ pc' \in [Procs -> PCs]
    BY <1>0, <1>1, <1>2 DEF LockType
  <2>2. ASSUME NEW q \in Procs PROVE holder' = q <=> pc'[q] \notin Outside
    <3>1. CASE q = p
      BY <1>0, <1>1, <1>2, <3>1 DEF LockType
    <3>2. CASE q # p
      <4>1. holder # q
        BY <1>1, NoneFacts
      <4>2. pc[q] \in Outside
        BY <4>1, <1>0 DEF LockType
      <4> QED BY <4>2, <1>0, <1>1, <3>2 DEF LockType
    <3> QED BY <3>1, <3>2
  <2> QED BY <2>1, <2>2 DEF LockType
<1>4. MindType' /\ WorldType' /\ UNCHANGED <<disk, job, ref>>
  BY <1>0 DEF AcquireLock, MindType, WorldType
<1>5. pc'[p] = to /\ \A q \in Procs \ {p} : pc'[q] = pc[q]
  BY <1>0, <1>1 DEF LockType
<1>6. RunInv(p)'
  BY <1>0, <1>1, <1>4, <1>5 DEF RunInv, Building, Built, Committed, InfoRead
<1> QED BY <1>3, <1>4, <1>5, <1>6, QuietStep

\* The verdict is fresh only over an empty set, reuse only over a whole one.
LEMMA VerdictFacts ==
    ASSUME NEW want
    PROVE  /\ Verdict(Present, want) = "fresh" => Bare /\ disk[".mpk"] = None
           /\ Verdict(Present, want) = "reuse" => disk[".mpk"] # None /\ disk[".info"] # None
<1>1. Verdict(Present, want) = "fresh" => Artifacts(Present) = {}
  BY DEF Verdict
<1>2. Artifacts(Present) = {} => Bare /\ disk[".mpk"] = None
  BY DEF Artifacts, Present, Suffixes, Bare
<1>3. Artifacts(Present) = {} => ~HasSet(Present)
  BY DEF Artifacts, HasSet
<1>4. Verdict(Present, want) = "reuse" => HasSet(Present)
  BY <1>3 DEF Verdict
<1> QED BY <1>1, <1>2, <1>4, HasSetFacts

\* The ways a run ends without a write to the disk.
LEMMA EndingSteps ==
    ASSUME StoreInv, NEW p \in Procs,
           \/ CheckRefuses(p) \/ BuildRefused(p) \/ NoKey(p) \/ VerifyEmwpRefuses(p)
           \/ PackReturns(p) \/ StepFails(p) \/ DeleteReturns(p) \/ Crash(p)
    PROVE  StoreInv'
<1> USE DEF vars, source, temps, mind, knows, ledger
<1>0. WorldType
  BY DEF StoreInv
<1>1. WorldType' /\ UNCHANGED disk
  <2>1. CASE CheckRefuses(p) \/ NoKey(p) \/ PackReturns(p) \/ DeleteReturns(p)
    BY <1>0, <2>1 DEF CheckRefuses, NoKey, PackReturns, DeleteReturns, WorldType
  <2>2. CASE BuildRefused(p) \/ VerifyEmwpRefuses(p)
    BY <1>0, <2>2 DEF BuildRefused, VerifyEmwpRefuses, Unstages, WorldType
  <2>3. CASE StepFails(p)
    BY <1>0, <2>3 DEF StepFails, WorldType
  <2>4. CASE Crash(p)
    <3>1. crashes' \in 0 .. MaxCrashes
      BY <1>0, <2>4, StoreAssumption DEF Crash, WorldType
    <3>2. orphan' \in BOOLEAN /\ staged' \subseteq Procs
      BY <1>0, <2>4 DEF Crash, WorldType
    <3>3. /\ links' \subseteq links /\ missed' \subseteq missed /\ stray' \in BOOLEAN
          /\ UNCHANGED <<disk, cache, dotCache, lost, left, stripped>>
      BY <1>0, <2>4 DEF Crash, WorldType
    <3> QED BY <1>0, <3>1, <3>2, <3>3 DEF WorldType
  <2> QED BY <2>1, <2>2, <2>3, <2>4
<1>2. \E r \in Results : Ends(p, r)
  BY DEF CheckRefuses, BuildRefused, NoKey, VerifyEmwpRefuses, PackReturns, StepFails,
         DeleteReturns, Crash, Results
<1> QED BY <1>1, <1>2, EndStep

\* The steps under the lock that only read the disk.
LEMMA ReadingSteps ==
    ASSUME StoreInv, NEW p \in Procs,
           \/ Check(p) \/ StageMwp(p) \/ BuildMwp(p) \/ ReadInfo(p)
           \/ StageEmwp(p) \/ ReuseEmwp(p) \/ VerifyEmwp(p)
    PROVE  StoreInv'
<1> USE DEF vars, source, temps, mind, knows, ledger, PCs, Outside
<1>0. LockType /\ MindType /\ WorldType /\ DiskType /\ RunInv(p)
  BY DEF StoreInv
<1>1. CASE Check(p)
  <2>1. MindType' /\ WorldType' /\ UNCHANGED <<disk, job, ref>>
    BY <1>0, <1>1 DEF Check, MindType, WorldType
  <2>2. CASE Goes(p, "check", "backfill") /\ Verdict(Present, job[p].schema) = "reuse"
    <3>1. pc[p] = "check" /\ job[p] \in Jobs
      BY <1>0, <2>2 DEF RunInv, Goes
    <3>2. pc'[p] = "backfill" => RunInv(p)'
      BY <2>1, <2>2, <3>1, VerdictFacts DEF RunInv, Building, Built, Committed, InfoRead
    <3> QED BY <2>1, <2>2, <3>2, InsideStep
  <2>3. CASE Goes(p, "check", "stage") /\ Verdict(Present, job[p].schema) = "fresh"
    <3>1. pc[p] = "check" /\ job[p] \in Jobs
      BY <1>0, <2>3 DEF RunInv, Goes
    <3>2. pc'[p] = "stage" => RunInv(p)'
      BY <2>1, <2>3, <3>1, VerdictFacts DEF RunInv, Building, Built, Committed, InfoRead, Bare
    <3> QED BY <2>1, <2>3, <3>2, InsideStep
  <2> QED BY <1>1, <2>2, <2>3 DEF Check
<1>2. CASE StageMwp(p)
  <2>1. Goes(p, "stage", "build") /\ MindType' /\ WorldType' /\ UNCHANGED <<disk, job, ref>>
    BY <1>0, <1>2 DEF StageMwp, Stages, MindType, WorldType
  <2>2. pc'[p] = "build" /\ pc[p] = "stage" => RunInv(p)'
    BY <1>0, <2>1 DEF RunInv, Building, Built, Committed, InfoRead, Bare
  <2> QED BY <2>1, <2>2, InsideStep
<1>3. CASE BuildMwp(p)
  <2>1. Goes(p, "build", "pubSchema") /\ WorldType' /\ UNCHANGED <<disk, job, at, seen, meddled, result>>
    BY <1>0, <1>3 DEF BuildMwp, WorldType
  <2>2. PICK i \in Images : ref' = [ref EXCEPT ![p] = i]
    <3>1. job[p] \in JobType
      BY <1>0, <2>1, StoreAssumption DEF RunInv, Goes
    <3>2. /\ job[p].schema \in Schemas /\ job[p].local \in BOOLEAN
          /\ (cache = "full") \in BOOLEAN /\ dotCache \in BOOLEAN
      BY <1>0, <3>1 DEF JobType, WorldType
    <3>3. [schema |-> job[p].schema, whole |-> job[p].local \/ cache = "full",
           clean |-> job[p].local \/ ~dotCache] \in Images
      BY <3>2 DEF Images
    <3> QED BY <1>3, <3>3 DEF BuildMwp
  <2>3. MindType' /\ ref'[p] = i /\ \A q \in Procs \ {p} : ref'[q] = ref[q]
    BY <1>0, <2>1, <2>2 DEF MindType
  <2>4. pc'[p] = "pubSchema" /\ pc[p] = "build" => RunInv(p)'
    BY <1>0, <2>1, <2>3 DEF RunInv, Building, Built, Committed, InfoRead, Bare
  <2> QED BY <2>1, <2>3, <2>4, InsideStep
<1>4. CASE ReadInfo(p)
  <2>1. /\ WorldType' /\ UNCHANGED <<disk, job, at, seen, meddled, result>>
        /\ ref' = [ref EXCEPT ![p] = disk[".info"]] /\ disk[".info"] \in Images
    BY <1>0, <1>4 DEF ReadInfo, WorldType, DiskType
  <2>2. MindType' /\ ref'[p] = disk[".info"] /\ \A q \in Procs \ {p} : ref'[q] = ref[q]
    BY <1>0, <2>1 DEF MindType
  <2>3. PICK to \in {"encrypt", "return"} : Goes(p, "readInfo", to)
    BY <1>4 DEF ReadInfo
  <2>4. pc'[p] = to /\ pc[p] = "readInfo" => RunInv(p)'
    BY <1>0, <2>1, <2>2 DEF RunInv, Building, Built, Committed, InfoRead
  <2> QED BY <2>1, <2>2, <2>3, <2>4, InsideStep
<1>5. CASE StageEmwp(p)
  <2>1. /\ Goes(p, "encrypt", "pubEmwp") /\ job[p].key # None /\ disk[".emwp"] = None
        /\ MindType' /\ WorldType' /\ UNCHANGED <<disk, job, ref>>
    BY <1>0, <1>5 DEF StageEmwp, Stages, MindType, WorldType
  <2>2. pc'[p] = "pubEmwp" /\ pc[p] = "encrypt" => RunInv(p)'
    BY <1>0, <2>1 DEF RunInv, Building, Built, Committed, InfoRead
  <2> QED BY <2>1, <2>2, InsideStep
<1>6. CASE ReuseEmwp(p)
  <2>1. /\ Goes(p, "encrypt", "pubEmwpInfo")
        /\ MindType' /\ WorldType' /\ UNCHANGED <<disk, job, ref>>
    BY <1>0, <1>6 DEF ReuseEmwp, MindType, WorldType
  <2>2. pc'[p] = "pubEmwpInfo" /\ pc[p] = "encrypt" => RunInv(p)'
    BY <1>0, <2>1 DEF RunInv, Building, Built, Committed, InfoRead
  <2> QED BY <2>1, <2>2, InsideStep
<1>7. CASE VerifyEmwp(p)
  <2>1. /\ Goes(p, "verifyEmwp", "return")
        /\ MindType' /\ WorldType' /\ UNCHANGED <<disk, job, ref>>
    BY <1>0, <1>7 DEF VerifyEmwp, Unstages, MindType, WorldType
  <2>2. pc'[p] = "return" /\ pc[p] = "verifyEmwp" => RunInv(p)'
    BY <1>0, <2>1 DEF RunInv, Building, Built, Committed, InfoRead
  <2> QED BY <2>1, <2>2, InsideStep
<1> QED BY <1>1, <1>2, <1>3, <1>4, <1>5, <1>6, <1>7

\* A step of p within its locked part that writes one file.
LEMMA WriteStep ==
    ASSUME StoreInv, NEW p \in Procs, NEW from, NEW to \in PCs \ Outside,
           Goes(p, from, to), from \notin Outside, NEW s \in Suffixes, NEW v, Write(s, v),
           UNCHANGED <<job, ref>>, MindType', WorldType', DiskType', SetInv',
           pc[p] = from /\ pc'[p] = to => RunInv(p)'
    PROVE  StoreInv'
<1>1. /\ LockType' /\ pc[p] = from /\ pc'[p] = to
      /\ \A q \in Procs \ {p} : pc'[q] = pc[q]
  BY GoesLock DEF StoreInv
<1> QED BY <1>1, HolderStep

\* The sidecar is written without touching what the set consists of.
LEMMA SidecarSteps ==
    ASSUME StoreInv, NEW p \in Procs, Backfill(p) \/ PublishSchema(p)
    PROVE  StoreInv'
<1> USE DEF vars, source, temps, mind, knows, ledger, PCs, Outside, Suffixes
<1>0. LockType /\ MindType /\ WorldType /\ DiskType /\ RunInv(p) /\ SetInv
  BY DEF StoreInv
<1>1. MindType' /\ WorldType' /\ UNCHANGED <<job, ref>>
  BY <1>0 DEF Backfill, PublishSchema, MindType, WorldType
<1>2. CASE UNCHANGED disk
  <2>1. CASE Backfill(p)
    <3>1. pc'[p] = "readInfo" /\ pc[p] = "backfill" => RunInv(p)'
      BY <1>0, <1>1, <1>2 DEF RunInv, Building, Built, Committed, InfoRead
    <3>2. Goes(p, "backfill", "readInfo")
      BY <2>1 DEF Backfill
    <3> QED BY <1>1, <1>2, <3>1, <3>2, InsideStep
  <2>2. CASE PublishSchema(p)
    <3>1. pc'[p] = "pubMpk" /\ pc[p] = "pubSchema" => RunInv(p)'
      BY <1>0, <1>1, <1>2 DEF RunInv, Building, Built, Committed, InfoRead, Bare
    <3>2. Goes(p, "pubSchema", "pubMpk")
      BY <2>2 DEF PublishSchema
    <3> QED BY <1>1, <1>2, <3>1, <3>2, InsideStep
  <2> QED BY <2>1, <2>2
<1>3. CASE Write(".schema", job[p].schema)
  <2>1. /\ DOMAIN disk' = Suffixes /\ disk'[".schema"] = job[p].schema
        /\ \A t \in Suffixes \ {".schema"} : disk'[t] = disk[t]
    BY <1>0, <1>3, WriteFacts
  <2>2. job[p] \in JobType
    BY <1>0, StoreAssumption DEF RunInv, Backfill, PublishSchema, Goes
  <2>3. job[p].schema \in Schemas
    BY <2>2 DEF JobType
  <2>4. DiskType'
    BY <1>0, <2>1, <2>3 DEF DiskType
  <2>5. SetInv'
    BY <1>0, <2>1, SetFacts DEF SetInv, CommitRecordTrue, EmwpMatchesMwp, HasSet, Present
  <2>6. CASE Backfill(p)
    <3>1. pc'[p] = "readInfo" /\ pc[p] = "backfill" => RunInv(p)'
      BY <1>0, <1>1, <2>1 DEF RunInv, Building, Built, Committed, InfoRead
    <3>2. Goes(p, "backfill", "readInfo")
      BY <2>6 DEF Backfill
    <3> QED BY <1>1, <1>3, <2>4, <2>5, <3>1, <3>2, WriteStep
  <2>7. CASE PublishSchema(p)
    <3>1. pc'[p] = "pubMpk" /\ pc[p] = "pubSchema" => RunInv(p)'
      BY <1>0, <1>1, <2>1 DEF RunInv, Building, Built, Committed, InfoRead, Bare
    <3>2. Goes(p, "pubSchema", "pubMpk")
      BY <2>7 DEF PublishSchema
    <3> QED BY <1>1, <1>3, <2>4, <2>5, <3>1, <3>2, WriteStep
  <2> QED BY <2>6, <2>7
<1> QED BY <1>2, <1>3 DEF Backfill, PublishSchema

\* The image, over an empty set, and then its commit record.
LEMMA PublishSteps ==
    ASSUME StoreInv, NEW p \in Procs, PublishMpk(p) \/ PublishInfo(p)
    PROVE  StoreInv'
<1> USE DEF vars, source, temps, mind, knows, ledger, PCs, Outside, Suffixes
<1>0. LockType /\ MindType /\ WorldType /\ DiskType /\ RunInv(p) /\ SetInv
  BY DEF StoreInv
<1>1. MindType' /\ WorldType' /\ UNCHANGED <<job, ref>>
  BY <1>0 DEF PublishMpk, PublishInfo, Unstages, MindType, WorldType
<1>2. CASE PublishMpk(p)
  <2>1. Goes(p, "pubMpk", "pubInfo") /\ Write(".mpk", ref[p]) /\ pc[p] = "pubMpk"
    BY <1>2 DEF PublishMpk, Goes
  <2>2. /\ DOMAIN disk' = Suffixes /\ disk'[".mpk"] = ref[p]
        /\ \A t \in Suffixes \ {".mpk"} : disk'[t] = disk[t]
    BY <1>0, <2>1, WriteFacts
  <2>3. ref[p] \in Images /\ Bare
    BY <1>0, <2>1 DEF RunInv, Building, Built
  <2>4. DiskType'
    BY <1>0, <2>2, <2>3 DEF DiskType
  <2>5. disk'[".info"] = None
    BY <2>2, <2>3 DEF Bare
  <2>6. SetInv'
    BY <2>5 DEF SetInv, CommitRecordTrue, EmwpMatchesMwp, HasSet, Present
  <2>7. pc'[p] = "pubInfo" => RunInv(p)'
    BY <1>0, <1>1, <2>1, <2>2, <2>3 DEF RunInv, Building, Built, Committed, InfoRead, Bare
  <2> QED BY <1>1, <2>1, <2>4, <2>6, <2>7, WriteStep
<1>3. CASE PublishInfo(p)
  <2>1. Goes(p, "pubInfo", "readInfo") /\ Write(".info", ref[p]) /\ pc[p] = "pubInfo"
    BY <1>3 DEF PublishInfo, Goes
  <2>2. /\ DOMAIN disk' = Suffixes /\ disk'[".info"] = ref[p]
        /\ \A t \in Suffixes \ {".info"} : disk'[t] = disk[t]
    BY <1>0, <2>1, WriteFacts
  <2>3. ref[p] \in Images /\ Bare /\ disk[".mpk"] = ref[p]
    BY <1>0, <2>1 DEF RunInv, Built
  <2>4. DiskType'
    BY <1>0, <2>2, <2>3 DEF DiskType
  <2>5. /\ disk'[".mpk"] = disk'[".info"]
        /\ disk'[".emwp"] = None /\ disk'[".emwp.info"] = None
    BY <2>2, <2>3 DEF Bare
  <2>6. SetInv'
    BY <2>5 DEF SetInv, CommitRecordTrue, EmwpMatchesMwp
  <2>7. pc'[p] = "readInfo" => RunInv(p)'
    BY <1>0, <1>1, <2>1, <2>2, <2>3, NoneFacts
    DEF RunInv, Building, Built, Committed, InfoRead, Bare
  <2> QED BY <1>1, <2>1, <2>4, <2>6, <2>7, WriteStep
<1> QED BY <1>2, <1>3

\* The encrypted image, made of the plain one, and its commit record.
LEMMA EncryptSteps ==
    ASSUME StoreInv, NEW p \in Procs, PublishEmwp(p) \/ PublishEmwpInfo(p)
    PROVE  StoreInv'
<1> USE DEF vars, source, temps, mind, knows, ledger, PCs, Outside, Suffixes
<1>0. LockType /\ MindType /\ WorldType /\ DiskType /\ RunInv(p) /\ SetInv
  BY DEF StoreInv
<1>1. MindType' /\ WorldType' /\ UNCHANGED <<job, ref>>
  BY <1>0 DEF PublishEmwp, PublishEmwpInfo, Stages, Unstages, MindType, WorldType
<1>2. CASE PublishEmwp(p)
  <2> DEFINE c == [image |-> disk[".mpk"], key |-> job[p].key]
  <2>1. Goes(p, "pubEmwp", "pubEmwpInfo") /\ Write(".emwp", c) /\ pc[p] = "pubEmwp"
    BY <1>2 DEF PublishEmwp, Goes
  <2>2. /\ DOMAIN disk' = Suffixes /\ disk'[".emwp"] = c
        /\ \A t \in Suffixes \ {".emwp"} : disk'[t] = disk[t]
    BY <1>0, <2>1, WriteFacts
  <2>3. /\ disk[".mpk"] # None /\ disk[".info"] # None /\ ref[p] = disk[".info"]
        /\ job[p].key # None /\ job[p] \in Jobs
    BY <1>0, <2>1 DEF RunInv, Committed, InfoRead
  <2>4. disk[".mpk"] \in Images
    BY <1>0, <2>3 DEF DiskType
  <2>5. job[p].key \in Keys
    BY <2>3, StoreAssumption DEF JobType
  <2>6. c \in Ciphers
    BY <2>4, <2>5 DEF Ciphers
  <2>7. DiskType'
    BY <1>0, <2>2, <2>6 DEF DiskType
  <2>8. SetInv'
    <3>1. disk[".mpk"] = disk[".info"]
      BY <1>0, <2>3, SetFacts
    <3>2. disk'[".emwp"].image = disk[".mpk"]
      BY <2>2
    <3>3. disk[".emwp.info"] # None => disk[".emwp.info"] = disk[".info"]
      BY <1>0, <2>3, SetFacts
    <3> QED BY <2>2, <3>1, <3>2, <3>3 DEF SetInv, CommitRecordTrue, EmwpMatchesMwp
  <2>9. pc'[p] = "pubEmwpInfo" => RunInv(p)'
    BY <1>0, <1>1, <2>1, <2>2, <2>3 DEF RunInv, Building, Built, Committed, InfoRead
  <2> QED BY <1>1, <2>1, <2>7, <2>8, <2>9, WriteStep
<1>3. CASE PublishEmwpInfo(p)
  <2>1. PICK to \in {"verifyEmwp", "return"} :
           Goes(p, "pubEmwpInfo", to) /\ Write(".emwp.info", ref[p]) /\ pc[p] = "pubEmwpInfo"
    BY <1>3 DEF PublishEmwpInfo, Goes
  <2>2. /\ DOMAIN disk' = Suffixes /\ disk'[".emwp.info"] = ref[p]
        /\ \A t \in Suffixes \ {".emwp.info"} : disk'[t] = disk[t]
    BY <1>0, <2>1, WriteFacts
  <2>3. disk[".mpk"] # None /\ disk[".info"] # None /\ ref[p] = disk[".info"]
    BY <1>0, <2>1 DEF RunInv, Committed, InfoRead
  <2>4. DiskType'
    BY <1>0, <2>2, <2>3 DEF DiskType
  <2>5. SetInv'
    <3>1. /\ disk[".mpk"] = disk[".info"]
          /\ disk[".emwp"] # None => disk[".emwp"].image = disk[".info"]
      BY <1>0, <2>3, SetFacts
    <3> QED BY <2>2, <2>3, <3>1 DEF SetInv, CommitRecordTrue, EmwpMatchesMwp
  <2>6. pc'[p] = to => RunInv(p)'
    BY <1>0, <1>1, <2>1, <2>2, <2>3 DEF RunInv, Building, Built, Committed, InfoRead
  <2> QED BY <1>1, <2>1, <2>4, <2>5, <2>6, WriteStep
<1> QED BY <1>2, <1>3

-----------------------------------------------------------------------------
(* Delete.                                                                 *)

\* Removals leave a set that is true, whichever of them failed.
LEMMA RemoveStep ==
    ASSUME StoreInv, NEW p \in Procs, RemoveOne(p)
    PROVE  StoreInv'
<1> USE DEF vars, source, temps, mind, knows, ledger, PCs, Outside
<1>0. LockType /\ MindType /\ WorldType /\ DiskType /\ RunInv(p) /\ SetInv
  BY DEF StoreInv
<1>1. /\ Goes(p, "remove", "remove") /\ pc[p] = "remove"
      /\ UNCHANGED <<job, seen, ref, meddled, source, staged, orphan, left, crashes>>
      /\ at' = [at EXCEPT ![p] = @ + 1] /\ at[p] <= Len(DeleteOrder)
  BY DEF RemoveOne, Goes
<1>2. at[p] \in 1 .. 5 /\ Len(DeleteOrder) = 5
  BY <1>0, <1>1 DEF MindType, DeleteOrder
<1>3. result' \in [Procs -> Results]
  BY <1>0 DEF RemoveOne, NotesError, MindType, Results
<1>4. MindType'
  <2>1. at[p] + 1 \in 1 .. Len(DeleteOrder) + 1
    BY <1>2
  <2> QED BY <1>0, <1>1, <1>3, <2>1 DEF MindType
<1>5. WorldType'
  BY <1>0, <1>1 DEF RemoveOne, WorldType
<1>6. pc'[p] = "remove" => RunInv(p)'
  BY <1>0, <1>1 DEF RunInv, Building, Built, Committed, InfoRead
<1>7. CASE UNCHANGED disk
  BY <1>1, <1>4, <1>5, <1>6, <1>7, InsideStep
<1>8. CASE Write(DeleteOrder[at[p]], None)
  <2> DEFINE s == DeleteOrder[at[p]]
  <2>1. s \in Suffixes
    BY <1>2 DEF DeleteOrder, Suffixes
  <2>2. /\ DOMAIN disk' = Suffixes /\ disk'[s] = None
        /\ \A t \in Suffixes \ {s} : disk'[t] = disk[t]
    BY <1>0, <1>8, <2>1, WriteFacts
  <2>3. \A t \in Suffixes : disk'[t] = None \/ disk'[t] = disk[t]
    BY <2>2
  <2> HIDE DEF s
  <2>4. DiskType'
    BY <1>0, <2>2, <2>3 DEF DiskType, Suffixes
  <2>5. SetInv'
    <3>1. SUFFICES ASSUME disk'[".mpk"] # None, disk'[".info"] # None
                   PROVE  /\ disk'[".mpk"] = disk'[".info"]
                          /\ disk'[".emwp"] # None => disk'[".emwp"].image = disk'[".info"]
                          /\ disk'[".emwp.info"] # None => disk'[".emwp.info"] = disk'[".info"]
      BY DEF SetInv, CommitRecordTrue, EmwpMatchesMwp, HasSet, Present, Suffixes
    <3>2. disk'[".mpk"] = disk[".mpk"] /\ disk'[".info"] = disk[".info"]
      BY <2>3, <3>1 DEF Suffixes
    <3> QED BY <1>0, <2>3, <3>1, <3>2, SetFacts DEF Suffixes
  <2>6. Write(s, None)
    BY <1>8 DEF s
  <2> QED BY <1>1, <1>4, <1>5, <1>6, <2>1, <2>4, <2>5, <2>6, WriteStep
<1> QED BY <1>7, <1>8 DEF RemoveOne

\* The sweep and the purge touch no published file.
LEMMA SweepSteps ==
    ASSUME StoreInv, NEW p \in Procs, SweepStaged(p) \/ PurgeBegins(p) \/ PurgeEnds(p)
    PROVE  StoreInv'
<1> USE DEF vars, source, temps, mind, knows, ledger, PCs, Outside
<1>0. LockType /\ MindType /\ WorldType /\ RunInv(p)
  BY DEF StoreInv
<1>1. UNCHANGED <<disk, job, ref>> /\ MindType'
  <2>1. meddled' \in [Procs -> SUBSET {"files", ".cache"}]
    <3>1. UNCHANGED meddled \/ Meddles(p, {"files"})
      BY DEF SweepStaged, PurgeBegins, PurgeEnds
    <3> QED BY <1>0, <3>1, MeddlesType DEF MindType
  <2>2. result' \in [Procs -> Results]
    BY <1>0 DEF SweepStaged, PurgeBegins, PurgeEnds, NotesError, MindType, Results
  <2>3. UNCHANGED <<disk, job, at, seen, ref>>
    BY DEF SweepStaged, PurgeBegins, PurgeEnds
  <2> QED BY <1>0, <2>1, <2>2, <2>3 DEF MindType
<1>2. WorldType'
  BY <1>0 DEF SweepStaged, PurgeBegins, PurgeEnds, Downloading, WorldType
<1>3. PICK from \in {"remove", "purge", "purging"}, to \in {"purge", "purging", "unlock"} :
         Goes(p, from, to)
  BY DEF SweepStaged, PurgeBegins, PurgeEnds
<1>4. pc'[p] = to /\ pc[p] = from => RunInv(p)'
  BY <1>0, <1>1, <1>3 DEF RunInv, Building, Built, Committed, InfoRead
<1> QED BY <1>1, <1>2, <1>3, <1>4, InsideStep

-----------------------------------------------------------------------------
(* What is on offer.                                                       *)

\* The offer, spelt out.
LEMMA OfferFacts ==
    /\ OfferedMwp = IF disk[".mpk"] # None /\ disk[".info"] # None THEN disk[".info"] ELSE None
    /\ OfferedEmwp = IF /\ disk[".mpk"] # None /\ disk[".info"] # None
                        /\ disk[".emwp"] # None /\ disk[".emwp.info"] # None
                     THEN disk[".emwp"] ELSE None
BY DEF OfferedMwp, OfferedEmwp, HasSet, Present, Suffixes

\* The same after a step.
LEMMA OfferFactsNext ==
    /\ OfferedMwp' = IF disk'[".mpk"] # None /\ disk'[".info"] # None
                     THEN disk'[".info"] ELSE None
    /\ OfferedEmwp' = IF /\ disk'[".mpk"] # None /\ disk'[".info"] # None
                         /\ disk'[".emwp"] # None /\ disk'[".emwp.info"] # None
                      THEN disk'[".emwp"] ELSE None
BY DEF OfferedMwp, OfferedEmwp, HasSet, Present, Suffixes

\* A step that leaves the four files alone changes no offer.
LEMMA SameOffer ==
    ASSUME \A t \in {".mpk", ".info", ".emwp", ".emwp.info"} : disk'[t] = disk[t]
    PROVE  UNCHANGED <<OfferedMwp, OfferedEmwp>>
BY OfferFacts, OfferFactsNext

\* A publish offers something new where nothing was on offer.
LEMMA PublishOffers ==
    ASSUME StoreInv, NEW p \in Procs,
           PublishMpk(p) \/ PublishInfo(p) \/ PublishEmwp(p) \/ PublishEmwpInfo(p)
    PROVE  [Offered!Next]_<<OfferedMwp, OfferedEmwp>>
<1> USE DEF Suffixes
<1>0. DiskType /\ RunInv(p) /\ SetInv
  BY DEF StoreInv
<1>1. CASE PublishMpk(p)
  <2>1. pc[p] = "pubMpk" /\ Write(".mpk", ref[p])
    BY <1>1 DEF PublishMpk, Goes
  <2>2. disk[".info"] = None
    BY <1>0, <2>1 DEF RunInv, Building, Bare
  <2>3. disk'[".info"] = None
    BY <1>0, <2>1, <2>2, WriteFacts
  <2> QED BY <2>2, <2>3, OfferFacts, OfferFactsNext
<1>2. CASE PublishInfo(p)
  <2>1. pc[p] = "pubInfo" /\ Write(".info", ref[p])
    BY <1>2 DEF PublishInfo, Goes
  <2>2. ref[p] \in Images /\ disk[".mpk"] = ref[p] /\ Bare
    BY <1>0, <2>1 DEF RunInv, Built
  <2>3. /\ disk'[".info"] = ref[p] /\ disk'[".mpk"] = ref[p]
        /\ disk'[".emwp"] = None
    BY <1>0, <2>1, <2>2, WriteFacts DEF Bare
  <2>4. OfferedMwp = None /\ OfferedMwp' = ref[p] /\ OfferedEmwp' = OfferedEmwp
    BY <2>2, <2>3, NoneFacts, OfferFacts, OfferFactsNext DEF Bare
  <2> QED BY <2>2, <2>4 DEF Offered!Next, Offered!PublishMwp
<1>3. CASE PublishEmwp(p)
  <2> DEFINE c == [image |-> disk[".mpk"], key |-> job[p].key]
  <2>1. pc[p] = "pubEmwp" /\ Write(".emwp", c)
    BY <1>3 DEF PublishEmwp, Goes
  <2>2. /\ disk[".emwp"] = None /\ disk[".mpk"] # None /\ disk[".info"] # None
        /\ job[p].key # None /\ job[p] \in Jobs
    BY <1>0, <2>1 DEF RunInv, Committed, InfoRead
  <2>3. disk[".mpk"] = disk[".info"]
    BY <1>0, <2>2, SetFacts
  <2>4. job[p].key \in Keys
    BY <2>2, StoreAssumption DEF JobType
  <2>5. /\ disk'[".emwp"] = c
        /\ \A t \in {".mpk", ".info", ".emwp.info"} : disk'[t] = disk[t]
    BY <1>0, <2>1, WriteFacts
  <2>6. /\ OfferedMwp = disk[".info"] /\ OfferedMwp' = OfferedMwp
        /\ OfferedEmwp = None /\ OfferedEmwp' \in {None, c}
    BY <2>2, <2>5, OfferFacts, OfferFactsNext
  <2>7. CASE OfferedEmwp' = None
    BY <2>6, <2>7
  <2>8. CASE OfferedEmwp' = c
    BY <2>2, <2>3, <2>4, <2>6, <2>8 DEF Offered!Next, Offered!PublishEmwp
  <2> QED BY <2>6, <2>7, <2>8
<1>4. CASE PublishEmwpInfo(p)
  <2>1. pc[p] = "pubEmwpInfo" /\ Write(".emwp.info", ref[p])
    BY <1>4 DEF PublishEmwpInfo, Goes
  <2>2. disk[".mpk"] # None /\ disk[".info"] # None
    BY <1>0, <2>1 DEF RunInv, Committed, InfoRead
  <2>3. \A t \in {".mpk", ".info", ".emwp"} : disk'[t] = disk[t]
    BY <1>0, <2>1, WriteFacts
  <2>4. /\ OfferedMwp = disk[".info"] /\ OfferedMwp' = OfferedMwp
        /\ OfferedEmwp \in {None, disk[".emwp"]}
        /\ disk[".emwp"] = None => OfferedEmwp' = None /\ OfferedEmwp = None
    BY <2>2, <2>3, OfferFacts, OfferFactsNext
  <2>5. disk[".emwp"] # None => OfferedEmwp' \in {None, disk[".emwp"]}
    BY <2>2, <2>3, OfferFactsNext
  <2>6. ref[p] # None
    BY <1>0, <2>1, <2>2 DEF RunInv, InfoRead
  <2>7. disk[".emwp"] # None => OfferedEmwp' = disk[".emwp"]
    <3>1. disk'[".emwp.info"] = ref[p]
      BY <1>0, <2>1, WriteFacts
    <3> QED BY <2>2, <2>3, <2>6, <3>1, OfferFactsNext
  <2>8. CASE OfferedEmwp = None /\ disk[".emwp"] # None
    <3>1. disk[".emwp"] \in Ciphers /\ disk[".emwp"].image = disk[".info"]
      BY <1>0, <2>2, <2>8, SetFacts DEF DiskType
    <3>2. PICK k \in Keys : disk[".emwp"] = [image |-> disk[".info"], key |-> k]
      BY <3>1 DEF Ciphers
    <3> QED BY <2>2, <2>4, <2>7, <2>8, <3>2 DEF Offered!Next, Offered!PublishEmwp
  <2> QED BY <2>4, <2>7, <2>8
<1> QED BY <1>1, <1>2, <1>3, <1>4

\* A removal withdraws something or changes no offer.
LEMMA RemoveWithdraws ==
    ASSUME StoreInv, NEW p \in Procs, RemoveOne(p)
    PROVE  [Offered!Next]_<<OfferedMwp, OfferedEmwp>>
<1> USE DEF Suffixes
<1>0. DiskType /\ MindType
  BY DEF StoreInv
<1>1. CASE UNCHANGED disk
  BY <1>1, SameOffer
<1>2. CASE Write(DeleteOrder[at[p]], None)
  <2> DEFINE s == DeleteOrder[at[p]]
  <2>1. s \in Suffixes
    BY <1>0 DEF RemoveOne, MindType, DeleteOrder
  <2>2. disk'[s] = None /\ \A t \in Suffixes \ {s} : disk'[t] = disk[t]
    BY <1>0, <1>2, <2>1, WriteFacts
  <2> HIDE DEF s
  <2>3. CASE s = ".schema"
    BY <2>2, <2>3, SameOffer
  <2>4. CASE s \in {".emwp", ".emwp.info"}
    <3>1. OfferedMwp' = OfferedMwp /\ OfferedEmwp' = None
      BY <2>2, <2>4, OfferFacts, OfferFactsNext
    <3> QED BY <3>1 DEF Offered!Next, Offered!WithdrawEmwp
  <2>5. CASE s \in {".mpk", ".info"}
    <3>1. OfferedMwp' = None /\ OfferedEmwp' = None
      BY <2>2, <2>5, OfferFactsNext
    <3>2. OfferedMwp = None => OfferedEmwp = None
      BY OfferFacts
    <3> QED BY <3>1, <3>2 DEF Offered!Next, Offered!Withdraw
  <2> QED BY <2>1, <2>3, <2>4, <2>5
<1> QED BY <1>1, <1>2 DEF RemoveOne

\* Every step of the store is a step of what it offers, or none.
LEMMA StepOffers == StoreInv /\ [Next]_vars => [Offered!Next]_<<OfferedMwp, OfferedEmwp>>
<1> SUFFICES ASSUME StoreInv, [Next]_vars PROVE [Offered!Next]_<<OfferedMwp, OfferedEmwp>>
  OBVIOUS
<1>1. CASE UNCHANGED disk
  BY <1>1, SameOffer
<1>2. ASSUME NEW p \in Procs, Backfill(p) \/ PublishSchema(p)
      PROVE  UNCHANGED <<OfferedMwp, OfferedEmwp>>
  <2>1. UNCHANGED disk \/ Write(".schema", job[p].schema)
    BY <1>2 DEF Backfill, PublishSchema
  <2>2. \A t \in {".mpk", ".info", ".emwp", ".emwp.info"} : disk'[t] = disk[t]
    BY <2>1, WriteFacts DEF StoreInv, Suffixes
  <2> QED BY <2>2, SameOffer
<1>3. ASSUME NEW p \in Procs,
             \/ \E j \in Jobs : Start(p, j)
             \/ AcquireLock(p) \/ Pack(p) \/ Delete(p) \/ StepFails(p) \/ Crash(p)
      PROVE  \/ UNCHANGED disk
             \/ Backfill(p) \/ PublishSchema(p) \/ RemoveOne(p)
             \/ PublishMpk(p) \/ PublishInfo(p) \/ PublishEmwp(p) \/ PublishEmwpInfo(p)
  <2>1. CASE (\E j \in Jobs : Start(p, j)) \/ AcquireLock(p) \/ StepFails(p) \/ Crash(p)
    BY <2>1 DEF Start, AcquireLock, StepFails, Crash
  <2>2. CASE Pack(p)
    BY <2>2, FillSteps
    DEF Pack, StatOne, StatDone, StatRefuses, SeedAborts, DownloadFails, Scrub, Check,
        CheckRefuses, StageMwp, BuildMwp, BuildRefused, ReadInfo, StageEmwp, ReuseEmwp, NoKey,
        VerifyEmwp, VerifyEmwpRefuses, PackReturns
  <2>3. CASE Delete(p)
    BY <2>3 DEF Delete, SweepStaged, PurgeBegins, PurgeEnds, DeleteReturns
  <2> QED BY <1>3, <2>1, <2>2, <2>3
<1>4. ASSUME NEW p \in Procs,
             \/ UNCHANGED disk
             \/ Backfill(p) \/ PublishSchema(p) \/ RemoveOne(p)
             \/ PublishMpk(p) \/ PublishInfo(p) \/ PublishEmwp(p) \/ PublishEmwpInfo(p)
      PROVE  [Offered!Next]_<<OfferedMwp, OfferedEmwp>>
  BY <1>1, <1>2, <1>4, PublishOffers, RemoveWithdraws
<1>5. CASE UNCHANGED vars \/ Terminating
  BY <1>1, <1>5 DEF Terminating, vars
<1>6. CASE \E p \in Procs :
              \/ \E j \in Jobs : Start(p, j)
              \/ AcquireLock(p) \/ Pack(p) \/ Delete(p) \/ StepFails(p) \/ Crash(p)
  BY <1>3, <1>4, <1>6
<1> QED BY <1>5, <1>6 DEF Next

-----------------------------------------------------------------------------
(* The theorems.                                                           *)

\* Every step keeps the invariant.
LEMMA NextStore == StoreInv /\ [Next]_vars => StoreInv'
<1> SUFFICES ASSUME StoreInv, [Next]_vars PROVE StoreInv' OBVIOUS
<1>1. CASE UNCHANGED vars
  <2>1. UNCHANGED <<disk, cache, dotCache, links, stray, missed, lost, staged, orphan, holder,
                    pc, job, at, seen, ref, meddled, result, left, crashes, stripped>>
    BY <1>1 DEF vars, source, temps, mind, knows, ledger
  <2>2. LockType' /\ MindType' /\ WorldType' /\ DiskType'
    BY <2>1 DEF StoreInv, LockType, MindType, WorldType, DiskType
  <2>3. \A p \in Procs : RunInv(p)'
    BY <2>1 DEF StoreInv, RunInv, Bare
  <2>4. SetInv'
    BY <2>1 DEF StoreInv, SetInv, CommitRecordTrue, EmwpMatchesMwp, HasSet, Present
  <2> QED BY <2>2, <2>3, <2>4 DEF StoreInv
<1>2. ASSUME NEW p \in Procs,
             \/ \E j \in Jobs : Start(p, j)
             \/ AcquireLock(p) \/ Pack(p) \/ Delete(p) \/ StepFails(p) \/ Crash(p)
      PROVE  StoreInv'
  <2>1. CASE (\E j \in Jobs : Start(p, j)) \/ AcquireLock(p)
    BY <2>1, UnlockedSteps, LockStep
  <2>2. CASE Pack(p)
    BY <2>2, UnlockedSteps, EndingSteps, ReadingSteps, SidecarSteps, PublishSteps, EncryptSteps
    DEF Pack
  <2>3. CASE Delete(p)
    BY <2>3, RemoveStep, SweepSteps, EndingSteps DEF Delete
  <2>4. CASE StepFails(p) \/ Crash(p)
    BY <2>4, EndingSteps
  <2> QED BY <1>2, <2>1, <2>2, <2>3, <2>4
<1> QED BY <1>1, <1>2 DEF Next, Terminating

\* The invariant of the store: types, the lock, what the holder relies on.
THEOREM StoreSound == Spec => []StoreInv
<1> QED BY InitStore, NextStore, PTL DEF Spec

\* Every variable has its type and the lock is held exactly by the run in its
\* locked part (wrap.go:146, delete.go:62), for any number of processes.
THEOREM StoreTypeCorrect == Spec => []TypeOK
<1>1. StoreInv => TypeOK
  BY TypeParts DEF StoreInv
<1> QED BY <1>1, StoreSound, PTL

\* The commit record never describes another image than the one beside it
\* (publishArtifacts, Delete), whatever was interrupted.
THEOREM CommitRecordStaysTrue == Spec => []CommitRecordTrue
<1>1. StoreInv => CommitRecordTrue
  BY DEF StoreInv, SetInv
<1> QED BY <1>1, StoreSound, PTL

\* An encrypted image beside a complete plain set is that set's encryption
\* (encryptEMWP), whatever was interrupted.
THEOREM EmwpStaysTrue == Spec => []EmwpMatchesMwp
<1>1. StoreInv => EmwpMatchesMwp
  BY DEF StoreInv, SetInv
<1> QED BY <1>1, StoreSound, PTL

\* Whatever runs, kills and failures: readers are offered one build at a
\* time, never replaced in place, and only a deletion withdraws it.
THEOREM StoreImplementsArtifactSet == Spec => ImplementsArtifactSet
<1>1. Init => Offered!Init
  <2> SUFFICES ASSUME Init PROVE Offered!Init OBVIOUS
  <2>1. StoreInv
    BY InitStore
  <2>2. disk[".emwp"] = None
    BY DEF Init, Empty, Legacy, Suffixes
  <2>3. disk[".info"] \in Images \cup {None}
    BY <2>1 DEF StoreInv, DiskType
  <2> QED BY <2>2, <2>3, OfferFacts DEF Offered!Init
<1> QED BY <1>1, StoreSound, StepOffers, PTL DEF Spec, ImplementsArtifactSet, Offered!Spec

-----------------------------------------------------------------------------
(* What depends on the steps a run took before it came to the lock, or on  *)
(* what a Delete has already removed.                                      *)

Packing  == {"check"} \cup Building \cup Built \cup Committed
Removing == {"purge", "purging", "unlock"}
Staging  == {"build", "pubSchema", "pubMpk", "pubEmwp", "verifyEmwp"}

\* What a Pack knows of the sidecar and of the encrypted image.
SideInv(p) ==
    /\ pc[p] \in Packing => job[p].op = "pack"
    /\ pc[p] \in Built => ref[p].schema = job[p].schema
    /\ pc[p] \in {"pubMpk", "pubInfo"} => disk[".schema"] = job[p].schema
    /\ pc[p] \in Committed => SidecarSchema = job[p].schema
    /\ pc[p] = "pubEmwpInfo" => disk[".emwp"] # None
    /\ pc[p] = "verifyEmwp" \/ (pc[p] = "return" /\ job[p].encrypt) =>
          disk[".emwp"] # None /\ disk[".emwp.info"] = ref[p]

\* A staged file is there from the step that makes it to the one that moves it.
StagedInv == \A p \in staged : pc[p] \in Staging

\* What a Delete without an error has left behind it.
SweepInv(p) ==
    /\ pc[p] \notin {"stat", "remove"} \cup Removing => at[p] = 1
    /\ pc[p] = "remove" /\ result[p] # "error" =>
          \A i \in 1 .. at[p] - 1 : disk[DeleteOrder[i]] = None
    /\ pc[p] \in Removing /\ result[p] # "error" => disk = Empty /\ staged = {} /\ ~orphan

\* A Pack that has the files of its download and not yet built from them.
Downloaded(p) ==
    pc[p] \in {"lock", "check", "stage", "build"} /\ job[p].op = "pack" /\ ~job[p].local

Fed(p) == pc[p] = "scrub" \/ Downloaded(p)

\* What a run builds from is whole and clean but for what others did to it.
SourceInv(p) ==
    /\ p \in links => pc[p] = "seed"
    /\ p \in missed => pc[p] = "fetch" /\ "files" \in meddled[p]
    /\ Fed(p) => cache = "full" \/ "files" \in meddled[p]
    /\ Downloaded(p) => ~dotCache \/ ".cache" \in meddled[p]
    /\ pc[p] \in Built =>
          (ref[p].whole \/ "files" \in meddled[p]) /\ (ref[p].clean \/ ".cache" \in meddled[p])

DiskIsFunction == disk = [s \in Suffixes |-> disk[s]]

HistoryInv ==
    /\ \A p \in Procs : SideInv(p) /\ SweepInv(p) /\ SourceInv(p)
    /\ StagedInv /\ DiskIsFunction
    /\ SchemaTruth

-----------------------------------------------------------------------------
(* What a step of one run leaves alone.                                    *)

Step(p) == \/ \E j \in Jobs : Start(p, j)
           \/ AcquireLock(p) \/ Pack(p) \/ Delete(p) \/ StepFails(p) \/ Crash(p)

\* The steps that go on to the next program counter, and those that end a run.
Moves(p) ==
    \/ StatOne(p) \/ StatDone(p) \/ Fill(p) \/ Scrub(p)
    \/ Check(p) \/ Backfill(p) \/ StageMwp(p) \/ BuildMwp(p)
    \/ PublishSchema(p) \/ PublishMpk(p) \/ PublishInfo(p) \/ ReadInfo(p)
    \/ StageEmwp(p) \/ ReuseEmwp(p) \/ PublishEmwp(p) \/ PublishEmwpInfo(p) \/ VerifyEmwp(p)
    \/ RemoveOne(p) \/ SweepStaged(p) \/ PurgeBegins(p) \/ PurgeEnds(p)
Stops(p) ==
    \/ StatRefuses(p) \/ SeedAborts(p) \/ DownloadFails(p) \/ CheckRefuses(p)
    \/ BuildRefused(p) \/ NoKey(p) \/ VerifyEmwpRefuses(p) \/ PackReturns(p) \/ DeleteReturns(p) \/ StepFails(p) \/ Crash(p)

LEMMA StepKinds ==
    ASSUME NEW p, Step(p)
    PROVE  (\E j \in Jobs : Start(p, j)) \/ AcquireLock(p) \/ Moves(p) \/ Stops(p)
BY DEF Step, Pack, Delete, Moves, Stops

LEMMA StopsEnd ==
    ASSUME NEW p, Stops(p)
    PROVE  /\ pc[p] # "idle" /\ (\E r : Ends(p, r)) /\ UNCHANGED <<disk, stripped>>
<1> USE DEF source, temps, mind, knows, ledger
<1>1. (\E r : Ends(p, r)) /\ UNCHANGED <<disk, stripped>>
  <2>1. CASE \/ StatRefuses(p) \/ SeedAborts(p) \/ DownloadFails(p) \/ CheckRefuses(p)
             \/ BuildRefused(p) \/ NoKey(p)
    BY <2>1 DEF StatRefuses, SeedAborts, DownloadFails, CheckRefuses, BuildRefused, NoKey
  <2>2. CASE VerifyEmwpRefuses(p) \/ PackReturns(p) \/ DeleteReturns(p) \/ StepFails(p) \/ Crash(p)
    BY <2>2 DEF VerifyEmwpRefuses, PackReturns, DeleteReturns, StepFails, Crash
  <2> QED BY <2>1, <2>2 DEF Stops
<1>2. pc[p] # "idle"
  BY DEF Stops, StatRefuses, SeedAborts, DownloadFails, CheckRefuses, BuildRefused, NoKey,
         VerifyEmwpRefuses, PackReturns, DeleteReturns, StepFails, Crash, WritesStaged
<1> QED BY <1>1, <1>2

\* The other runs' program counters and minds.
Untouched(q) == /\ pc'[q] = pc[q] /\ job'[q] = job[q] /\ ref'[q] = ref[q]
                /\ at'[q] = at[q] /\ result'[q] = result[q]

LEMMA OthersUntouched ==
    ASSUME StoreInv, NEW p \in Procs, Step(p), NEW q \in Procs \ {p}
    PROVE  Untouched(q)
<1> USE DEF source, temps, mind, knows, ledger, Goes
<1>0. LockType /\ MindType
  BY DEF StoreInv
<1>1. ASSUME NEW j \in Jobs, Start(p, j) PROVE Untouched(q)
  BY <1>0, <1>1 DEF Start, LockType, MindType, Untouched
<1>2. CASE AcquireLock(p)
  BY <1>0, <1>2 DEF AcquireLock, LockType, Untouched
<1>3. CASE Stops(p)
  <2>1. PICK r : Ends(p, r)
    BY <1>3, StopsEnd
  <2> QED BY <1>0, <2>1 DEF Ends, LockType, MindType, Untouched
<1>4. CASE Fill(p)
  <2>1. /\ \E from, to : Goes(p, from, to)
        /\ UNCHANGED <<job, ref, at, result>>
    BY <1>4, FillSteps
  <2>2. pc'[q] = pc[q]
    BY <1>0, <2>1 DEF LockType
  <2> QED BY <2>1, <2>2 DEF Untouched
<1>5. CASE Moves(p) /\ ~Fill(p)
  <2> USE DEF Moves, StatOne, StatDone, Scrub, Check, Backfill,
        StageMwp, BuildMwp, PublishSchema, PublishMpk, PublishInfo, ReadInfo, StageEmwp,
        ReuseEmwp, PublishEmwp, PublishEmwpInfo, VerifyEmwp, RemoveOne, SweepStaged,
        PurgeBegins, PurgeEnds
  <2>1. pc'[q] = pc[q]
    <3>1. \E from, to : Goes(p, from, to)
      BY <1>5
    <3> QED BY <3>1, <1>0 DEF LockType
  <2>2. job' = job
    BY <1>5
  <2>3. ref' = ref \/ \E v : ref' = [ref EXCEPT ![p] = v]
    BY <1>5
  <2>4. at' = at \/ \E v : at' = [at EXCEPT ![p] = v]
    BY <1>5
  <2>5. result' = result \/ \E v : result' = [result EXCEPT ![p] = v]
    BY <1>5 DEF NotesError
  <2> QED BY <1>0, <2>1, <2>2, <2>3, <2>4, <2>5 DEF MindType, Untouched
<1> QED BY <1>1, <1>2, <1>3, <1>4, <1>5, StepKinds

LEMMA GoesPc ==
    ASSUME StoreInv, NEW p \in Procs, NEW from, NEW to, Goes(p, from, to)
    PROVE  pc[p] = from /\ pc'[p] = to
BY DEF StoreInv, LockType, Goes

\* The steps that write a published file.
Writes(p) ==
    \/ Backfill(p) \/ PublishSchema(p) \/ PublishMpk(p) \/ PublishInfo(p)
    \/ PublishEmwp(p) \/ PublishEmwpInfo(p) \/ RemoveOne(p)

LEMMA DiskWriters ==
    ASSUME NEW p, Step(p)
    PROVE  UNCHANGED disk \/ Writes(p)
<1>1. CASE (\E j \in Jobs : Start(p, j)) \/ AcquireLock(p)
  BY <1>1 DEF Start, AcquireLock
<1>2. CASE Stops(p)
  BY <1>2, StopsEnd
<1>3. CASE Moves(p)
  <2>1. CASE StatOne(p) \/ StatDone(p) \/ Fill(p) \/ Scrub(p)
    BY <2>1, FillSteps DEF StatOne, StatDone, Scrub
  <2>2. CASE \/ Check(p) \/ StageMwp(p) \/ BuildMwp(p) \/ ReadInfo(p) \/ StageEmwp(p)
             \/ ReuseEmwp(p) \/ VerifyEmwp(p) \/ SweepStaged(p) \/ PurgeBegins(p) \/ PurgeEnds(p)
    BY <2>2 DEF Check, StageMwp, BuildMwp, ReadInfo, StageEmwp, ReuseEmwp, VerifyEmwp,
       SweepStaged, PurgeBegins, PurgeEnds
  <2> QED BY <1>3, <2>1, <2>2 DEF Moves, Writes
<1> QED BY <1>1, <1>2, <1>3, StepKinds

\* Only the holder of the lock writes.
LEMMA WritersHold ==
    ASSUME NEW p, Step(p)
    PROVE  UNCHANGED disk \/ pc[p] \notin Outside
<1>1. Writes(p) => pc[p] \notin Outside
  BY DEF Writes, Backfill, PublishSchema, PublishMpk, PublishInfo, PublishEmwp,
     PublishEmwpInfo, RemoveOne, Goes, Outside
<1> QED BY <1>1, DiskWriters

\* What has happened once has happened.
LEMMA StrippedStays ==
    ASSUME NEW p, Step(p)
    PROVE  stripped => stripped'
<1> USE DEF ledger
<1>1. CASE (\E j \in Jobs : Start(p, j)) \/ AcquireLock(p)
  BY <1>1 DEF Start, AcquireLock
<1>2. CASE Stops(p)
  BY <1>2, StopsEnd
<1>3. CASE RemoveOne(p)
  BY <1>3 DEF RemoveOne
<1>4. CASE Moves(p) /\ ~RemoveOne(p)
  BY <1>4, FillSteps
  DEF Moves, StatOne, StatDone, Scrub, Check, Backfill, StageMwp, BuildMwp, PublishSchema,
      PublishMpk, PublishInfo, ReadInfo, StageEmwp, ReuseEmwp, PublishEmwp, PublishEmwpInfo,
      VerifyEmwp, SweepStaged, PurgeBegins, PurgeEnds
<1> QED BY <1>1, <1>2, <1>3, <1>4, StepKinds

-----------------------------------------------------------------------------
(* The sidecar.                                                            *)

\* A request is one.
LEMMA JobFacts ==
    ASSUME StoreInv, NEW p \in Procs, pc[p] # "idle"
    PROVE  /\ job[p] \in Jobs /\ job[p].op \in {"pack", "delete"}
           /\ job[p].schema \in Schemas /\ job[p].schema # None
<1>1. job[p] \in Jobs
  BY DEF StoreInv, RunInv
<1>2. job[p].op \in {"pack", "delete"} /\ job[p].schema \in Schemas
  BY <1>1, StoreAssumption DEF JobType
<1> QED BY <1>1, <1>2, NoneFacts

LEMMA NotPacking ==
    ASSUME NEW p, pc[p] \notin Packing
    PROVE  SideInv(p)
BY DEF SideInv, Packing, Building, Built, Committed, InfoRead

LEMMA SideOthers ==
    ASSUME StoreInv, NEW p \in Procs, Step(p), NEW q \in Procs \ {p}, SideInv(q)
    PROVE  SideInv(q)'
<1>1. Untouched(q)
  BY OthersUntouched
<1>2. CASE UNCHANGED disk
  BY <1>1, <1>2 DEF SideInv, SidecarSchema, Untouched
<1>3. CASE pc[p] \notin Outside
  <2>1. pc[q] \in Outside
    BY <1>3, OneHolder DEF StoreInv
  <2>2. pc'[q] \notin Packing
    BY <1>1, <2>1 DEF Untouched, Outside, Packing, Building, Built, Committed, InfoRead
  <2> QED BY <2>2 DEF SideInv, Packing, Building, Built, Committed, InfoRead
<1> QED BY <1>2, <1>3, WritersHold

\* The steps of p after which it is not packing.
LEMMA SideIdle ==
    ASSUME pc' \in [Procs -> PCs], NEW p \in Procs, pc'[p] \notin Packing
    PROVE  SideInv(p)'
BY DEF SideInv, Packing, Building, Built, Committed, InfoRead

LEMMA SideOwn ==
    ASSUME StoreInv, NEW p \in Procs, Step(p), SideInv(p), StoreInv'
    PROVE  SideInv(p)'
<1> USE DEF source, temps, mind, knows, ledger
<1>0. LockType /\ MindType /\ DiskType /\ pc' \in [Procs -> PCs]
  BY DEF StoreInv, LockType
<1>1. ASSUME NEW j \in Jobs, Start(p, j) PROVE SideInv(p)'
  <2>1. pc'[p] \in {"stat", "lock"}
    BY <1>1, GoesPc DEF Start
  <2> QED BY <1>0, <2>1, SideIdle DEF Packing, Building, Built, Committed, InfoRead
<1>2. CASE Stops(p)
  <2>1. pc'[p] = "idle"
    BY <1>0, <1>2, StopsEnd DEF Ends, LockType
  <2> QED BY <1>0, <2>1, SideIdle DEF Packing, Building, Built, Committed, InfoRead
<1>3. CASE AcquireLock(p)
  <2>1. pc'[p] = (IF job[p].op = "pack" THEN "check" ELSE "remove") /\ job' = job
    BY <1>0, <1>3 DEF AcquireLock, LockType
  <2> QED BY <2>1 DEF SideInv, Packing, Building, Built, Committed, InfoRead
<1>4. CASE StatOne(p) \/ StatDone(p) \/ Fill(p) \/ Scrub(p)
  <2>1. pc'[p] \in Outside
    BY <1>4, GoesPc, FillSteps DEF StatOne, StatDone, Scrub, Outside
  <2> QED BY <1>0, <2>1, SideIdle DEF Outside, Packing, Building, Built, Committed, InfoRead
<1>5. CASE RemoveOne(p) \/ SweepStaged(p) \/ PurgeBegins(p) \/ PurgeEnds(p)
  <2>1. pc'[p] \in {"remove"} \cup Removing
    BY <1>5, GoesPc DEF RemoveOne, SweepStaged, PurgeBegins, PurgeEnds, Removing
  <2> QED BY <1>0, <2>1, SideIdle DEF Removing, Packing, Building, Built, Committed, InfoRead
<1>6. CASE Check(p)
  <2>1. pc[p] = "check" /\ UNCHANGED <<disk, job, ref>>
    BY <1>6 DEF Check
  <2>2. CASE Goes(p, "check", "backfill") /\ Verdict(Present, job[p].schema) = "reuse"
    <3>1. SidecarSchema = job[p].schema
      <4>1. ASSUME NEW found, NEW want, Verdict(found, want) = "reuse"
            PROVE  SidecarSchema = want
        BY <4>1 DEF Verdict, Artifacts, HasSet
      <4> QED BY <2>2, <4>1
    <3>2. pc'[p] = "backfill"
      BY <2>2, GoesPc
    <3> QED BY <2>1, <3>1, <3>2 DEF SideInv, SidecarSchema, Packing, Building, Built, Committed, InfoRead
  <2>3. CASE Goes(p, "check", "stage")
    <3>1. pc'[p] = "stage"
      BY <2>3, GoesPc
    <3> QED BY <2>1, <3>1 DEF SideInv, Packing, Building, Built, Committed, InfoRead
  <2> QED BY <1>6, <2>2, <2>3 DEF Check
<1>7. CASE Backfill(p)
  <2>1. pc[p] = "backfill" /\ pc'[p] = "readInfo" /\ UNCHANGED <<job, ref>>
    BY <1>7, GoesPc DEF Backfill
  <2>2. SidecarSchema' = job[p].schema
    <3>1. job[p].schema # None
      BY <2>1, JobFacts
    <3>2. CASE disk[".schema"] = None
      <4>1. disk'[".schema"] = job[p].schema
        BY <1>0, <1>7, <3>2, WriteFacts DEF Backfill, Suffixes
      <4> QED BY <3>1, <4>1 DEF SidecarSchema
    <3>3. CASE disk[".schema"] # None
      <4>1. UNCHANGED disk
        BY <1>7, <3>3 DEF Backfill
      <4> QED BY <2>1, <4>1 DEF SideInv, SidecarSchema, Committed
    <3> QED BY <3>2, <3>3
  <2> QED BY <2>1, <2>2 DEF SideInv, Packing, Building, Built, Committed, InfoRead
<1>8. CASE StageMwp(p)
  <2>1. pc[p] = "stage" /\ pc'[p] = "build" /\ UNCHANGED <<disk, job, ref>>
    BY <1>8, GoesPc DEF StageMwp
  <2> QED BY <2>1 DEF SideInv, Packing, Building, Built, Committed, InfoRead
<1>9. CASE BuildMwp(p)
  <2>1. pc[p] = "build" /\ pc'[p] = "pubSchema" /\ UNCHANGED <<disk, job>>
    BY <1>9, GoesPc DEF BuildMwp
  <2>2. ref'[p].schema = job[p].schema
    BY <1>0, <1>9 DEF BuildMwp, MindType
  <2> QED BY <2>1, <2>2 DEF SideInv, Packing, Building, Built, Committed, InfoRead
<1>10. CASE PublishSchema(p)
  <2>1. pc[p] = "pubSchema" /\ pc'[p] = "pubMpk" /\ UNCHANGED <<job, ref>>
    BY <1>10, GoesPc DEF PublishSchema
  <2>2. disk'[".schema"] = job[p].schema
    BY <1>0, <1>10, WriteFacts DEF PublishSchema, Suffixes
  <2> QED BY <2>1, <2>2 DEF SideInv, Packing, Building, Built, Committed, InfoRead
<1>11. CASE PublishMpk(p)
  <2>1. pc[p] = "pubMpk" /\ pc'[p] = "pubInfo" /\ UNCHANGED <<job, ref>>
    BY <1>11, GoesPc DEF PublishMpk
  <2>2. disk'[".schema"] = disk[".schema"]
    BY <1>0, <1>11, WriteFacts DEF PublishMpk, Suffixes
  <2> QED BY <2>1, <2>2 DEF SideInv, Packing, Building, Built, Committed, InfoRead
<1>12. CASE PublishInfo(p)
  <2>1. pc[p] = "pubInfo" /\ pc'[p] = "readInfo" /\ UNCHANGED <<job, ref>>
    BY <1>12, GoesPc DEF PublishInfo
  <2>2. disk'[".schema"] = job[p].schema /\ job[p].schema # None
    BY <1>0, <1>12, <2>1, WriteFacts, JobFacts DEF PublishInfo, Suffixes, SideInv
  <2> QED BY <2>1, <2>2 DEF SideInv, SidecarSchema, Packing, Building, Built, Committed, InfoRead
<1>13. CASE ReadInfo(p)
  <2>1. /\ pc[p] = "readInfo" /\ pc'[p] = (IF job[p].encrypt THEN "encrypt" ELSE "return")
        /\ UNCHANGED <<disk, job>>
    BY <1>13, GoesPc DEF ReadInfo
  <2>2. SidecarSchema' = job[p].schema /\ job[p].op = "pack"
    BY <2>1 DEF SideInv, SidecarSchema, Packing, Committed
  <2> QED BY <2>1, <2>2 DEF SideInv, Packing, Building, Built, Committed, InfoRead
<1>14. CASE StageEmwp(p) \/ ReuseEmwp(p)
  <2>1. /\ pc[p] = "encrypt" /\ UNCHANGED <<disk, job, ref>>
        /\ pc'[p] = "pubEmwp" \/ (pc'[p] = "pubEmwpInfo" /\ disk[".emwp"] # None)
    BY <1>14, GoesPc DEF StageEmwp, ReuseEmwp
  <2>2. SidecarSchema' = job[p].schema /\ job[p].op = "pack"
    BY <2>1 DEF SideInv, SidecarSchema, Packing, Committed, InfoRead
  <2> QED BY <2>1, <2>2 DEF SideInv, Packing, Building, Built, Committed, InfoRead
<1>15. CASE PublishEmwp(p)
  <2>1. pc[p] = "pubEmwp" /\ pc'[p] = "pubEmwpInfo" /\ UNCHANGED <<job, ref>>
    BY <1>15, GoesPc DEF PublishEmwp
  <2>2. /\ disk'[".emwp"] = [image |-> disk[".mpk"], key |-> job[p].key]
        /\ disk'[".schema"] = disk[".schema"]
    BY <1>0, <1>15, WriteFacts DEF PublishEmwp, Suffixes
  <2>3. disk'[".emwp"] # None
    <3>1. disk[".mpk"] \in Images
      BY <1>0, <2>1 DEF DiskType, StoreInv, RunInv, Committed, InfoRead
    <3>2. job[p].key \in Keys
      <4>1. job[p] \in Jobs /\ job[p].key # None
        BY <2>1 DEF StoreInv, RunInv
      <4> QED BY <4>1, StoreAssumption DEF JobType
    <3>3. disk'[".emwp"] \in Ciphers
      BY <2>2, <3>1, <3>2 DEF Ciphers
    <3> QED BY <3>3, NoneFacts
  <2>4. SidecarSchema' = job[p].schema /\ job[p].op = "pack"
    BY <2>1, <2>2 DEF SideInv, SidecarSchema, Packing, Committed, InfoRead
  <2> QED BY <2>1, <2>3, <2>4 DEF SideInv, Packing, Building, Built, Committed, InfoRead
<1>16. CASE PublishEmwpInfo(p)
  <2>1. pc[p] = "pubEmwpInfo" /\ pc'[p] \in {"verifyEmwp", "return"} /\ UNCHANGED <<job, ref>>
    BY <1>16, GoesPc DEF PublishEmwpInfo
  <2>2. /\ disk'[".emwp.info"] = ref[p] /\ disk'[".emwp"] = disk[".emwp"]
        /\ disk'[".schema"] = disk[".schema"]
    BY <1>0, <1>16, WriteFacts DEF PublishEmwpInfo, Suffixes
  <2>3. SidecarSchema' = job[p].schema /\ job[p].op = "pack" /\ disk[".emwp"] # None
    BY <2>1, <2>2 DEF SideInv, SidecarSchema, Packing, Committed, InfoRead
  <2> QED BY <2>1, <2>2, <2>3 DEF SideInv, Packing, Building, Built, Committed, InfoRead
<1>17. CASE VerifyEmwp(p)
  <2>1. pc[p] = "verifyEmwp" /\ pc'[p] = "return" /\ UNCHANGED <<disk, job, ref>>
    BY <1>17, GoesPc DEF VerifyEmwp
  <2>2. SidecarSchema' = job[p].schema /\ job[p].op = "pack"
    BY <2>1 DEF SideInv, SidecarSchema, Packing, Committed, InfoRead
  <2> QED BY <2>1, <2>2 DEF SideInv, Packing, Building, Built, Committed, InfoRead
<1>18. CASE Moves(p)
  BY <1>4, <1>5, <1>6, <1>7, <1>8, <1>9, <1>10, <1>11, <1>12, <1>13, <1>14, <1>15, <1>16,
     <1>17, <1>18 DEF Moves
<1> QED BY <1>1, <1>2, <1>3, <1>18, StepKinds

\* The sidecar beside a complete set stays that of its image.
LEMMA SchemaStep ==
    ASSUME StoreInv, NEW p \in Procs, Step(p), SideInv(p), SchemaTruth
    PROVE  SchemaTruth'
<1> USE DEF Suffixes
<1>0. DiskType /\ MindType /\ RunInv(p) /\ (stripped => stripped')
  BY StrippedStays DEF StoreInv
<1>1. HasSet(Present)' <=> disk'[".mpk"] # None /\ disk'[".info"] # None
  BY DEF HasSet, Present
<1>2. ASSUME disk'[".mpk"] = disk[".mpk"], disk'[".info"] = disk[".info"],
             SidecarSchema' = SidecarSchema
      PROVE  SchemaTruth'
  BY <1>0, <1>1, <1>2, HasSetFacts DEF SchemaTruth
<1>3. CASE UNCHANGED disk
  BY <1>2, <1>3 DEF SidecarSchema
<1>4. CASE Backfill(p)
  <2>1. CASE disk[".schema"] # None
    BY <1>3, <1>4, <2>1 DEF Backfill
  <2>2. CASE disk[".schema"] = None
    <3>1. pc[p] = "backfill" /\ Write(".schema", job[p].schema)
      BY <1>4, <2>2 DEF Backfill, Goes
    <3>2. /\ disk'[".schema"] = job[p].schema
          /\ disk'[".mpk"] = disk[".mpk"] /\ disk'[".info"] = disk[".info"]
      BY <1>0, <3>1, WriteFacts
    <3>3. SidecarSchema = job[p].schema /\ job[p].schema # None
      BY <3>1, JobFacts DEF SideInv, Committed
    <3>4. SidecarSchema' = SidecarSchema
      BY <3>2, <3>3 DEF SidecarSchema
    <3> QED BY <1>2, <3>2, <3>4
  <2> QED BY <2>1, <2>2
<1>5. CASE PublishSchema(p) \/ PublishMpk(p)
  <2>1. disk[".info"] = None
    BY <1>0, <1>5 DEF PublishSchema, PublishMpk, Goes, RunInv, Building, Bare
  <2>2. disk'[".info"] = None
    BY <1>0, <1>5, <2>1, WriteFacts DEF PublishSchema, PublishMpk
  <2> QED BY <1>1, <2>2 DEF SchemaTruth
<1>6. CASE PublishInfo(p)
  <2>1. pc[p] = "pubInfo" /\ Write(".info", ref[p])
    BY <1>6 DEF PublishInfo, Goes
  <2>2. disk'[".info"] = ref[p] /\ disk'[".schema"] = disk[".schema"]
    BY <1>0, <2>1, WriteFacts
  <2>3. ref[p].schema = job[p].schema /\ disk[".schema"] = job[p].schema /\ job[p].schema # None
    BY <2>1, JobFacts DEF SideInv, Built
  <2> QED BY <2>2, <2>3 DEF SchemaTruth, SidecarSchema
<1>7. CASE PublishEmwp(p) \/ PublishEmwpInfo(p)
  <2>1. \A t \in {".mpk", ".info", ".schema"} : disk'[t] = disk[t]
    BY <1>0, <1>7, WriteFacts DEF PublishEmwp, PublishEmwpInfo
  <2> QED BY <1>2, <2>1 DEF SidecarSchema
<1>8. CASE RemoveOne(p)
  <2> DEFINE s == DeleteOrder[at[p]]
  <2>1. s \in Suffixes
    BY <1>0, <1>8 DEF RemoveOne, MindType, DeleteOrder
  <2>2. UNCHANGED disk \/ Write(s, None)
    BY <1>8 DEF RemoveOne
  <2>3. disk[".schema"] # None /\ disk'[".schema"] = None /\ HasSet(Present) => stripped'
    BY <1>8 DEF RemoveOne
  <2> HIDE DEF s
  <2>4. CASE Write(s, None)
    <3>1. disk'[s] = None /\ \A t \in Suffixes \ {s} : disk'[t] = disk[t]
      BY <1>0, <2>1, <2>4, WriteFacts
    <3>2. CASE s \in {".mpk", ".info"}
      BY <1>1, <3>1, <3>2 DEF SchemaTruth
    <3>3. CASE s \in {".emwp", ".emwp.info"}
      BY <1>2, <3>1, <3>3 DEF SidecarSchema
    <3>4. CASE s = ".schema" /\ disk[".schema"] = None
      BY <1>2, <3>1, <3>4 DEF SidecarSchema
    <3>5. CASE s = ".schema" /\ disk[".schema"] # None
      <4>1. disk'[".mpk"] = disk[".mpk"] /\ disk'[".info"] = disk[".info"]
        BY <3>1, <3>5
      <4>2. HasSet(Present) => stripped'
        BY <2>3, <3>1, <3>5
      <4> QED BY <1>1, <4>1, <4>2, HasSetFacts DEF SchemaTruth
    <3> QED BY <2>1, <3>2, <3>3, <3>4, <3>5
  <2> QED BY <1>3, <2>2, <2>4
<1> QED BY <1>3, <1>4, <1>5, <1>6, <1>7, <1>8, DiskWriters DEF Writes

\* What a Pack returns follows.
LEMMA ReturnDelivers ==
    ASSUME StoreInv, \A p \in Procs : SideInv(p), SchemaTruth
    PROVE  ReturnedArtifactDelivered
<1> SUFFICES ASSUME NEW p \in Procs, pc[p] = "return"
             PROVE  /\ disk[".mpk"] = ref[p] /\ disk[".info"] = ref[p]
                    /\ ~stripped => ref[p].schema = job[p].schema
                    /\ job[p].encrypt => disk[".emwp"] # None /\ disk[".emwp.info"] = ref[p]
  BY DEF ReturnedArtifactDelivered
<1>1. disk[".mpk"] # None /\ disk[".info"] # None /\ ref[p] = disk[".info"]
  BY DEF StoreInv, RunInv, Committed, InfoRead
<1>2. disk[".mpk"] = disk[".info"]
  BY <1>1, SetFacts DEF StoreInv
<1>3. SidecarSchema = job[p].schema
  BY DEF SideInv, Committed, InfoRead
<1>4. ~stripped => SidecarSchema = disk[".info"].schema
  BY <1>1, HasSetFacts DEF SchemaTruth
<1>5. job[p].encrypt => disk[".emwp"] # None /\ disk[".emwp.info"] = ref[p]
  BY DEF SideInv
<1> QED BY <1>1, <1>2, <1>3, <1>4, <1>5

-----------------------------------------------------------------------------
(* Staged files, and what a Delete leaves.                                 *)

\* The steps that leave the temp files as they are.
Tidy(p) ==
    \/ StatOne(p) \/ StatDone(p) \/ Fill(p) \/ Scrub(p)
    \/ Check(p) \/ Backfill(p) \/ PublishInfo(p) \/ ReadInfo(p) \/ ReuseEmwp(p)
    \/ RemoveOne(p) \/ PurgeBegins(p) \/ PurgeEnds(p)

\* What a step of p does to the temp files.
StagedStep(p) ==
    /\ staged' \subseteq staged \cup {p} /\ staged \ {p} \subseteq staged'
    /\ p \in staged' => pc'[p] \in Staging /\ pc[p] \notin Outside
    /\ p \in staged /\ p \notin staged' => pc'[p] # pc[p]
    /\ orphan' => orphan \/ pc[p] \notin Outside

LEMMA StagedSteps ==
    ASSUME StoreInv, StagedInv, NEW p \in Procs, Step(p)
    PROVE  StagedStep(p)
<1> USE DEF source, temps, mind, knows, ledger, StagedStep
<1>0. LockType /\ staged \subseteq Procs /\ \A q \in Staging : q \notin Outside
  BY DEF StoreInv, WorldType, Staging, Outside
<1>1. ASSUME pc[p] \notin Staging, UNCHANGED temps PROVE StagedStep(p)
  BY <1>1 DEF StagedInv
<1>2. ASSUME NEW j \in Jobs, Start(p, j) PROVE StagedStep(p)
  BY <1>1, <1>2 DEF Start, Goes, Staging
<1>3. CASE AcquireLock(p)
  BY <1>1, <1>3 DEF AcquireLock, Staging
<1>4. CASE Tidy(p)
  BY <1>1, <1>4, FillSteps DEF Tidy, StatOne, StatDone, Scrub, Check, Backfill,
     PublishInfo, ReadInfo, ReuseEmwp, RemoveOne, PurgeBegins, PurgeEnds, Goes, Staging
<1>5. CASE StageMwp(p) \/ StageEmwp(p)
  <2>1. /\ pc[p] \in {"stage", "encrypt"} /\ pc'[p] \in {"build", "pubEmwp"} /\ Stages(p)
    BY <1>5, GoesPc DEF StageMwp, StageEmwp
  <2> QED BY <2>1 DEF Stages, Staging, Outside
<1>6. CASE BuildMwp(p) \/ PublishSchema(p)
  <2>1. /\ pc[p] \in {"build", "pubSchema"} /\ pc'[p] \in {"pubSchema", "pubMpk"}
        /\ UNCHANGED temps
    BY <1>6, GoesPc DEF BuildMwp, PublishSchema
  <2> QED BY <2>1 DEF Staging, Outside
<1>7. CASE PublishMpk(p) \/ PublishEmwp(p) \/ VerifyEmwp(p)
  <2>1. Unstages(p) /\ pc[p] \in {"pubMpk", "pubEmwp", "verifyEmwp"}
        /\ pc'[p] \in {"pubInfo", "pubEmwpInfo", "return"}
    BY <1>7, GoesPc DEF PublishMpk, PublishEmwp, VerifyEmwp
  <2> QED BY <2>1 DEF Unstages
<1>8. CASE PublishEmwpInfo(p)
  <2>1. CASE job[p].verify
    <3>1. pc[p] = "pubEmwpInfo" /\ pc'[p] = "verifyEmwp" /\ Stages(p)
      BY <1>8, <2>1, GoesPc DEF PublishEmwpInfo
    <3> QED BY <3>1 DEF Stages, Staging, Outside
  <2>2. CASE ~job[p].verify
    <3>1. pc[p] = "pubEmwpInfo" /\ UNCHANGED temps
      BY <1>8, <2>2 DEF PublishEmwpInfo, Goes
    <3> QED BY <1>1, <3>1 DEF Staging
  <2> QED BY <2>1, <2>2
<1>9. CASE SweepStaged(p)
  <2>1. pc[p] = "remove"
    BY <1>9 DEF SweepStaged, Goes
  <2>2. staged = {}
    <3>1. ASSUME NEW q \in staged PROVE FALSE
      <4>1. pc[q] \in Staging /\ q \in Procs
        BY <1>0 DEF StagedInv
      <4>2. q = p
        BY <1>0, <2>1, <4>1, OneHolder DEF Outside
      <4> QED BY <2>1, <4>1, <4>2 DEF Staging
    <3> QED BY <3>1
  <2>3. (staged' = {} /\ orphan' = FALSE) \/ UNCHANGED temps
    BY <1>9 DEF SweepStaged
  <2> QED BY <2>2, <2>3
<1>10. CASE \/ StatRefuses(p) \/ SeedAborts(p) \/ DownloadFails(p) \/ CheckRefuses(p)
            \/ NoKey(p) \/ PackReturns(p) \/ DeleteReturns(p)
  BY <1>1, <1>10 DEF StatRefuses, SeedAborts, DownloadFails, CheckRefuses, NoKey, PackReturns, DeleteReturns,
     Staging
<1>11. CASE BuildRefused(p) \/ VerifyEmwpRefuses(p) \/ StepFails(p) \/ Crash(p)
  <2>1. pc[p] # "idle" /\ pc'[p] = "idle"
    <3>1. pc[p] # "idle" /\ \E r : Ends(p, r)
      BY <1>11, StopsEnd DEF Stops
    <3> QED BY <1>0, <3>1 DEF Ends, LockType
  <2>2. staged' = staged \ {p}
    BY <1>11 DEF BuildRefused, VerifyEmwpRefuses, StepFails, Crash, Unstages
  <2>3. orphan' => orphan \/ pc[p] \notin Outside
    <3>1. CASE BuildRefused(p) \/ VerifyEmwpRefuses(p)
      BY <3>1 DEF BuildRefused, VerifyEmwpRefuses, Unstages
    <3>2. CASE StepFails(p)
      BY <3>2 DEF StepFails, ImageStaged, WritesStaged, Outside
    <3>3. CASE Crash(p)
      BY <1>0, <3>3 DEF Crash, StagedInv
    <3> QED BY <1>11, <3>1, <3>2, <3>3
  <2> QED BY <2>1, <2>2, <2>3
<1>12. CASE Moves(p)
  BY <1>4, <1>5, <1>6, <1>7, <1>8, <1>9, <1>12 DEF Moves, Tidy
<1>13. CASE Stops(p)
  BY <1>10, <1>11, <1>13 DEF Stops
<1> QED BY <1>2, <1>3, <1>12, <1>13, StepKinds

LEMMA StagedKept ==
    ASSUME StoreInv, StagedInv, NEW p \in Procs, Step(p)
    PROVE  StagedInv'
<1>1. StagedStep(p) /\ staged \subseteq Procs
  BY StagedSteps DEF StoreInv, WorldType
<1>2. ASSUME NEW q \in staged', q # p PROVE pc'[q] \in Staging
  <2>1. q \in staged /\ q \in Procs
    BY <1>1, <1>2 DEF StagedStep
  <2>2. pc'[q] = pc[q]
    BY <1>2, <2>1, OthersUntouched DEF Untouched
  <2> QED BY <2>1, <2>2 DEF StagedInv
<1> QED BY <1>1, <1>2 DEF StagedStep, StagedInv

\* The disk stays a function of its suffixes.
LEMMA DiskStays ==
    ASSUME NEW p, Step(p), DiskIsFunction
    PROVE  DiskIsFunction'
<1>1. UNCHANGED disk \/ \E s, v : Write(s, v)
  BY DiskWriters DEF Writes, Backfill, PublishSchema, PublishMpk, PublishInfo, PublishEmwp,
     PublishEmwpInfo, RemoveOne
<1> QED BY <1>1 DEF DiskIsFunction, Write

\* A Delete: its position, and what it has removed.
LEMMA SweepOthers ==
    ASSUME StoreInv, StagedInv, NEW p \in Procs, Step(p), NEW q \in Procs \ {p}, SweepInv(q)
    PROVE  SweepInv(q)'
<1>1. Untouched(q)
  BY OthersUntouched
<1>2. CASE pc[p] \notin Outside
  <2>1. pc[q] \in Outside
    BY <1>2, OneHolder DEF StoreInv
  <2> QED BY <1>1, <2>1 DEF Untouched, SweepInv, Outside, Removing
<1>3. CASE pc[p] \in Outside
  <2>1. UNCHANGED disk
    BY <1>3, WritersHold
  <2>2. (orphan' => orphan) /\ staged' \subseteq staged
    BY <1>3, StagedSteps DEF StagedStep
  <2> QED BY <1>1, <2>1, <2>2 DEF Untouched, SweepInv
<1> QED BY <1>2, <1>3

LEMMA SweepOwn ==
    ASSUME StoreInv, StagedInv, DiskIsFunction, NEW p \in Procs, Step(p), SweepInv(p)
    PROVE  SweepInv(p)'
<1> USE DEF source, temps, mind, knows, ledger
<1>0. LockType /\ MindType /\ DiskType
  BY DEF StoreInv
<1>1. ASSUME pc'[p] \notin {"stat", "remove"} \cup Removing, at'[p] = 1 PROVE SweepInv(p)'
  BY <1>1 DEF SweepInv, Removing
<1>2. ASSUME NEW j \in Jobs, Start(p, j) PROVE SweepInv(p)'
  <2>1. pc[p] = "idle" /\ pc'[p] \in {"stat", "lock"} /\ at' = at
    BY <1>2, GoesPc DEF Start
  <2> QED BY <2>1 DEF SweepInv, Removing
<1>3. CASE Stops(p)
  <2>1. pc'[p] = "idle" /\ at'[p] = 1
    BY <1>0, <1>3, StopsEnd DEF Ends, LockType, MindType
  <2> QED BY <1>1, <2>1 DEF Removing
<1>4. CASE AcquireLock(p)
  <2>1. pc[p] = "lock" /\ pc'[p] \in {"check", "remove"} /\ at' = at
    BY <1>0, <1>4 DEF AcquireLock, LockType
  <2>2. at'[p] = 1
    BY <2>1 DEF SweepInv, Removing
  <2> QED BY <2>1, <2>2 DEF SweepInv, Removing
<1>5. CASE StatOne(p) \/ StatDone(p)
  <2>1. CASE StatOne(p)
    BY <2>1, GoesPc DEF StatOne, SweepInv, Removing
  <2>2. CASE StatDone(p)
    <3>1. pc'[p] \in {"lock", "download"} /\ at'[p] = 1
      BY <1>0, <2>2, GoesPc DEF StatDone, MindType
    <3> QED BY <1>1, <3>1 DEF Removing
  <2> QED BY <1>5, <2>1, <2>2
<1>6. CASE \/ Fill(p) \/ Scrub(p) \/ Check(p) \/ Backfill(p)
           \/ StageMwp(p) \/ BuildMwp(p) \/ PublishSchema(p)
  <2>1. /\ pc[p] \notin {"stat", "remove"} \cup Removing
        /\ pc'[p] \notin {"stat", "remove"} \cup Removing
        /\ at' = at
    BY <1>6, GoesPc, FillSteps DEF Scrub, Check, Backfill, StageMwp, BuildMwp,
       PublishSchema, Removing
  <2> QED BY <1>1, <2>1 DEF SweepInv
<1>7. CASE \/ PublishMpk(p) \/ PublishInfo(p) \/ ReadInfo(p) \/ StageEmwp(p) \/ ReuseEmwp(p)
           \/ PublishEmwp(p) \/ PublishEmwpInfo(p) \/ VerifyEmwp(p)
  <2>1. /\ pc[p] \notin {"stat", "remove"} \cup Removing
        /\ pc'[p] \notin {"stat", "remove"} \cup Removing
        /\ at' = at
    BY <1>7, GoesPc DEF PublishMpk, PublishInfo, ReadInfo, StageEmwp, ReuseEmwp, PublishEmwp,
       PublishEmwpInfo, VerifyEmwp, Removing
  <2> QED BY <1>1, <2>1 DEF SweepInv
<1>8. CASE RemoveOne(p)
  <2> DEFINE s == DeleteOrder[at[p]]
  <2>1. pc[p] = "remove" /\ pc'[p] = "remove" /\ at[p] \in 1 .. Len(DeleteOrder)
    BY <1>0, <1>8, GoesPc DEF RemoveOne, MindType, DeleteOrder
  <2>2. at'[p] = at[p] + 1
    BY <1>0, <1>8 DEF RemoveOne, MindType
  <2>3. \/ Write(s, None) /\ UNCHANGED result
        \/ result' = [result EXCEPT ![p] = "error"]
    BY <1>8 DEF RemoveOne, NotesError
  <2>4. CASE result' = [result EXCEPT ![p] = "error"]
    BY <1>0, <2>1, <2>4 DEF MindType, SweepInv, Removing
  <2>5. CASE Write(s, None) /\ UNCHANGED result
    <3>1. s \in Suffixes
      BY <2>1 DEF DeleteOrder, Suffixes
    <3>2. disk'[s] = None /\ \A t \in Suffixes \ {s} : disk'[t] = disk[t]
      BY <1>0, <2>5, <3>1, WriteFacts
    <3>3. ASSUME NEW i \in 1 .. at'[p] - 1, result[p] # "error" PROVE disk'[DeleteOrder[i]] = None
      <4>1. CASE i = at[p]
        BY <3>2, <4>1
      <4>2. CASE i # at[p]
        <5>1. i \in 1 .. at[p] - 1 /\ i \in 1 .. Len(DeleteOrder)
          BY <2>1, <2>2, <4>2 DEF DeleteOrder
        <5>2. disk[DeleteOrder[i]] = None
          BY <2>1, <3>3, <5>1 DEF SweepInv
        <5>3. DeleteOrder[i] \in Suffixes
          BY <5>1 DEF DeleteOrder, Suffixes
        <5> QED BY <3>2, <5>2, <5>3
      <4> QED BY <4>1, <4>2
    <3> QED BY <2>1, <2>5, <3>3 DEF SweepInv, Removing
  <2> HIDE DEF s
  <2> QED BY <2>3, <2>4, <2>5
<1>9. CASE SweepStaged(p)
  <2>1. pc[p] = "remove" /\ pc'[p] = "purge" /\ at[p] = Len(DeleteOrder) + 1 /\ UNCHANGED disk
    BY <1>0, <1>9, GoesPc DEF SweepStaged, MindType, DeleteOrder
  <2>2. \/ staged' = {} /\ orphan' = FALSE /\ UNCHANGED result
        \/ result' = [result EXCEPT ![p] = "error"]
    BY <1>9 DEF SweepStaged, NotesError
  <2>3. result[p] # "error" => disk = Empty
    <3>1. ASSUME result[p] # "error" PROVE disk = Empty
      <4>1. \A i \in 1 .. 5 : disk[DeleteOrder[i]] = None
        BY <2>1, <3>1 DEF SweepInv, DeleteOrder
      <4>2. \A s \in Suffixes : disk[s] = None
        BY <4>1 DEF DeleteOrder, Suffixes
      <4> QED BY <4>2 DEF DiskIsFunction, Empty
    <3> QED BY <3>1
  <2>4. CASE staged' = {} /\ orphan' = FALSE /\ UNCHANGED result
    BY <2>1, <2>3, <2>4 DEF SweepInv, Removing
  <2>5. CASE result' = [result EXCEPT ![p] = "error"]
    BY <1>0, <2>1, <2>5 DEF SweepInv, MindType, Removing
  <2> QED BY <2>2, <2>4, <2>5
<1>10. CASE PurgeBegins(p) \/ PurgeEnds(p)
  <2>1. /\ pc[p] \in {"purge", "purging"} /\ pc'[p] \in {"purging", "unlock"}
        /\ UNCHANGED <<disk, staged, orphan>>
    BY <1>10, GoesPc DEF PurgeBegins, PurgeEnds
  <2>2. UNCHANGED result \/ result' = [result EXCEPT ![p] = "error"]
    BY <1>10 DEF PurgeBegins, PurgeEnds, NotesError
  <2>3. CASE UNCHANGED result
    BY <2>1, <2>3 DEF SweepInv, Removing
  <2>4. CASE result' = [result EXCEPT ![p] = "error"]
    BY <1>0, <2>1, <2>4 DEF SweepInv, MindType, Removing
  <2> QED BY <2>2, <2>3, <2>4
<1>11. CASE Moves(p)
  BY <1>5, <1>6, <1>7, <1>8, <1>9, <1>10, <1>11 DEF Moves
<1> QED BY <1>2, <1>3, <1>4, <1>11, StepKinds

-----------------------------------------------------------------------------
(* The source an image is built from.                                      *)

LEMMA MeddlesFacts ==
    ASSUME MindType, NEW p \in Procs, NEW what, Meddles(p, what)
    PROVE  /\ meddled'[p] = meddled[p]
           /\ \A q \in Procs \ {p} : /\ meddled[q] \subseteq meddled'[q]
                                     /\ UsesCache(q) => what \subseteq meddled'[q]
BY DEF MindType, Meddles

\* The steps that do nothing to the shared directory.
Apart(p) ==
    \/ StatOne(p) \/ StatDone(p) \/ Check(p) \/ Backfill(p) \/ StageMwp(p) \/ BuildMwp(p)
    \/ PublishSchema(p) \/ PublishMpk(p) \/ PublishInfo(p) \/ ReadInfo(p) \/ StageEmwp(p)
    \/ ReuseEmwp(p) \/ PublishEmwp(p) \/ PublishEmwpInfo(p) \/ VerifyEmwp(p)
    \/ RemoveOne(p) \/ SweepStaged(p)

LEMMA ApartSteps ==
    ASSUME NEW p, Apart(p) \/ AcquireLock(p) \/ \E j \in Jobs : Start(p, j)
    PROVE  UNCHANGED <<source, meddled>>
<1> USE DEF mind
<1>1. CASE AcquireLock(p) \/ \E j \in Jobs : Start(p, j)
  BY <1>1 DEF AcquireLock, Start
<1>2. CASE Apart(p)
  BY <1>2
  DEF Apart, StatOne, StatDone, Check, Backfill, StageMwp, BuildMwp, PublishSchema, PublishMpk,
      PublishInfo, ReadInfo, StageEmwp, ReuseEmwp, PublishEmwp, PublishEmwpInfo, VerifyEmwp,
      RemoveOne, SweepStaged
<1> QED BY <1>1, <1>2

\* A run that ends leaves the directory to the others as it is.
LEMMA StopsSource ==
    ASSUME MindType, NEW p \in Procs, Stops(p)
    PROVE  /\ UNCHANGED <<cache, dotCache>>
           /\ links' \subseteq links /\ missed' \subseteq missed
           /\ \A q \in Procs \ {p} : meddled'[q] = meddled[q]
           /\ SourceInv(p) => p \notin links' /\ p \notin missed'
<1> USE DEF source
<1>1. \A q \in Procs \ {p} : meddled'[q] = meddled[q]
  BY StopsEnd DEF Ends, MindType
<1>2. CASE SeedAborts(p)
  BY <1>1, <1>2 DEF SeedAborts, SourceInv
<1>3. CASE DownloadFails(p)
  BY <1>1, <1>3 DEF DownloadFails, SourceInv
<1>4. CASE Crash(p)
  BY <1>1, <1>4 DEF Crash
<1>5. CASE \/ StatRefuses(p) \/ CheckRefuses(p) \/ BuildRefused(p) \/ NoKey(p)
           \/ VerifyEmwpRefuses(p) \/ PackReturns(p) \/ StepFails(p) \/ DeleteReturns(p)
  <2>1. UNCHANGED source /\ pc[p] \notin {"seed", "fetch"}
    BY <1>5 DEF StatRefuses, CheckRefuses, BuildRefused, NoKey, VerifyEmwpRefuses, PackReturns,
                StepFails, DeleteReturns, WritesStaged
  <2> QED BY <1>1, <2>1 DEF SourceInv
<1> QED BY <1>2, <1>3, <1>4, <1>5 DEF Stops

\* What a step of p does to the directory others build from it records.
SharedStep(p) ==
    /\ links' \subseteq links \cup {p}
    /\ \A q \in Procs \ {p} :
          /\ meddled[q] \subseteq meddled'[q]
          /\ q \in missed' => q \in missed \/ (pc[q] = "fetch" /\ "files" \in meddled'[q])
          /\ UsesCache(q) /\ cache = "full" => cache' = "full" \/ "files" \in meddled'[q]
          /\ UsesCache(q) /\ dotCache' => dotCache \/ ".cache" \in meddled'[q]

LEMMA SharedSteps ==
    ASSUME StoreInv, NEW p \in Procs, Step(p)
    PROVE  SharedStep(p)
<1> USE DEF source, mind
<1>0. MindType
  BY DEF StoreInv
<1>1. ASSUME UNCHANGED cache, dotCache' => dotCache, links' \subseteq links, missed' \subseteq missed,
             \A q \in Procs \ {p} : meddled'[q] = meddled[q]
      PROVE  SharedStep(p)
  BY <1>1 DEF SharedStep
<1>2. CASE Apart(p) \/ AcquireLock(p) \/ \E j \in Jobs : Start(p, j)
  BY <1>1, <1>2, ApartSteps
<1>3. CASE Stops(p)
  BY <1>0, <1>1, <1>3, StopsSource
<1>4. CASE Scrub(p)
  BY <1>1, <1>4 DEF Scrub
<1>5. CASE SeedLinks(p) \/ SeedVerifies(p)
  BY <1>5 DEF SeedLinks, SeedVerifies, SettlesLink, SharedStep
<1>6. CASE SeedBegins(p) \/ DownloadBegins(p) \/ DownloadStrays(p)
  <2>1. /\ Meddles(p, {".cache"})
        /\ cache = "full" => cache' = "full"
        /\ UNCHANGED <<links, missed>>
    BY <1>6 DEF SeedBegins, DownloadBegins, DownloadStrays, Refilled
  <2> QED BY <1>0, <2>1, MeddlesFacts DEF SharedStep
<1>7. CASE DownloadEnds(p) \/ DownloadMisses(p)
  <2>1. /\ Meddles(p, {".cache"})
        /\ cache = "full" => cache' = "full"
        /\ UNCHANGED links /\ missed' \subseteq missed
    BY <1>7 DEF DownloadEnds, DownloadMisses, HfReturns
  <2> QED BY <1>0, <2>1, MeddlesFacts DEF SharedStep
<1>8. CASE DownloadTrusts(p)
  <2>1. /\ UNCHANGED cache /\ UNCHANGED links /\ missed' \subseteq missed
    BY <1>8 DEF DownloadTrusts, HfReturns
  <2>2. \A q \in Procs \ {p} : /\ meddled[q] \subseteq meddled'[q]
                               /\ UsesCache(q) => ".cache" \in meddled'[q]
    BY <1>0, <1>8 DEF DownloadTrusts, MindType
  <2> QED BY <2>1, <2>2 DEF SharedStep
<1>9. CASE SeedRejects(p)
  <2>1. /\ Meddles(p, {"files"}) /\ UNCHANGED dotCache /\ links' \subseteq links
        /\ missed' = missed \cup {q \in Procs : pc[q] = "fetch"}
    BY <1>9 DEF SeedRejects, SettlesLink
  <2>2. \A q \in Procs \ {p} : /\ meddled[q] \subseteq meddled'[q]
                               /\ UsesCache(q) => "files" \in meddled'[q]
    BY <1>0, <2>1, MeddlesFacts
  <2>3. \A q \in Procs : pc[q] = "fetch" => UsesCache(q)
    BY DEF UsesCache
  <2> QED BY <2>1, <2>2, <2>3 DEF SharedStep
<1>10. CASE PurgeBegins(p) \/ PurgeEnds(p)
  <2>1. /\ Meddles(p, {"files"}) /\ (dotCache' => dotCache)
        /\ UNCHANGED <<links, missed>>
    BY <1>10 DEF PurgeBegins, PurgeEnds
  <2>2. \A q \in Procs \ {p} : /\ meddled[q] \subseteq meddled'[q]
                               /\ UsesCache(q) => "files" \in meddled'[q]
    BY <1>0, <2>1, MeddlesFacts
  <2> QED BY <2>1, <2>2 DEF SharedStep
<1>11. CASE Moves(p)
  BY <1>2, <1>4, <1>5, <1>6, <1>7, <1>8, <1>9, <1>10, <1>11 DEF Moves, Apart, Fill
<1> QED BY <1>2, <1>3, <1>11, StepKinds

LEMMA SourceOthers ==
    ASSUME StoreInv, NEW p \in Procs, Step(p), NEW q \in Procs \ {p}, SourceInv(q)
    PROVE  SourceInv(q)'
<1>1. pc'[q] = pc[q] /\ job'[q] = job[q] /\ ref'[q] = ref[q]
  BY OthersUntouched DEF Untouched
<1>2. /\ links' \subseteq links \cup {p} /\ meddled[q] \subseteq meddled'[q]
      /\ q \in missed' => q \in missed \/ (pc[q] = "fetch" /\ "files" \in meddled'[q])
      /\ UsesCache(q) /\ cache = "full" => cache' = "full" \/ "files" \in meddled'[q]
      /\ UsesCache(q) /\ dotCache' => dotCache \/ ".cache" \in meddled'[q]
  BY SharedSteps DEF SharedStep
<1>3. (Fed(q)' <=> Fed(q)) /\ (Downloaded(q)' <=> Downloaded(q))
  BY <1>1 DEF Fed, Downloaded
<1>4. (Fed(q) => UsesCache(q)) /\ (Downloaded(q) => UsesCache(q))
  BY DEF Fed, Downloaded, UsesCache
<1> QED BY <1>1, <1>2, <1>3, <1>4 DEF SourceInv

\* The image that is being built is as whole and as clean as its source.
LEMMA BuildsFrom ==
    ASSUME StoreInv, NEW p \in Procs, BuildMwp(p), SideInv(p), SourceInv(p)
    PROVE  /\ ref'[p].whole \/ "files" \in meddled[p]
           /\ ref'[p].clean \/ ".cache" \in meddled[p]
<1>1. pc[p] = "build" /\ job[p].op = "pack"
  BY DEF BuildMwp, Goes, SideInv, Packing, Building
<1>2. /\ ref'[p].whole = (job[p].local \/ cache = "full")
      /\ ref'[p].clean = (job[p].local \/ ~dotCache)
  BY DEF BuildMwp, StoreInv, MindType
<1>3. job[p].local \/ Downloaded(p)
  BY <1>1 DEF Downloaded
<1>4. CASE job[p].local
  BY <1>2, <1>4
<1>5. CASE Downloaded(p)
  <2>1. (cache = "full" \/ "files" \in meddled[p]) /\ (~dotCache \/ ".cache" \in meddled[p])
    BY <1>5 DEF SourceInv, Fed
  <2> QED BY <1>2, <2>1
<1> QED BY <1>3, <1>4, <1>5

LEMMA SourceOwn ==
    ASSUME StoreInv, NEW p \in Procs, Step(p), SideInv(p), SourceInv(p)
    PROVE  SourceInv(p)'
<1> USE DEF source, mind, knows
<1>0. LockType /\ MindType
  BY DEF StoreInv
<1>1. ASSUME p \notin links', p \notin missed',
             pc'[p] \notin {"scrub", "lock", "check", "stage", "build"} \cup Built
      PROVE  SourceInv(p)'
  BY <1>1 DEF SourceInv, Fed, Downloaded
<1>2. ASSUME UNCHANGED <<source, meddled, job>>, pc[p] \in {"lock", "check", "stage"},
             pc'[p] \in {"check", "stage", "build"}
      PROVE  SourceInv(p)'
  BY <1>2 DEF SourceInv, Fed, Downloaded, Built
<1>3. ASSUME UNCHANGED <<source, meddled>>, pc[p] \notin {"seed", "fetch"}
      PROVE  p \notin links' /\ p \notin missed'
  BY <1>3 DEF SourceInv
<1>4. ASSUME NEW j \in Jobs, Start(p, j) PROVE SourceInv(p)'
  <2>1. pc[p] = "idle" /\ pc'[p] = (IF j.op = "pack" THEN "stat" ELSE "lock") /\ job'[p] = j
    BY <1>0, <1>4, GoesPc DEF Start, MindType
  <2>2. p \notin links' /\ p \notin missed'
    BY <1>3, <1>4, <2>1, ApartSteps
  <2> QED BY <2>1, <2>2 DEF SourceInv, Fed, Downloaded, Built
<1>5. CASE Stops(p)
  <2>1. pc'[p] = "idle"
    BY <1>0, <1>5, StopsEnd DEF Ends, LockType
  <2> QED BY <1>0, <1>1, <1>5, <2>1, StopsSource DEF Built
<1>6. CASE AcquireLock(p)
  <2>1. pc[p] = "lock" /\ pc'[p] \in {"check", "remove"} /\ job' = job
    BY <1>0, <1>6 DEF AcquireLock, LockType
  <2>2. UNCHANGED <<source, meddled>>
    BY <1>6, ApartSteps
  <2> QED BY <1>1, <1>2, <1>3, <2>1, <2>2 DEF Built
<1>7. CASE StatOne(p) \/ StatDone(p)
  <2>1. /\ pc[p] = "stat" /\ UNCHANGED <<source, meddled>>
        /\ pc'[p] \in {"stat", "download"} \/ (pc'[p] = "lock" /\ job'[p].local)
    BY <1>7, GoesPc DEF StatOne, StatDone
  <2>2. p \notin links' /\ p \notin missed'
    BY <1>3, <2>1
  <2> QED BY <2>1, <2>2 DEF SourceInv, Fed, Downloaded, Built
<1>8. CASE SeedBegins(p) \/ SeedLinks(p) \/ SeedVerifies(p) \/ SeedRejects(p)
  <2>1. pc[p] \in {"download", "seed"} /\ pc'[p] = "seed"
    BY <1>8, GoesPc DEF SeedBegins, SeedLinks, SeedVerifies, SeedRejects
  <2>2. p \notin missed'
    BY <1>8, <2>1 DEF SeedBegins, SeedLinks, SeedVerifies, SeedRejects, SourceInv
  <2> QED BY <2>1, <2>2 DEF SourceInv, Fed, Downloaded, Built
<1>9. CASE DownloadBegins(p)
  <2>1. /\ pc[p] \in {"download", "seed"} /\ pc'[p] = "fetch"
        /\ p \notin links /\ UNCHANGED <<links, missed>>
    BY <1>9, GoesPc DEF DownloadBegins
  <2> QED BY <1>1, <2>1 DEF SourceInv, Built
<1>10. CASE DownloadStrays(p)
  <2>1. /\ pc[p] = "fetch" /\ pc'[p] = "fetch" /\ UNCHANGED <<links, missed>>
    BY <1>10, GoesPc DEF DownloadStrays
  <2>2. meddled'[p] = meddled[p]
    BY <1>0, <1>10, MeddlesFacts DEF DownloadStrays
  <2> QED BY <2>1, <2>2 DEF SourceInv, Fed, Downloaded, Built
<1>11. CASE DownloadEnds(p) \/ DownloadMisses(p) \/ DownloadTrusts(p)
  <2>1. /\ pc[p] = "fetch" /\ pc'[p] = "scrub" /\ links' = links /\ missed' = missed \ {p}
    BY <1>11, GoesPc DEF DownloadEnds, DownloadMisses, DownloadTrusts, HfReturns
  <2>2. p \notin links
    BY <2>1 DEF SourceInv
  <2>3. cache' = "full" \/ "files" \in meddled'[p]
    <3>1. CASE DownloadEnds(p)
      BY <3>1 DEF DownloadEnds
    <3>2. CASE DownloadMisses(p)
      BY <1>0, <3>2, MeddlesFacts DEF DownloadMisses, SourceInv
    <3>3. CASE DownloadTrusts(p)
      <4>1. stray \/ links \ {p} # {}
        BY <2>2, <3>3 DEF DownloadTrusts
      <4> QED BY <1>0, <3>3, <4>1 DEF DownloadTrusts, MindType
    <3> QED BY <1>11, <3>1, <3>2, <3>3
  <2> QED BY <2>1, <2>2, <2>3 DEF SourceInv, Fed, Downloaded, Built
<1>12. CASE Scrub(p)
  <2>1. /\ pc[p] = "scrub" /\ pc'[p] = "lock" /\ dotCache' = FALSE
        /\ UNCHANGED <<cache, links, missed, meddled>>
    BY <1>12, GoesPc DEF Scrub
  <2> QED BY <2>1 DEF SourceInv, Fed, Downloaded, Built
<1>13. CASE Check(p) \/ StageMwp(p)
  <2>1. /\ pc[p] \in {"check", "stage"} /\ pc'[p] \in {"backfill", "stage", "build"}
        /\ UNCHANGED <<source, meddled, job>>
    BY <1>13, GoesPc DEF Check, StageMwp
  <2> QED BY <1>1, <1>2, <1>3, <2>1 DEF Built
<1>14. CASE BuildMwp(p)
  <2>1. pc[p] = "build" /\ pc'[p] = "pubSchema" /\ UNCHANGED <<source, meddled>>
    BY <1>14, GoesPc DEF BuildMwp
  <2>2. /\ ref'[p].whole \/ "files" \in meddled[p]
        /\ ref'[p].clean \/ ".cache" \in meddled[p]
    BY <1>14, BuildsFrom
  <2>3. p \notin links' /\ p \notin missed'
    BY <1>3, <2>1
  <2> QED BY <2>1, <2>2, <2>3 DEF SourceInv, Fed, Downloaded
<1>15. CASE PublishSchema(p) \/ PublishMpk(p)
  <2>1. /\ pc[p] \in {"pubSchema", "pubMpk"} /\ pc'[p] \in {"pubMpk", "pubInfo"}
        /\ UNCHANGED <<source, meddled, ref>>
    BY <1>15, GoesPc DEF PublishSchema, PublishMpk
  <2>2. p \notin links' /\ p \notin missed'
    BY <1>3, <2>1
  <2> QED BY <2>1, <2>2 DEF SourceInv, Fed, Downloaded, Built
<1>16. CASE Backfill(p) \/ PublishInfo(p) \/ ReadInfo(p) \/ StageEmwp(p) \/ ReuseEmwp(p)
  <2>1. /\ pc[p] \in {"backfill", "pubInfo", "readInfo", "encrypt"}
        /\ pc'[p] \in {"readInfo", "encrypt", "return", "pubEmwp", "pubEmwpInfo"}
    BY <1>16, GoesPc DEF Backfill, PublishInfo, ReadInfo, StageEmwp, ReuseEmwp
  <2>2. UNCHANGED <<source, meddled>>
    BY <1>16, ApartSteps DEF Apart
  <2> QED BY <1>1, <1>3, <2>1, <2>2 DEF Built
<1>17. CASE \/ PublishEmwp(p) \/ PublishEmwpInfo(p) \/ VerifyEmwp(p)
            \/ RemoveOne(p) \/ SweepStaged(p)
  <2>1. /\ pc[p] \in {"pubEmwp", "pubEmwpInfo", "verifyEmwp", "remove"}
        /\ pc'[p] \in {"pubEmwpInfo", "verifyEmwp", "return", "remove", "purge"}
    BY <1>17, GoesPc DEF PublishEmwp, PublishEmwpInfo, VerifyEmwp, RemoveOne, SweepStaged
  <2>2. UNCHANGED <<source, meddled>>
    BY <1>17, ApartSteps DEF Apart
  <2> QED BY <1>1, <1>3, <2>1, <2>2 DEF Built
<1>18. CASE PurgeBegins(p) \/ PurgeEnds(p)
  <2>1. /\ pc[p] \in {"purge", "purging"} /\ pc'[p] \in {"purging", "unlock"}
        /\ UNCHANGED <<links, missed>>
    BY <1>18, GoesPc DEF PurgeBegins, PurgeEnds
  <2> QED BY <1>1, <2>1 DEF SourceInv, Built
<1>19. CASE Moves(p)
  BY <1>7, <1>8, <1>9, <1>10, <1>11, <1>12, <1>13, <1>14, <1>15, <1>16, <1>17, <1>18, <1>19
  DEF Moves, Fill
<1> QED BY <1>4, <1>5, <1>6, <1>19, StepKinds

-----------------------------------------------------------------------------
(* The invariant.                                                          *)

LEMMA InitHistory == Init => HistoryInv
<1> SUFFICES ASSUME Init PROVE HistoryInv OBVIOUS
<1> USE DEF Init
<1>1. ASSUME NEW p \in Procs PROVE SideInv(p) /\ SweepInv(p) /\ SourceInv(p)
  <2>1. pc[p] = "idle" /\ at[p] = 1 /\ \A q \in Procs : pc[q] = "idle"
    OBVIOUS
  <2>2. SideInv(p)
    BY <2>1, NotPacking DEF Packing, Building, Built, Committed, InfoRead
  <2>3. SweepInv(p)
    BY <2>1 DEF SweepInv, Removing
  <2>4. SourceInv(p)
    BY <2>1 DEF SourceInv, Fed, Downloaded, Built
  <2> QED BY <2>2, <2>3, <2>4
<1>2. StagedInv
  BY DEF StagedInv
<1>3. DiskIsFunction
  BY DEF DiskIsFunction, Empty, Legacy
<1>4. CASE disk = Empty
  <2>1. disk[".mpk"] = None
    BY <1>4 DEF Empty, Suffixes
  <2> QED BY <1>1, <1>2, <1>3, <2>1, HasSetFacts DEF HistoryInv, SchemaTruth
<1>5. CASE disk = Legacy
  <2>1. /\ disk[".mpk"] = [schema |-> 1, whole |-> TRUE, clean |-> TRUE]
        /\ disk[".info"] = [schema |-> 1, whole |-> TRUE, clean |-> TRUE]
        /\ disk[".schema"] = None
    BY <1>5 DEF Legacy, Empty, Suffixes
  <2> QED BY <1>1, <1>2, <1>3, <2>1 DEF HistoryInv, SchemaTruth, SidecarSchema
<1> QED BY <1>4, <1>5

LEMMA NextHistory == StoreInv /\ HistoryInv /\ [Next]_vars => HistoryInv'
<1> SUFFICES ASSUME StoreInv, HistoryInv, [Next]_vars PROVE HistoryInv'
  OBVIOUS
<1>1. ASSUME NEW p \in Procs, Step(p) PROVE HistoryInv'
  <2> USE <1>1
  <2>1. StoreInv'
    <3>1. Next
      BY DEF Next, Step
    <3> QED BY <3>1, NextStore
  <2>2. /\ StagedInv /\ DiskIsFunction /\ SchemaTruth
        /\ \A q \in Procs : SideInv(q) /\ SweepInv(q) /\ SourceInv(q)
    BY DEF HistoryInv
  <2>3. StagedInv' /\ DiskIsFunction' /\ SchemaTruth'
    BY <2>2, StagedKept, DiskStays, SchemaStep
  <2>4. ASSUME NEW q \in Procs PROVE SideInv(q)' /\ SweepInv(q)' /\ SourceInv(q)'
    <3>1. SideInv(q)'
      BY <2>1, <2>2, SideOwn, SideOthers
    <3>2. SweepInv(q)'
      BY <2>2, SweepOwn, SweepOthers
    <3>3. SourceInv(q)'
      BY <2>2, SourceOwn, SourceOthers
    <3> QED BY <3>1, <3>2, <3>3
  <2> QED BY <2>3, <2>4 DEF HistoryInv
<1>2. CASE UNCHANGED vars
  <2> USE <1>2 DEF vars, source, temps, mind, knows, ledger
  <2>1. ASSUME NEW q \in Procs PROVE SideInv(q)' /\ SweepInv(q)' /\ SourceInv(q)'
    <3>1. SideInv(q) /\ SweepInv(q) /\ SourceInv(q)
      BY DEF HistoryInv
    <3>2. SideInv(q)'
      BY <3>1 DEF SideInv, SidecarSchema
    <3>3. SweepInv(q)'
      BY <3>1 DEF SweepInv
    <3>4. SourceInv(q)'
      BY <3>1 DEF SourceInv, Fed, Downloaded
    <3> QED BY <3>2, <3>3, <3>4
  <2>2. StagedInv' /\ DiskIsFunction'
    BY DEF HistoryInv, StagedInv, DiskIsFunction
  <2>3. SchemaTruth'
    BY DEF HistoryInv, SchemaTruth, HasSet, Present, SidecarSchema
  <2> QED BY <2>1, <2>2, <2>3 DEF HistoryInv
<1> QED BY <1>1, <1>2 DEF Next, Terminating, Step

\* The invariant of what runs did before: the sidecar, the staged files, the
\* removals of a Delete and the source of an image.
THEOREM HistorySound == Spec => [](StoreInv /\ HistoryInv)
<1>1. Init => StoreInv /\ HistoryInv
  BY InitStore, InitHistory
<1>2. StoreInv /\ HistoryInv /\ [Next]_vars => (StoreInv /\ HistoryInv)'
  BY NextStore, NextHistory
<1> QED BY <1>1, <1>2, PTL DEF Spec

\* The sidecar a request is compared with (checkExistingArtifacts, wrap.go:286)
\* is the schema of the image, but for a Delete that took it from a set it
\* could not remove; for any set of schemas, runs, kills and failures.
THEOREM SidecarStaysTrue == Spec => []SchemaTruth
<1>1. HistoryInv => SchemaTruth
  BY DEF HistoryInv
<1> QED BY <1>1, HistorySound, PTL

\* What Pack returns (wrap.go:198) is what a reader finds at that moment,
\* under the schema asked for and encrypted if asked for.
THEOREM ReturnIsDelivered == Spec => []ReturnedArtifactDelivered
<1>1. StoreInv /\ HistoryInv => ReturnedArtifactDelivered
  BY ReturnDelivers DEF HistoryInv
<1> QED BY <1>1, HistorySound, PTL

\* What a run builds and publishes (buildMWP) holds the whole source and
\* nothing of .cache, but for what other runs' seeding, hf or delete did to
\* the shared directory since its own download began, or for a link they had
\* left unverified; for any number of runs, kills and failures.
THEOREM BuildsHoldSource == Spec => []BuiltFromSource
<1>1. HistoryInv => BuiltFromSource
  BY DEF HistoryInv, SourceInv, Built, BuiltFromSource
<1> QED BY <1>1, HistorySound, PTL

\* A Delete (delete.go) that reports no error has left nothing of the
\* revision, the staged files of runs that died included.
THEOREM DeleteIsComplete == Spec => []DeleteLeavesNothing
<1>1. HistoryInv => DeleteLeavesNothing
  BY DEF HistoryInv, SweepInv, Removing, DeleteLeavesNothing
<1> QED BY <1>1, HistorySound, PTL

\* Its sweep (delete.go:75) takes no live run's staged file: under the lock
\* there is none.
THEOREM SweepSparesLiveRuns == Spec => LiveStagedUntouched
<1>1. StoreInv /\ HistoryInv /\ [Next]_vars =>
         [\A p \in staged : p \notin staged' => pc'[p] # pc[p]]_vars
  <2> SUFFICES ASSUME StoreInv, HistoryInv, Next, NEW q \in staged, q \notin staged'
               PROVE  pc'[q] # pc[q]
    OBVIOUS
  <2>1. PICK p \in Procs : Step(p)
    BY DEF Next, Step, Terminating, vars, temps
  <2>2. StagedStep(p)
    BY <2>1, StagedSteps DEF HistoryInv
  <2> QED BY <2>2 DEF StagedStep
<1> QED BY <1>1, HistorySound, PTL DEF Spec, LiveStagedUntouched
=============================================================================
