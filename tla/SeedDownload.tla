---------------------------- MODULE SeedDownload ----------------------------
(***************************************************************************)
(* Seeding a download from the model's other revisions (wrap/seed.go) and  *)
(* the hf download that follows (downloadModel): files are hardlinked into *)
(* the revision's directory first and verified afterwards, by a pool of    *)
(* workers, while other runs may replace or delete the files linked from.  *)
(*                                                                         *)
(* A copy of a file is its bytes, good when they hash to the Hub's SHA256, *)
(* and its mode, hf when it is the one hf would give it here.  Copies are  *)
(* never written in place, only replaced by rename, so a link is a value.  *)
(* The worker pool is as large as the file list: any interleaving of the   *)
(* files is possible.  hf is outside the repository.                       *)
(***************************************************************************)
EXTENDS Naturals, Sequences, FiniteSets

CONSTANTS
    Procs,          \* Packs of this revision
    Files,          \* LFS files the Hub lists for it
    Siblings,       \* other revisions' directories, latest first
    None,           \* no such file
    MayFail,        \* whether file operations and hf's requests may fail
    MaxRuns,        \* bound: runs started in all
    MaxCrashes      \* bound: runs killed

ASSUME SeedAssumption ==
    /\ Siblings \in Seq(STRING)
    /\ MayFail \in BOOLEAN
    /\ MaxRuns \in Nat /\ MaxCrashes \in Nat

Copies == [bytes : {"good", "bad"}, mode : {"hf", "odd"}]
Genuine == [bytes |-> "good", mode |-> "hf"]

ASSUME NoneAssumption == None \notin Procs \cup Copies

VARIABLES
    target,     \* target[f]: f in modelDir, or None
    sibling,    \* sibling[s][f]: f in the s-th sibling, or None
    pc,         \* pc[p]: "idle", "seed", "fetch" or "pack"
    step,       \* step[p][f]: where the seeding of f stands
    try,        \* try[p][f]: the sibling being tried
    fetched,    \* fetched[p]: files hf is done with
    failed,     \* failed[p]: firstErr, a rejected link could not be removed
    left,       \* runs that may still be started
    crashes,    \* runs killed so far
    abandoned,  \* history: files an ended run left behind unverified
    mixed       \* history: Packs in whose run another's fell

seeding == <<step, try, failed>>
ledger  == <<left, crashes, abandoned, mixed>>
vars    == <<target, sibling, pc, seeding, fetched, ledger>>

Linked == {"verify", "reject"}
Held   == Linked \cup {"stuck"}     \* stuck: the removal has failed
Trying == {"candidate", "link"} \cup Linked

Init ==
    /\ target \in [Files -> {None, Genuine}]    \* of an earlier, interrupted hf
    /\ sibling \in [DOMAIN Siblings -> [Files -> {None, Genuine}]]
    /\ pc = [p \in Procs |-> "idle"]
    /\ step = [p \in Procs |-> [f \in Files |-> "todo"]]
    /\ try = [p \in Procs |-> [f \in Files |-> 1]]
    /\ fetched = [p \in Procs |-> {}]
    /\ failed = [p \in Procs |-> FALSE]
    /\ left = MaxRuns
    /\ crashes = 0
    /\ abandoned = {}
    /\ mixed = {}

-----------------------------------------------------------------------------
Enters(p, to) == pc' = [pc EXCEPT ![p] = to]

Moves(p, f, to) == step' = [step EXCEPT ![p][f] = to]

\* The run is over: a later one starts from nothing but the directories.
Forgets(p) ==
    /\ Enters(p, "idle")
    /\ step' = [step EXCEPT ![p] = [f \in Files |-> "todo"]]
    /\ try' = [try EXCEPT ![p] = [f \in Files |-> 1]]
    /\ fetched' = [fetched EXCEPT ![p] = {}]
    /\ failed' = [failed EXCEPT ![p] = FALSE]

\* Links in place that p has not verified, those it cannot remove included.
Unverified(p) == {f \in Files : step[p][f] \in Held}

\* The run ends with these in the directory it leaves to the next.
Abandons(p) ==
    abandoned' = abandoned \cup {f \in Unverified(p) : target[f] \notin {Genuine, None}}

Others(p) == {q \in Procs \ {p} : pc[q] # "idle"}

\* seedFromPreviousRevisions, or straight to hf where there is no sibling or
\* the probe or the Hub's listing fails.
Begin(p) ==
    /\ pc[p] = "idle" /\ left > 0
    /\ Enters(p, "seed") \/ Enters(p, "fetch")
    /\ left' = left - 1
    /\ mixed' = IF Others(p) = {} THEN mixed \ {p} ELSE mixed \cup {p} \cup Others(p)
    /\ UNCHANGED <<target, sibling, seeding, fetched, crashes, abandoned>>

\* os.Lstat(target): a file that is there is left for hf.
LookAtTarget(p, f) ==
    /\ pc[p] = "seed" /\ step[p][f] = "todo"
    /\ Moves(p, f, IF target[f] = None THEN "candidate" ELSE "settled")
    /\ UNCHANGED <<target, sibling, pc, try, failed, fetched, ledger>>

\* os.Lstat(candidate): mode and size must fit.
LookAtCandidate(p, f) ==
    /\ step[p][f] = "candidate" /\ try[p][f] <= Len(Siblings)
    /\ LET c == sibling[try[p][f]][f]
       IN  IF c # None /\ c.mode = "hf"
           THEN Moves(p, f, "link") /\ UNCHANGED try
           ELSE try' = [try EXCEPT ![p][f] = @ + 1] /\ UNCHANGED step
    /\ UNCHANGED <<target, sibling, pc, failed, fetched, ledger>>

\* No sibling is left to try.
GiveUp(p, f) ==
    /\ step[p][f] = "candidate" /\ try[p][f] > Len(Siblings)
    /\ Moves(p, f, "settled")
    /\ UNCHANGED <<target, sibling, pc, try, failed, fetched, ledger>>

\* os.MkdirAll, os.Link: what is linked is what the path leads to now; it
\* fails where the candidate has gone or the target has come.
LinkCandidate(p, f) ==
    /\ step[p][f] = "link"
    /\ LET c == sibling[try[p][f]][f]
       IN  \/ /\ c # None /\ target[f] = None
              /\ target' = [target EXCEPT ![f] = c]
              /\ Moves(p, f, "verify") /\ UNCHANGED try
           \/ /\ c = None \/ target[f] # None \/ MayFail
              /\ try' = [try EXCEPT ![p][f] = @ + 1]
              /\ Moves(p, f, "candidate") /\ UNCHANGED target
    /\ UNCHANGED <<sibling, pc, failed, fetched, ledger>>

\* seedTargetValid, on what the path leads to: is it what the Hub lists?
VerifyLink(p, f) ==
    /\ step[p][f] = "verify"
    /\ \/ target[f] = Genuine /\ Moves(p, f, "settled")
       \/ (target[f] # Genuine \/ MayFail) /\ Moves(p, f, "reject")
    /\ UNCHANGED <<target, sibling, pc, try, failed, fetched, ledger>>

\* Mutant of RemoveLink: the next sibling is tried with the link in place.
RemoveLinkForgotten(p, f) ==
    /\ step[p][f] = "reject" /\ target[f] # None
    /\ try' = [try EXCEPT ![p][f] = @ + 1]
    /\ Moves(p, f, "candidate")
    /\ UNCHANGED <<target, sibling, pc, failed, fetched, ledger>>

\* removeSeedTarget: the path is removed and the next sibling tried.
RemoveLink(p, f) ==
    /\ step[p][f] = "reject" /\ target[f] # None
    /\ target' = [target EXCEPT ![f] = None]
    /\ try' = [try EXCEPT ![p][f] = @ + 1]
    /\ Moves(p, f, "candidate")
    /\ UNCHANGED <<sibling, pc, failed, fetched, ledger>>

\* The removal fails, on a vanished target too: the run must not go on.
RemoveFails(p, f) ==
    /\ step[p][f] = "reject"
    /\ MayFail \/ target[f] = None
    /\ failed' = [failed EXCEPT ![p] = TRUE]
    /\ Moves(p, f, "stuck")
    /\ UNCHANGED <<target, sibling, pc, try, fetched, ledger>>

\* Mutant of SeedEnds: the workers are not waited for.
SeedEndsEarly(p) ==
    /\ pc[p] = "seed" /\ ~failed[p]
    /\ \A f \in Files : step[p][f] # "todo"
    /\ Enters(p, "fetch")
    /\ UNCHANGED <<target, sibling, seeding, fetched, ledger>>

\* wg.Wait, and on to hf.
SeedEnds(p) ==
    /\ pc[p] = "seed" /\ ~failed[p]
    /\ \A f \in Files : step[p][f] = "settled"
    /\ Enters(p, "fetch")
    /\ UNCHANGED <<target, sibling, seeding, fetched, ledger>>

\* Mutant of SeedAborts: firstErr is dropped, as the other failures are.
SeedAbortsNever(p) ==
    /\ pc[p] = "seed" /\ failed[p]
    /\ \A f \in Files : step[p][f] \notin Trying
    /\ Enters(p, "fetch")
    /\ UNCHANGED <<target, sibling, seeding, fetched, ledger>>

\* The worker that failed is gone; the others may have left files untouched.
SeedAborts(p) ==
    /\ pc[p] = "seed" /\ failed[p]
    /\ \A f \in Files : step[p][f] \notin Trying
    /\ Forgets(p)
    /\ Abandons(p)
    /\ UNCHANGED <<target, sibling, left, crashes, mixed>>

Present(f) == target[f] # None
Intact(f)  == Present(f) /\ target[f].bytes = "good"

\* hf (external), one file: re-hashed where it is there, downloaded where it
\* is missing or another, and trusted where the metadata request fails.
Fetch(p, f) ==
    /\ pc[p] = "fetch" /\ f \notin fetched[p]
    /\ \/ ~Intact(f) /\ target' = [target EXCEPT ![f] = Genuine]
       \/ Present(f) /\ (Intact(f) \/ MayFail) /\ UNCHANGED target
    /\ fetched' = [fetched EXCEPT ![p] = @ \cup {f}]
    /\ UNCHANGED <<sibling, pc, seeding, ledger>>

FetchEnds(p) ==
    /\ pc[p] = "fetch" /\ fetched[p] = Files
    /\ Enters(p, "pack")
    /\ UNCHANGED <<target, sibling, seeding, fetched, ledger>>

\* buildMWP reads modelDir (PackStore), and the run ends.
PackEnds(p) ==
    /\ pc[p] = "pack"
    /\ Forgets(p)
    /\ UNCHANGED <<target, sibling, ledger>>

\* The run is killed, or hf fails.
Crash(p) ==
    /\ pc[p] # "idle" /\ crashes < MaxCrashes
    /\ crashes' = crashes + 1
    /\ Forgets(p)
    /\ Abandons(p)
    /\ UNCHANGED <<target, sibling, left, mixed>>

\* A run on another revision replaces a file of it by rename, or a delete
\* removes it.
SiblingChanges(s, f) ==
    /\ sibling' \in {[sibling EXCEPT ![s][f] = c] : c \in Copies \cup {None}}
    /\ UNCHANGED <<target, pc, seeding, fetched, ledger>>

SeedFile(p, f) ==
    \/ LookAtTarget(p, f) \/ LookAtCandidate(p, f) \/ GiveUp(p, f)
    \/ LinkCandidate(p, f) \/ VerifyLink(p, f) \/ RemoveLink(p, f) \/ RemoveFails(p, f)

Next ==
    \/ \E p \in Procs :
          \/ Begin(p) \/ SeedEnds(p) \/ SeedAborts(p)
          \/ FetchEnds(p) \/ PackEnds(p) \/ Crash(p)
          \/ \E f \in Files : SeedFile(p, f) \/ Fetch(p, f)
    \/ \E s \in DOMAIN Siblings, f \in Files : SiblingChanges(s, f)

Spec == Init /\ [][Next]_vars

-----------------------------------------------------------------------------
(* Properties.                                                             *)

\* Every variable has its type, and no file is being seeded by a run that is
\* past the seeding: wg.Wait waits for every worker, after an error too.
TypeOK ==
    /\ target \in [Files -> Copies \cup {None}]
    /\ sibling \in [DOMAIN Siblings -> [Files -> Copies \cup {None}]]
    /\ pc \in [Procs -> {"idle", "seed", "fetch", "pack"}]
    /\ step \in [Procs -> [Files -> {"todo", "settled", "stuck"} \cup Trying]]
    /\ try \in [Procs -> [Files -> 1 .. Len(Siblings) + 1]]
    /\ fetched \in [Procs -> SUBSET Files]
    /\ failed \in [Procs -> BOOLEAN]
    /\ left \in 0 .. MaxRuns /\ crashes \in 0 .. MaxCrashes
    /\ abandoned \subseteq Files /\ mixed \subseteq Procs
    /\ \A p \in Procs, f \in Files : step[p][f] \in Trying \cup Held => pc[p] = "seed"

\* A file that is not what the Hub lists is in the revision's directory only
\* while the run that linked it is seeding, and about to verify it, to remove it
\* or to abort, whatever happens to the sibling it was linked from; what an
\* aborted or killed run has left behind is the one exception.
UnverifiedOnlyBriefly ==
    \A f \in Files : target[f] \notin {Genuine, None} =>
        f \in abandoned \/ \E p \in Procs : pc[p] = "seed" /\ f \in Unverified(p)

\* A run packs only files the Hub lists, all of them: one that could not
\* remove a link it has rejected never packs.  Excepted are files an earlier
\* run, aborted or killed, left behind unverified, and runs during which
\* another Pack of the revision was under way.
PackedIsVerified ==
    \A p \in Procs \ mixed : pc[p] = "pack" =>
        \A f \in Files \ abandoned : target[f] = Genuine

\* wrap/seed.go:49: a seeding that leaves the directory "in a state that must
\* not be packed" returns an error, "every other failure just skips seeding":
\* whoever packs, no file is missing.
PackedIsComplete ==
    \A p \in Procs : pc[p] = "pack" => \A f \in Files : Present(f)
=============================================================================
