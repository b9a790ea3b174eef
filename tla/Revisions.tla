------------------------------ MODULE Revisions ------------------------------
(* Names.  Every artifact, staged file, lock and cache directory is found  *)
(* by a path put together from what the user calls the model, and each     *)
(* model@revision has a lock of its own: two runs on different revisions   *)
(* exclude each other nowhere, and whether they meet on a path is a matter *)
(* of names (wrap/wrap.go:189-232, 282-391, wrap/delete.go).               *)
(*                                                                         *)
(* A string is a sequence of tokens: ".", "/", "@" and the words between   *)
(* them.  A file is the identity whose run wrote it.  What a run does to   *)
(* its own files when a step fails is PackStore's subject: here a Pack     *)
(* stages and renames or is killed, and a Delete is one step.              *)
EXTENDS SequencesExt, Integers

CONSTANTS Words,        \* the words of names
          Users,        \* runs that may be under way at a time
          Requests,     \* what they are for: [model, dir]; dir = << >> downloads
          Rands,        \* bound: random parts of staged names
          MaxRuns       \* bound: runs

\* The tokens of a path, but for random parts: those are numbers.
Letters == Words \cup {".", "/", "@", "staged", "mpk", "info", "emwp", "schema",
                       "output", "cache", "weights", "commit", "hash"}

ASSUME RevisionsAssumption ==
    /\ Requests \subseteq [model : Seq(Letters), dir : Seq(Letters)]
    /\ Rands \cap Letters = {}
    /\ MaxRuns \in Nat

VARIABLES request,      \* request[u]: the model user u packs and deletes
          job,          \* job[u]: "pack", "encrypt", "delete"
          pc, at,       \* pc[u]: where u's run is; at[u]: in publishing, which step of Steps
          staged,       \* staged[u]: the files it has staged, [suffix, path]
          files,        \* files[path]: the base path of the identity that wrote it
          runs          \* runs begun
vars == <<request, job, pc, at, staged, files, runs>>

Slash == <<"/">>
At    == <<"@">>
mpk   == <<".", "mpk">>
info  == <<".", "info">>
emwp  == <<".", "emwp">>
schema == <<".", "schema">>
emwpInfo == emwp \o info

Jobs == {"pack", "encrypt", "delete"}

-----------------------------------------------------------------------------
(* Identities.                                                             *)

Has(s, part) == \E i \in 1 .. Len(s) : IsPrefix(part, SubSeq(s, i, Len(s)))

\* strings.Cut(s, "@").
Cut(s) == LET i == SelectInSeq(s, LAMBDA c : c = "@")
          IN  IF i = 0 THEN [name |-> s, revision |-> << >>]
              ELSE [name |-> SubSeq(s, 1, i - 1), revision |-> SubSeq(s, i + 1, Len(s))]

\* resolveModel; "commit" is what the Hub has at HEAD, "hash" what HashDir returns.
Resolve(q) ==
    LET cut == Cut(q.model)
    IN  [name     |-> IF cut.name # << >> THEN cut.name ELSE q.dir,
         revision |-> IF cut.revision # << >> THEN cut.revision
                      ELSE IF q.dir = << >> THEN <<"commit">> ELSE <<"hash">>]

\* strings.Split(name, "/").
Segments(name) ==
    LET s     == Slash \o name \o Slash
        slash == {i \in 1 .. Len(s) : s[i] = "/"}
    IN  {SubSeq(s, ij[1] + 1, ij[2] - 1) : ij \in
            {ij \in slash \X slash : ij[1] < ij[2] /\ \A k \in slash : k <= ij[1] \/ k >= ij[2]}}

\* Mutant: ".." is forbidden only as a whole revision.
ValidRevisionDots(r) == r \notin {<< >>, <<".">>, <<".", ".">>} /\ ~ Has(r, Slash)
ValidRevision(r) ==
    /\ ~ Has(r, <<".", ".">>)
    /\ ~ Has(r, Slash) /\ r \notin {<< >>, <<".">>}

\* validatePinnedModel.
Valid(m) ==
    /\ ~ Has(m.name \o m.revision, <<"*">>)
    /\ ValidRevision(m.revision)
    /\ Segments(m.name) \cap {<< >>, <<".">>, <<".", ".">>} = {}

\* Base path of the artifacts, and the directory of the download.
Base(m)  == <<"output", "/">> \o m.name \o Slash \o m.revision
\* Mutant: one cache directory for all revisions of a model.
CacheAll(m) == <<"cache", "/">> \o m.name
Cache(m) == <<"cache", "/">> \o m.name \o Slash \o m.revision
Under(dir, path) == IsStrictPrefix(dir \o Slash, path)

Packed(u)  == Resolve(request[u])
\* A Delete is given the model@revision that Pack has printed.
Deleted(u) == Cut(Packed(u).name \o At \o Packed(u).revision)
Subject(u) == IF job[u] = "delete" THEN Deleted(u) ELSE Packed(u)
Own(u)     == Base(Subject(u))

-----------------------------------------------------------------------------
(* Files.                                                                  *)

Exists(path) == path \in DOMAIN files
Put(path, id) == [p \in DOMAIN files \cup {path} |-> IF p = path THEN id ELSE files[p]]
Without(paths) == [p \in DOMAIN files \ paths |-> files[p]]

\* Mutant: no token ends the revision in a staged name.
AnchorNone == << >>
Anchor == <<".", ".", "staged">>

\* stagedPath: <revision>..staged<suffix>.<rand>.
StagedPath(base, suffix, rand) == base \o Anchor \o suffix \o <<".", rand>>

\* isStagedLeftover, of an entry of the model's output directory.
IsStagedLeftover(path, base) ==
    LET prefix == base \o Anchor \o <<".">>
    IN  IsStrictPrefix(prefix, path)
        /\ ~ Has(SubSeq(path, Len(prefix) + 1, Len(path)), Slash)

\* Mutant: an image alone counts as complete.
VerdictImage(base) == IF Exists(base \o mpk) THEN "reuse" ELSE "build"
\* checkExistingArtifacts, as far as it asks which files there are.
Verdict(base) ==
    IF \A s \in {mpk, info, emwp, emwpInfo} : ~ Exists(base \o s) THEN "build"
    ELSE IF Exists(base \o mpk) /\ Exists(base \o info) THEN "reuse" ELSE "partial"

\* Mutant: the sidecar outlives its artifacts.
RemovedNoSidecar == {emwpInfo, emwp, info, mpk}
Removed == {emwpInfo, emwp, info, mpk, schema}

\* What Pack does under the lock, from buildMWP to the record of the .emwp.
Steps == <<[do |-> "stage", suffix |-> mpk],
           [do |-> "stage", suffix |-> schema], [do |-> "rename", suffix |-> schema],
           [do |-> "rename", suffix |-> mpk],
           [do |-> "stage", suffix |-> info], [do |-> "rename", suffix |-> info],
           [do |-> "stage", suffix |-> emwp], [do |-> "rename", suffix |-> emwp],
           [do |-> "stage", suffix |-> emwpInfo], [do |-> "rename", suffix |-> emwpInfo]>>
Encrypt == 7
EmwpInfo == 9

Locked(u) == pc[u] \in {"publish", "return"}
LockFree(u) == \A v \in Users : Locked(v) => Own(v) # Own(u)

Goto(u, l, i) == pc' = [pc EXCEPT ![u] = l] /\ at' = [at EXCEPT ![u] = i]

\* Goes on with step i of Steps, if there is one for this run.
Continue(u, i, fs) ==
    IF (i = Encrypt /\ job[u] = "pack") \/ i > Len(Steps) THEN Goto(u, "return", 0)
    ELSE IF i = Encrypt /\ Own(u) \o emwp \in fs THEN Goto(u, "publish", EmwpInfo)
    ELSE Goto(u, "publish", i)

\* Mutant: a run that stops keeps what it has staged in mind.
EndsKeeps(u) == Goto(u, "idle", 0) /\ UNCHANGED staged
Ends(u) == Goto(u, "idle", 0) /\ staged' = [staged EXCEPT ![u] = {}]

-----------------------------------------------------------------------------
Init ==
    /\ request \in [Users -> Requests]
    /\ job = [u \in Users |-> "pack"]
    /\ pc = [u \in Users |-> "idle"] /\ at = [u \in Users |-> 0]
    /\ staged = [u \in Users |-> {}]
    /\ files = << >>
    /\ runs = 0

\* Resolves and validates the model, and has a first look at the artifacts.
Start(u, j) ==
    /\ pc[u] = "idle" /\ runs < MaxRuns
    /\ runs' = runs + 1
    /\ job' = [job EXCEPT ![u] = j]
    /\ LET m == IF j = "delete" THEN Deleted(u) ELSE Packed(u)
           l == IF ~ Valid(m) THEN "idle"
                ELSE IF j = "delete" THEN "delete"
                ELSE IF Verdict(Base(m)) = "partial" THEN "idle"
                ELSE IF request[u].dir = << >> THEN "download" ELSE "lock"
       IN  Goto(u, l, 0)
    /\ UNCHANGED <<request, staged, files>>

Download(u) ==
    /\ pc[u] = "download"
    /\ files' = Put(Cache(Packed(u)) \o Slash \o <<"weights">>, Own(u))
    /\ Goto(u, "lock", 0)
    /\ UNCHANGED <<request, job, staged, runs>>

Lock(u) ==
    /\ pc[u] = "lock" /\ LockFree(u)
    /\ CASE Verdict(Own(u)) = "build" -> Goto(u, "publish", 1)
         [] Verdict(Own(u)) = "reuse" -> Continue(u, Encrypt, DOMAIN files)
         [] OTHER                     -> Goto(u, "idle", 0)
    /\ UNCHANGED <<request, job, staged, files, runs>>

\* stagedPath: os.CreateTemp creates exclusively.
Stage(u) ==
    /\ pc[u] = "publish" /\ Steps[at[u]].do = "stage"
    /\ \E rand \in Rands :
          LET path == StagedPath(Own(u), Steps[at[u]].suffix, rand)
          IN  /\ ~ Exists(path)
              /\ files' = Put(path, Own(u))
              /\ staged' = [staged EXCEPT ![u] = @ \cup
                              {[suffix |-> Steps[at[u]].suffix, path |-> path]}]
    /\ Continue(u, at[u] + 1, DOMAIN files)
    /\ UNCHANGED <<request, job, runs>>

\* os.Rename over what is there; the run fails if its staged file is gone.
Rename(u) ==
    /\ pc[u] = "publish" /\ Steps[at[u]].do = "rename"
    /\ \E f \in staged[u] :
          /\ f.suffix = Steps[at[u]].suffix
          /\ IF Exists(f.path)
             THEN /\ files' = [p \in (DOMAIN files \ {f.path}) \cup {Own(u) \o f.suffix} |->
                                  IF p = Own(u) \o f.suffix THEN files[f.path] ELSE files[p]]
                  /\ staged' = [staged EXCEPT ![u] = @ \ {f}]
                  /\ Continue(u, at[u] + 1, DOMAIN files')
             ELSE Ends(u) /\ UNCHANGED files
    /\ UNCHANGED <<request, job, runs>>

Return(u) ==
    /\ pc[u] = "return"
    /\ Ends(u)
    /\ UNCHANGED <<request, job, files, runs>>

\* A Pack is killed, or stops at an error.
Stop(u) ==
    /\ pc[u] \in {"download", "lock", "publish"}
    /\ Ends(u)
    /\ UNCHANGED <<request, job, files, runs>>

Delete(u) ==
    /\ pc[u] = "delete" /\ LockFree(u)
    /\ files' = Without({Own(u) \o s : s \in Removed}
                        \cup {p \in DOMAIN files : IsStagedLeftover(p, Own(u))}
                        \cup {p \in DOMAIN files : Under(Cache(Deleted(u)), p)})
    /\ Goto(u, "idle", 0)
    /\ UNCHANGED <<request, job, staged, runs>>

Next ==
    \/ \E u \in Users :
          \/ \E j \in Jobs : Start(u, j)
          \/ Download(u) \/ Lock(u) \/ Stage(u) \/ Rename(u) \/ Return(u) \/ Stop(u) \/ Delete(u)
    \/ runs = MaxRuns /\ (\A u \in Users : pc[u] = "idle") /\ UNCHANGED vars

Spec == Init /\ [][Next]_vars

-----------------------------------------------------------------------------
(* Type correctness: no run goes on with an identity that is not valid,    *)
(* and what it has staged is for the steps before it.                      *)
TypeOK ==
    /\ request \in [Users -> Requests]
    /\ job \in [Users -> Jobs]
    /\ \A u \in Users : pc[u] # "idle" => Valid(Subject(u))
    /\ \A u \in Users : at[u] \in IF pc[u] = "publish" THEN 1 .. Len(Steps) ELSE {0}
    /\ \A u \in Users : \A f \in staged[u] :
          pc[u] = "publish" /\ \E i \in 1 .. at[u] - 1 : Steps[i].suffix = f.suffix
    /\ runs \in 0 .. MaxRuns

(* "Live runs hold the lock, so this can never unlink another job's temp   *)
(* file" (delete.go:78-80), and "The grammar is unambiguous by             *)
(* construction" (delete.go:110): what a live run has staged stays where   *)
(* it is, however the revisions beside it are called.                      *)
StagedSurvives ==
    \A u \in Users : \A f \in staged[u] : Exists(f.path) /\ files[f.path] = Own(u)

\* The two names that meet: of revisions "r" and "r.emwp" of a model the
\* record of the encrypted image and the commit record; and a model whose
\* name goes on where another's name/revision ends.
Dotted(short, long) == long = short \o emwp
Nested(outer, inner) == Under(outer, inner)

(* "A non-empty directory simply means another revision/model still exists *)
(* and is intentionally retained" (delete.go:100-101): a step of a run     *)
(* removes and overwrites nothing of another identity, but for the two     *)
(* clashes of names above.                                                 *)
OnlyOwnTouched ==
    [][\A u \in Users : pc'[u] # pc[u] \/ at'[u] # at[u] =>
          \A p \in DOMAIN files : p \notin DOMAIN files' \/ files'[p] # files[p] =>
             \/ files[p] = Own(u)
             \/ \E s, l \in {Own(u), files[p]} : Dotted(s, l) /\ p = l \o info
             \/ Nested(Own(u), files[p]) /\ Under(Cache(Subject(u)), p)]_vars

(* "Delete removes every generated artifact and the downloaded source      *)
(* cache for one pinned model revision" (delete.go:19-21): whatever name   *)
(* Pack has found, deleting it leaves nothing its runs have written.       *)
(* Except: the name of a local directory may hold an "@", at which Delete  *)
(* then cuts another model and revision.                                   *)
DeleteCollects ==
    [][\A u \in Users : pc[u] = "delete" /\ pc'[u] # pc[u] /\ ~ Has(Packed(u).name, At) =>
          \A p \in DOMAIN files' : files'[p] # Base(Packed(u))]_vars

(* A Pack builds its image from the files of its own revision, unless      *)
(* another model's cache lies in its directory.                            *)
BuiltFromOwn ==
    \A u \in Users : pc[u] = "publish" /\ at[u] = 1 /\ request[u].dir = << >> =>
        \A p \in DOMAIN files : Under(Cache(Packed(u)), p) =>
            files[p] = Own(u) \/ Nested(Own(u), files[p])

(* The reference Pack returns is read from the commit record: it is there, *)
(* and its own, beside its own image, unless a run packs or deletes the    *)
(* revision whose encrypted image has that record.                         *)
Alone(u) == \A v \in Users : \A m \in {Packed(v), Deleted(v)} : ~ Dotted(Base(m), Own(u))
ReturnsOwn ==
    \A u \in Users : pc[u] = "return" /\ Alone(u) =>
        \A s \in {mpk, info} : Exists(Own(u) \o s) /\ files[Own(u) \o s] = Own(u)

(* "existing artifacts are never silently reused across schemas, rebuilt   *)
(* over, or overwritten" (wrap.go:286-287): no run replaces what another   *)
(* revision has published.  The violation run: an encryption of "r" does.  *)
NeverOverwritten ==
    [][\A p \in DOMAIN files \cap DOMAIN files' : files'[p] = files[p]]_vars
=============================================================================
