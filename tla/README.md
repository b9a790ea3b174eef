# TLA+ models of modelwrap

modelwrap packs a model's files into a read-only EROFS image with a dm-verity hash tree
(MWP), optionally encrypts it (EMWP), and publishes it under a path that only names the
model and its revision. The root hash is an attested identity, so a silently wrong image
is worse than no image. This directory holds TLA+ modules of the parts where that can go
wrong in ways tests hardly reach, the TLC runs that check them, and TLAPS proofs.

Line numbers refer to the sources under `src/`.

## Inventory

| component | state | operations | met by |
|---|---|---|---|
| artifact lock (`wrap/wrap.go:393-439`, `wrap/delete.go:51-104,159`) | the lock file's inode, who has it open, who holds its flock, the model directory | open, flock, re-stat, release; unlink and prune by a delete | Pack and Delete of any process on the host |
| artifact store (`wrap/wrap.go`, `wrap/delete.go`) | `.mpk .info .emwp .emwp.info .schema`, staged files, the download cache | Pack, Delete | several processes on one output and cache directory; consumers, which take no lock |
| dm-verity formatting (`verity_format.go`, `verity.go`) | the image file; the task counter and buffers of a level | FormatVerityHashTree, VerityParamsForArtifact | buildMWP; VerifyMWP; the consumer |
| download and seeding (`wrap/seed.go`) | the revision's directory, the siblings' directories | link, verify, remove; `hf download` | Pack before its lock; deletes and downloads of sibling revisions |
| names and identities (`modelwrap.go`, `wrap.go:189-234`, `delete.go:107-157`) | none; every path is derived from them | resolve, validate, derive | everything; runs on other revisions of the same directories |
| EMWP encryption (`crypt/crypt.go`, `wrap.go:530-688`) | the buffer, the sector number, the GPT image | encrypt, decrypt, geometry | Pack; the consumer's kernel |
| Hub API (`seed.go:126-192`, `wrap.go:238-270`) | none | resolve, list | Pack |
| consumer (`unwrap/unwrap.go`) | kernel mappings | open, mount, close | outside programs |
| command line, launcher (`cmd/modelwrap`) | two processes' options, mounts and environments | parse, launch, run | users; docker; the packer image |

Components interact through the file system only. Two modelwrap runs are two processes
(containers), killed at any time; Pack does its early check and its whole download before
it takes the lock, Delete prunes directories after it has dropped it, and readers never
lock. Inside a process, goroutines share a counter and a file (hashing, seeding).

What makes each part correct:

* lock: at most one holder, on the inode at the path, and no waiter forgotten;
* store: what can be found is always what one build produced, under the schema it is
  taken for, and only a delete withdraws it;
* formatting: the tree is the format's whatever the scheduling, and a reader that knows
  only the hash offset finds it;
* seeding: nothing unverified is packed;
* encryption: the partition is the volume the format defines, wherever reads and chunks
  end, and both readers find it there;
* names: two identities never meet in a file, or the code that lets them says so;
* launcher: a command means the same in the container as on the host.

`PROJECT.json` lists the hazards line by line, with the properties that cover them.

## Modules

    Mutex <---- refines ---- ArtifactLock         MCArtifactLock, ArtifactLockProofs
      ^
      | uses
    PackStore ---- refines ----> ArtifactSet      MCPackStore, PackStoreProofs
      | one revision's files
      | many revisions' names  ......  Revisions  MCRevisions, RevisionsProofs
    VerityTree                                    MCVerityTree, VerityTreeProofs
                                                    (with NatRecursion)
    CryptStream                                   MCCryptStream, CryptStreamProofs
    SeedDownload                                  MCSeedDownload, SeedDownloadProofs
    Launcher                                      MCLauncher, LauncherProofs

PackStore takes each of the others as one step: its `AcquireLock` is Mutex, its `BuildMwp`
is VerityTree, `PublishEmwp` and `VerifyEmwp` are CryptStream, its download is
SeedDownload; Launcher's `Run` is one run of PackStore; Revisions follows PackStore's order
of effects for several revisions at a time.

**ArtifactLock.** One action per system call of `acquireArtifactLock`: `OpenLock`,
`TryLock`, `WaitLock`, `Recheck` (the stat pair; `SameFile` compares inode numbers, and an
inode nobody has open may be reused). `Close` is close(2), which drops the flock. A run is
a Pack or a Delete; its work under the lock is one step, `Work`, that may leave files or
not. A Delete then unlinks the lock file (`Unlink`), releases, and prunes without the lock
(`Prune`). `Sibling*` are runs on other revisions of the model, which share the directory
and nothing else. `Crash` closes the descriptors. The `InCS` states end before the
unlink: Delete touches nothing of the revision after it.

**Mutex.** What the callers rely on. ArtifactLock implements it with `Holder`; the
abstract release is the unlink for a Delete and the close for a Pack.

**PackStore.** Every file-system effect of Pack and Delete as a step: the four stats of
the early check one by one (`StatOne`) and its verdict, seeding, download, removal of
`.cache`, lock, authoritative check (one step: nobody else writes then), backfill of the sidecar,
staged build, the three renames, reading back, encryption and verification; the removals
one by one, the sweep, the purge (which is not atomic: it has a beginning and an end), the
return. `StepFails` fails any step with what the code cleans up or leaves; `Crash` kills.
A file's value is what its readers tell apart: an image is its schema and whether its
source was whole and free of `.cache`; the info file names an image, as its root hash does;
an encrypted image is an image and a key. The request of a run (`job`) is drawn from `Jobs`.
The initial disk is empty or a set that predates sidecars.

The directory a Pack downloads into belongs to every Pack of the revision, none of which
holds a lock there. `SeedBegins` makes it; `SeedLinks` puts a sibling's file there,
`SeedVerifies` lets it stay, and `SeedRejects` removes it by its path (`seed.go:295`): from
then on the cache is not full, whoever had filled it, and an hf that is under way may be past
that file (`missed`). A link whose removal fails (`SeedAborts`), or whose run is killed,
stays unverified (`stray`). hf fills the directory (`DownloadEnds`), misses what was
removed behind it (`DownloadMisses`), trusts an unverified link where its request to the
Hub fails (`DownloadTrusts`), or makes the directory anew after a purge
(`DownloadStrays`). The cache is a count of its files, no more: absent, partial or full;
SeedDownload has the files one by one. `meddled[p]` is a history variable: what other runs
did to the directory since `p`'s download began, files removed or `.cache` brought back. No
guard reads it.

The order of Delete means that a deletion killed after `.emwp` and before `.info` leaves a
complete plain set, which is true and is reused; "already refuses as partial"
(`delete.go:61`) holds from the removal of `.info` on.

**ArtifactSet.** What readers are promised (SPEC.md:24-26): at most one image and one
encryption of it on offer, never replaced in place. PackStore maps what
`checkExistingArtifacts` would accept to it.

**VerityTree.** `FormatVerityHashTree`: level sizes and offsets as the code computes them,
then the levels, each with its goroutines drawing tasks from the counter, reading, hashing
into a buffer kept from task to task, and writing. Blocks are symbolic and a digest is its
block, marked. The goroutines' reads and writes may fail, and so may the caller's write of
the superblock, its read of the top block and its sync (`MainFails`). `refLevel` is the tree
of the format by definition, `dm*` is dm-verity's own addressing (outside the repository),
from `VerityParamsForArtifact` only. An address counts blocks; how far the tree reaches behind the image (`TreeBound`) is part of
`OnlyTreeWritten`, since the code's `int64` offsets depend on it.

**SeedDownload.** `seedFiles` with a worker per file: `Lstat` of the target, of each
candidate, link, verification, removal of a rejected link, each a step, while siblings
change. `Fetch` is hf: it hashes what is there, and trusts it where its request to the Hub
fails (`seed.go:290-294`). Any number of Packs of the revision run, in turn or at once;
`mixed` remembers those in whose run another's fell. A worker that cannot remove its link
stops (`stuck`), the others finish their files, and the run returns an error instead of
packing (`SeedAborts`); `abandoned` are the files that a run left unverified when it aborted
or was killed. PackStore abstracts from which file it is.

**CryptStream.** `crypt.go`'s `stream` with its buffer, `io.ReadFull` in pieces of any
length (`ReadSome`), the decision between the end of the source and an error (`ReadEnds`,
`ReadFails`), padding, transformation and writing of a chunk (`WriteChunk`, `WriteFails`),
between `encryptEMWP`'s `Truncate`, `Sgdisk` and `Sync`, and again in `VerifyEMWP`
(`Verify`). Files are functions from addresses to cells; a cell knows what it stands for
and the IV and place it was enciphered with, and only the same IV and place decipher it.
`Volume` is the ciphertext by definition, `DmCryptReads` what a kernel reads through a
mapping with `OpenCrypt`'s parameters.

**Launcher.** One invocation: a user puts flags and variables together (`Pass`, `Export`),
the process parses them (`Refuse`, `Accept`), launches the container (`Launch`), whose
process parses what it was given and packs or deletes (`Run`). `Options` is `parseArgs`,
`Container` is `dockerRunArgs` with the environment of the image, `Packs` and `Deletes` are
what the packer makes of its options, in terms of the host's paths. `direct` is what the
same command does with `--local`. Output and cache are made before the model directory is
looked at (`hostMade`), as `Pack` does.

**Revisions.** The names of models, revisions, artifacts, staged files and caches as
sequences of tokens, validated and put together as the code does, and runs of Pack and
Delete on different identities that exclude each other only where their lock files are the
same. A file remembers the identity whose run wrote it. A Pack stages and renames in
`Steps`' order or stops; what a failing step does to its own files is PackStore's subject.

## Runs

| run | instance | shows |
|---|---|---|
| `lock` | 3 processes, one run each, 2 inodes | `MutualExclusion`, `HolderKeepsPath`, `ImplementsMutex`, `EveryRunReturns` |
| `store` | 2 processes, 3 runs, 1 kill, 5 kinds of request | the invariants below, `LiveStagedUntouched`, `ImplementsArtifactSet` |
| `verity` | 3 goroutines, fan-out 2, 2 blocks per task, 1 to 10 data blocks | the tree and its reader |
| `crypt` | sectors of 4 cells, IV units of 2, chunks of 2 sectors, images of 1 to 26 cells | `OnlyVolumeEmitted`, `TablesIntact`, `ConsumerDecrypts`, `VerifyRecovers`, `FailsForAReason`, `StreamEnds` |
| `seed` | 2 processes, 2 files, 1 sibling, 3 runs, 1 kill | `UnverifiedOnlyBriefly`, `PackedIsVerified` |
| `launcher` | any 5 of 21 settings, with their values | `LaunchedLikeLocal`, `HostFilesKept` |
| `names` | 2 runs at a time, 3 in all, any two of 14 names | `StagedSurvives`, `OnlyOwnTouched`, `BuiltFromOwn`, `ReturnsOwn`, `DeleteCollects` |
| `store_cross`, `store_truncated`, `seed_shared`, `launcher_schema`, `names_record` | as small as the case allows | a sentence of the repository that the code does not keep |

Store invariants: `CommitRecordTrue` (image and commit record agree), `SchemaTruth` (the
sidecar, or its absence, names the schema that built the image), `EmwpMatchesMwp`,
`BuiltFromSource`, `DeleteLeavesNothing`, `ReturnedArtifactDelivered` (what is returned is
what a reader finds then).

Exceptions. Some properties hold but for cases that the code lets happen, and name them:

* `SchemaTruth`: a delete has failed to remove `.info` and `.mpk` and gone on (`stripped`,
  shown by `store_cross`);
* `BuiltFromSource`: an image may hold less than the source where, during its run's own
  download or after it, another run has removed files of the shared directory, a delete by
  its purge (`store_truncated`) or another Pack's seeding by path (`seed_shared`), or hf has
  trusted a link others had left unverified; and it may hold `.cache` where another seeding
  or hf has brought it back after the scrub. What it excludes is that a run packs a link of
  its own that it could not remove, and that a directory nobody else changed is packed
  incomplete, whatever an earlier failure, kill or delete has left in it;
* `PackedIsVerified`, `UnverifiedOnlyBriefly`: an earlier run was killed, or could not remove
  its link and aborted, between a link and its verification (`abandoned`); the next leaves
  the file to hf, which trusts it when it cannot ask the Hub. A run that has such a link of
  its own must not pack at all. `PackedIsVerified` also excepts a run in which another Pack
  of the revision seeded or downloaded (`mixed`, `seed_shared`);
* `LaunchedLikeLocal`: an exported key file makes the container refuse every `--delete`; a
  missing model directory is made by docker, and packed; a name derived from the directory
  is that of the mount, so that a local directory without a model argument is packed as
  `model@<hash>` through the launcher and as `<directory>@<hash>` with `--local` (README.md:34
  of the repository has the latter only). The property states each of the three by the result
  it has; it catches any other difference, and none of these;
* `OnlyOwnTouched`, `ReturnsOwn`: revisions `r` and `r.emwp` share a file (`Dotted`,
  `names_record`); `OnlyOwnTouched`, `BuiltFromOwn`: model `org/m` and revision `m` of model
  `org` share a cache directory (`Nested`);
* `DeleteCollects`: the name of a local directory holds an `@`.

Two more consequences of the code follow from the models without breaking a property: a
delete's prune, no longer under the lock, can remove the directory another run has just
made, whose open then fails with ENOENT (ArtifactLock's `OpenFails`; `delete.go:41-42` says
"the lock always exists to take"); and the early check, which takes no lock, can report a
*partial set* between two renames of another Pack's publish (PackStore's `StatRefuses`).

Bounds. Three lock runs are the fewest in which one deletes, one waits on the old inode
and one takes the new; two inodes are the path's old and new file, and the first is reused
once nobody has it open. `MaxRuns` also bounds the retries: a retry needs another delete to
have unlinked the file. Three store runs let a pack meet what a failed one and a delete left
behind; two run at a time, since under the lock a third could only wait, and before it could
do to the shared directory only what the second does; `BuildsHoldSource` has any number. One kill, because a kill changes what a single failing step or a
released lock can already do only by what is left on disk; failures are unbounded.
Fan-out 2 and 10 data blocks give zero to four levels, several tasks in the lowest with the last one not
full, and last blocks with one digest; 3 goroutines meet 3 tasks. The images of `crypt` end
before, at and behind every sector and chunk boundary of four chunks, the last one short,
with two IV units in a sector so that the two ways to number sectors differ. Three runs of
seeding are two that overlap and one that then has the directory to itself, or one after a
kill; two files let one worker fail while another is at work, and a sibling that changes at
any moment stands for a longer list of them, which the theorems cover. Five settings are the fewest that combine a model, a
directory, a key in two places and an operation, and every pair of settings meets every
other. The names are those one token away from a file name of another, and one for each
rule of the validation; three runs are a Pack that stops, and two that meet over what it left.

Deadlock is checked everywhere. The specifications stutter explicitly when they have ended.

Fairness. `lock` assumes for each process that it takes its next system call when
that can succeed (`WF_vars(Progress(p))`): a scheduler runs it, and a blocked flock returns
when its file is free. Nothing obliges a run to start, fail or be killed. Weak fairness of
`WaitLock` is enough for a bounded number of runs; with an endless supply of them flock(2)
promises no order and a waiter could be overtaken for ever. `verity` assumes it for each goroutine
and for the caller, `crypt` for the process (`WF_vars(Progress)`), whose next step is taken
if it does not fail; no fault and no verification is obliged. The other specifications have
no fairness and no liveness property.

## What the violations show

Each is quoted in `PROJECT.json`. In short: a delete that fails for `.info` and `.mpk` but
not for `.schema` leaves a set that counts as schema 1; the cache directory is shared by all
Packs of a revision without a lock, so that another Pack's download can put a partial
directory under the build, and another Pack's seeding can remove a file it has downloaded;
`--schema` and `MODELWRAP_SCHEMA`, which "must accept and reject identical values", read
numbers with other bases than ten differently (`--schema 0x2` packs with schema 2, the
variable is refused; the instance has a plain number, zero, a word, 0x2 and 010);
and an encryption of revision `r` replaces the
commit record of revision `r.emwp`.

## Proofs

`ArtifactLockProofs` proves, for any sets of processes and inodes and any `MaxRuns`, from
`LockAssumption` alone (`None` is neither a process nor an inode):

* `TypeCorrect`: `Spec => []TypeOK`;
* `LockExcludes`: `Spec => []MutualExclusion`;
* `LockStaysLinked`: `Spec => []HolderKeepsPath`;
* `LockImplementsMutex`: `Spec => ImplementsMutex`.

Mutual exclusion is not inductive: it needs to know that a process past its lock owns the
flock on the inode it has open and nobody else does (`OwnerInv`), that a process in its
critical section has that inode at the path (`PathInv`), and that a linked lock file or a
working process keeps the directory in place (`DirInv`). Two processes in their critical
sections then have the same inode open, the one at the path, and the flock on it has one
owner. The conjunction `IInv` of these and `TypeOK` is shown initial and preserved action
by action (`NextInv`); the refinement follows step by step: entering is `Recheck`, leaving
is `Unlink`, `Release` or `Crash`, every other step keeps `Holder`.

`PackStoreProofs` proves, for any processes, keys, requests, kills and failures, from
`StoreAssumption` (the requests are typed, `None` is none of the values):

* `StoreTypeCorrect`: `Spec => []TypeOK`, with `holder = p <=> pc[p] \notin Outside`;
* `CommitRecordStaysTrue`: `Spec => []CommitRecordTrue`;
* `EmwpStaysTrue`: `Spec => []EmwpMatchesMwp`;
* `StoreImplementsArtifactSet`: `Spec => ImplementsArtifactSet`.

That image and commit record agree is not inductive either: a publish that found an old
`.info` beside its new `.mpk` would break it. `RunInv` says what a run under the lock may
rely on at each program counter: from the authoritative check to the rename of the image
nothing but the sidecar is there, before the commit record its own image is, from the
commit on the set is complete and `ref` is its record, and an encryption is published only
where there is none. Nobody disturbs a holder, because every other run is outside
(`OneHolder`); a step that writes no published file needs only to be told what its own run
relies on next (`OutsideStep`, `InsideStep`, `EndStep`); a step that writes one is the
holder's (`WriteStep`). `StoreInv`, the conjunction with the types, is shown initial and
preserved (`NextStore`), and gives the refinement: `PublishInfo` publishes, `PublishEmwp`
or `PublishEmwpInfo` (where an `.emwp` survived alone) publishes the encryption, a removal
withdraws, every other step changes no offer.

Its second half goes on with what depends on the past of a run, from the same assumption:

* `SidecarStaysTrue`: `Spec => []SchemaTruth`;
* `ReturnIsDelivered`: `Spec => []ReturnedArtifactDelivered`;
* `BuildsHoldSource`: `Spec => []BuiltFromSource`;
* `DeleteIsComplete`: `Spec => []DeleteLeavesNothing`;
* `SweepSparesLiveRuns`: `Spec => LiveStagedUntouched`.

`HistoryInv` adds to `StoreInv` four things. From the publication of the sidecar on, the
sidecar is the schema asked for (`SideInv`), so that the commit record, published last, makes
`SchemaTruth` true of the new set. Only a run at the steps between staging and renaming has a
staged file (`StagedInv`); all of these are under the lock, so at a Delete's sweep there is
none. A Delete has removed what it has passed, or notes an error (`SweepInv`). A Pack that has
downloaded and not yet built finds the cache full unless others removed files or hf trusted
one of theirs, and clean unless others brought `.cache` back, and both are on its record; a
link of its own it has only while seeding, and a download that may have missed a file has
that on its record too (`SourceInv`). What other runs
may disturb is small: a writer holds the lock (`WritersHold`), and a run outside it touches
the shared directory only (`SharedSteps`).

`VerityTreeProofs` proves, for any image, fan-out, task size and number of goroutines, from
`VerityAssumption` (the numbers are positive, a hash block holds more than one digest), all
safety properties of the run, that the root is reproducible, that every step advances, and
the bound on the offsets:

* `VerityTypeCorrect`, `TasksStayDisjoint`;
* `LevelsStayComplete`: `Spec => []LowerLevelsComplete`;
* `WritesStayInTree`: `Spec => []OnlyTreeWritten`;
* `ConsumerAlwaysReads`: `Spec => []ConsumerReads`;
* `RootReproducible`: the root returned is the format's for the image, so packing it again
  with other goroutines or in another order attests the same;
* `FormattingAlwaysAdvances`: each step begins an earlier one of finitely many stages or
  lowers the number that counts what is left of its level (tasks not drawn, and what each
  goroutine has still to do with its own);
* `OffsetsNeverOverflow`: with 128 digests to a block and an image of at most
  `maxHashOffset` bytes, the tree ends below 2^63.

The levels' sizes and places, the reference tree and dm-verity's shifts are recursive
functions, of whose values a prover knows nothing. `NatRecursion` supplies what is needed:
induction as a fact about sets of numbers (from the library's well-founded minimum, so that
no operator is a parameter), and that a definition whose values depend on smaller arguments
only defines a function with those values (`RecursiveValues`); it is instantiated once for
each definition (`Blocks`, `FromTop`, `Ref`, `Power`). What follows is geometry: a level has
`ceil(m / D)` blocks over `m`, and the last has one (`SizeFacts`); each level begins where
the one above it ends, and all of them fit in a (D - 1)-th of the image and a block for each
(`OffsetFacts`, `TreeEnds`); sizes by repeated and by direct division agree (`CeilTwice`,
`SizeByDivision`), so dm-verity counts the levels and finds the blocks the formatting has
written (`DmLevelsAre`, `DmStartIs`, `CompleteTreeReads`).

That a level is read only from complete levels is not inductive. The invariant (`TreeInv`)
says which blocks are in place before the level is: without an error, each task drawn so far
is being worked on or has its blocks in place, and who has stopped has found no task left
(`Hashing`); a task being worked on is below the counter (`Drawn`), and the counter starts
over only when all goroutines have stopped (`Joined`); a buffer about to be written holds the
digests of the task's source blocks, and zeros behind the last (`Buffered`); the levels below
are in place (`LowerInPlace`), and the image, the superblock and what is behind the tree are
as they were (`Untouched`). A write covers its task's blocks, disjoint from those of every
other task (`TasksApart`) and of every other level (`Addresses`), so it can only add to what
is in place; when all have stopped and none has failed, the tasks drawn are all there are and
make up the level (`LevelDone`).

`SeedDownloadProofs` proves `SeedTypeCorrect`, `UnverifiedStaysBrief` (`Spec =>
[]UnverifiedOnlyBriefly`) and `PackedStaysVerified` (`Spec => []PackedIsVerified`) for any
runs, files and siblings, several Packs of the revision at a time included. The invariant
adds that a worker with a link in its hands has a sibling it came from (`TryInv`); that a run
no other fell in is the only one under way (`Alone`); and that a file hf is done with stays
there for such a run (`Downloaded`). When it packs, every file is there, and one that is not
genuine would be in the hands of a seeding run, which is not at that point, or abandoned.

`CryptStreamProofs` proves, for any sizes of sector, IV unit, chunk, image and partition
that `CryptAssumption` allows (a sector is a whole number of IV units, the tables fit in
front of and behind the partition), all six safety properties of the run:
`StreamTypeCorrect`, `OnlyVolumeIsEmitted`, `TablesStayIntact`, `ConsumerAlwaysDecrypts`,
`VerifyAlwaysRecovers`, `NeverFailsForNothing`; and `StreamAlwaysAdvances`, that each step
lowers a number that begins at three times the source's size and four, so that no sequence
of short reads keeps the loop going. The arithmetic comes first: rounding up to a
sector (`Ceil*`), moving an offset by whole sectors (`Shift*`), the two computations of the
partition's size (`SidesAgree`). The invariant (`StreamSound`) is `TypeOK` with `DiskInv`
(outside the partition the disk is as sgdisk left it, inside it is the volume or zero),
`StreamInv` (what has been written is whole sectors, is all that was read but what the
buffer holds, and the buffer holds the source from there) and `EndInv` (what the ends have
established). That a chunk other than the last is whole sectors is what numbers the next
one right, and it holds because only a full buffer or the end of the source ends a read.

`LauncherProofs` proves, for any settings a user may give and any files on the host, from
`LauncherAssumption` (paths are paths, a schema text is a number to each parser, "not given"
is no value), all three properties of the run: `LauncherTypes`, `LaunchIsLocal`,
`LaunchKeepsHost`. The argument is a translation. What the process in the
container parses are the host's options with paths replaced by mount points
(`ContainerOptions`); each mount point leads back to the path it stands for
(`ContainerSees`), docker changes nothing there but what is missing (`MountedFiles`), and the directories made
before the model directory is looked at are the same ones (`MadeFiles`, `FilesAlike`). So
key, directories and outcome agree (`ContainerKey`, `ContainerDirs`, `ContainerDoes`), and a
container refuses only a deletion with a key file (`ContainerRefuses`). The invariant
(`LauncherInv`) says, by `pc`, which of the two processes is at work, that it was given this
translation, and what the launch has left on the host.

`RevisionsProofs` proves, for any users, any number of runs and any requests over the
letters that `RevisionsAssumption` names (the random part of a staged name is none of them),
all of the run's properties and the fact about names they rest on: `SweepsItsOwn`,
`NamesTypeCorrect`, `LiveStagedSurvives`, `ImagesFromOwnCache`, `RecordsAreOwn`,
`OthersUntouched`, `DeletedIsGone`. Half of it is about strings. A valid revision has no
`..`, so a staged name `<base>..staged<suffix>.<rand>` splits in one way only (`Anchored`)
and the glob that sweeps up after one revision matches no other's staged files
(`SweepsItsOwn`). Published and staged files differ in their last token, cache and output in
their first; published files of two identities meet only where one revision is the other's with
`.emwp` behind it (`PublishedMeet`), and caches nest only where names do (`CacheMeet`). The other half is an invariant (`IInv`): two runs past the lock have
different identities (`LockInv`); what a run has staged is what it has yet to rename, in
files of its own (`StagedInv`); every file is at a path of a valid identity that some run
packs (`FilesInv`); and what a run has renamed stays its own unless another run meets it
(`PublishedInv`). A step then changes only files of its own identity (`FrameStep`), which
leaves the rest of the invariant as it was.

Model-checked only: the liveness properties `EveryRunReturns`, `Terminates` and `StreamEnds`,
which are out of the prover's reach, and the runs that show a violation. Of `Terminates`
and `StreamEnds` the part that is safety is proved (`FormattingAlwaysAdvances`,
`StreamAlwaysAdvances`): what is left to TLC is that a step can always be taken. For
`EveryRunReturns` no such measure is stated: how often a waiter opens the lock again depends
on how often others unlink it. Every safety
property of a passing run is a theorem. Each inductive invariant was checked by TLC on the
runs' instances before it was proved.

## Not modelled

Power loss (nothing is fsynced before a rename but the payload and the tree; the models'
kills leave the file system intact), the hashes behind identities and references, HTTP and
JSON, base64 and HKDF, the cipher's and the external tools' insides, mounting. Of the
command line, `-h`, surplus arguments and the choice of the image. Of names, characters
that validation treats alike. `PROJECT.json` gives the reason for each component.

## Plan

1. Power loss in PackStore: sidecars that may be torn.
2. A theorem that relates two modules: what VerityTree proves of an image is what
   PackStore's `BuildMwp` takes as one step.
