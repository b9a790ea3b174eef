----------------------------- MODULE VerityTree -----------------------------
(***************************************************************************)
(* FormatVerityHashTree (verity_format.go): the native, parallel           *)
(* construction of the dm-verity hash tree behind an EROFS image, and the  *)
(* consumer's reading of it with parameters derived from the hash offset   *)
(* alone (VerityParamsForArtifact, verity.go).                             *)
(*                                                                         *)
(* Addresses count blocks of 4096 bytes.  A block is a symbolic value: the *)
(* i-th data block, the superblock, or a hash block of D digests, where    *)
(* the digest of a block is the block itself, marked (SHA-256 does not     *)
(* collide).  The source's 128 digests per block and 16 hash blocks per    *)
(* task are the constants D and T.                                         *)
(***************************************************************************)
EXTENDS Integers, Sequences

CONSTANTS
    D,          \* verityDigestsPerBlock
    T,          \* verityTaskHashBlocks
    W,          \* hashing goroutines asked for
    MaxData,    \* bound: data blocks
    MayFail     \* whether reads and writes may fail

ASSUME VerityAssumption ==
    /\ D \in Nat /\ D > 1
    /\ T \in Nat /\ T > 0
    /\ W \in Nat /\ W > 0
    /\ MaxData \in Nat /\ MaxData > 0
    /\ MayFail \in BOOLEAN

VARIABLES
    n,          \* DataBlocks, also HashOffset: buildMWP hashes the whole image
    file,       \* file[a]: the block at address a
    phase,      \* of FormatVerityHashTree
    level,      \* the level being hashed, from 1
    nextTask,   \* verityHashLevel's shared atomic counter
    wpc,        \* wpc[w]: next step of goroutine w
    task,       \* task[w]: the task it has taken
    out,        \* out[w]: its output buffer, kept from task to task
    firstErr,   \* an I/O error was recorded
    root        \* the root hash, once returned

level_vars == <<level, nextTask>>
workers    == <<wpc, task, out>>
vars       == <<n, file, phase, level, nextTask, wpc, task, out, firstErr, root>>

Pool == 1 .. W

-----------------------------------------------------------------------------
(* Blocks and digests.                                                     *)

Data(i)       == [data |-> i]
Superblock    == [superblock |-> n]
Hole          == [hole |-> 0]
Digest(block) == [sha |-> block]
Zero          == [zero |-> 0]
HashBlock(ds) == [digests |-> ds]

-----------------------------------------------------------------------------
(* Tree geometry.                                                          *)

CeilDiv(a, b) == (a + b - 1) \div b
Lesser(a, b)  == IF a < b THEN a ELSE b

\* levelBlocks: sizes of the levels, from the data upwards.
levelBlocks[m \in Nat] ==
    IF m <= 1 THEN <<>> ELSE <<CeilDiv(m, D)>> \o levelBlocks[CeilDiv(m, D)]

Sizes  == levelBlocks[n]
Height == Len(Sizes)

\* levelOffset: the levels lie top-down behind the superblock's slot.
levelOffset[i \in Nat] ==
    IF i >= Height THEN n + 1 ELSE levelOffset[i + 1] + Sizes[i + 1]

LastAddress == 3 * MaxData + 3  \* no file is longer

\* The level below the one being hashed, and where that one goes.
srcBlocks == IF level = 1 THEN n ELSE Sizes[level - 1]
srcOff    == IF level = 1 THEN 0 ELSE levelOffset[level - 1]
dstBlocks == CeilDiv(srcBlocks, D)
dstOff    == levelOffset[level]
tasks     == CeilDiv(dstBlocks, T)

-----------------------------------------------------------------------------
Init ==
    /\ n \in 1 .. MaxData
    /\ file = [a \in 0 .. LastAddress |-> IF a < n THEN Data(a) ELSE Hole]
    /\ phase = "superblock"
    /\ level = 0 /\ nextTask = 0
    /\ wpc = [w \in Pool |-> "stopped"]
    /\ task = [w \in Pool |-> 0]
    /\ out = [w \in Pool |-> [s \in 1 .. T * D |-> Zero]]
    /\ firstErr = FALSE
    /\ root = Hole

\* The loop over the levels goes on, or ends at the root.
NextLevel(l) ==
    /\ level' = l
    /\ phase' = IF l <= Height THEN "spawn" ELSE "root"

WriteSuperblock ==
    /\ phase = "superblock"
    /\ file' = [file EXCEPT ![n] = Superblock]
    /\ NextLevel(1)
    /\ UNCHANGED <<n, nextTask, workers, firstErr, root>>

\* verityHashLevel starts at most as many goroutines as there are tasks,
\* each with buffers of its own.
SpawnWorkers ==
    /\ phase = "spawn" /\ phase' = "hash"
    /\ nextTask' = 0
    /\ wpc' = [w \in Pool |-> IF w <= Lesser(W, tasks) THEN "take" ELSE "stopped"]
    /\ out' = [w \in Pool |-> [s \in 1 .. T * D |-> Zero]]
    /\ UNCHANGED <<n, file, level, task, firstErr, root>>

\* Mutant of TakeTask: one task too many.
TakeTaskOffByOne(w) ==
    /\ wpc[w] = "take"
    /\ nextTask' = nextTask + 1
    /\ task' = [task EXCEPT ![w] = nextTask]
    /\ wpc' = [wpc EXCEPT ![w] = IF nextTask > tasks THEN "stopped" ELSE "read"]
    /\ UNCHANGED <<n, file, phase, level, out, firstErr, root>>

\* Mutant of TakeTask: the counter is read, its increment lost.
TakeTaskLost(w) ==
    /\ wpc[w] = "take"
    /\ task' = [task EXCEPT ![w] = nextTask]
    /\ wpc' = [wpc EXCEPT ![w] = IF nextTask >= tasks THEN "stopped" ELSE "read"]
    /\ UNCHANGED <<n, file, phase, level_vars, out, firstErr, root>>

\* t := nextTask.Add(1) - 1
TakeTask(w) ==
    /\ wpc[w] = "take"
    /\ nextTask' = nextTask + 1
    /\ task' = [task EXCEPT ![w] = nextTask]
    /\ wpc' = [wpc EXCEPT ![w] = IF nextTask >= tasks THEN "stopped" ELSE "read"]
    /\ UNCHANGED <<n, file, phase, level, out, firstErr, root>>

dstStart(w) == task[w] * T

\* Mutant of nDst: every task writes its full range.
nDstFull(w) == T

nDst(w)     == Lesser(T, dstBlocks - dstStart(w))
srcStart(w) == dstStart(w) * D
nSrc(w)     == Lesser(nDst(w) * D, srcBlocks - srcStart(w))

\* Mutant of ReadAndHash: the buffer is not cleared behind the digests.
ReadAndHashUncleared(w) ==
    /\ wpc[w] = "read"
    /\ wpc' = [wpc EXCEPT ![w] = "write"]
    /\ out' = [out EXCEPT ![w] =
                  [s \in 1 .. T * D |->
                      IF s <= nSrc(w) THEN Digest(file[srcOff + srcStart(w) + s - 1])
                      ELSE out[w][s]]]
    /\ UNCHANGED <<n, file, phase, level_vars, task, firstErr, root>>

\* Read the task's source blocks and hash them into the buffer; what is left
\* of the last hash block is cleared, the rest of the buffer is not touched.
ReadAndHash(w) ==
    /\ wpc[w] = "read"
    /\ wpc' = [wpc EXCEPT ![w] = "write"]
    /\ out' = [out EXCEPT ![w] =
                  [s \in 1 .. T * D |->
                      IF s <= nSrc(w) THEN Digest(file[srcOff + srcStart(w) + s - 1])
                      ELSE IF s <= nDst(w) * D THEN Zero
                      ELSE out[w][s]]]
    /\ UNCHANGED <<n, file, phase, level_vars, task, firstErr, root>>

\* Write the finished hash blocks to the task's own range.
WriteBlocks(w) ==
    /\ wpc[w] = "write"
    /\ wpc' = [wpc EXCEPT ![w] = "take"]
    /\ LET first == dstOff + dstStart(w)
       IN  file' = [a \in 0 .. LastAddress |->
                       IF a \in first .. first + nDst(w) - 1
                       THEN HashBlock(SubSeq(out[w], (a - first) * D + 1, (a - first + 1) * D))
                       ELSE file[a]]
    /\ UNCHANGED <<n, phase, level_vars, task, out, firstErr, root>>

\* Mutant of WorkerFails: the goroutine tries again instead of returning.
WorkerRetries(w) ==
    /\ MayFail
    /\ wpc[w] \in {"read", "write"}
    /\ wpc' = [wpc EXCEPT ![w] = "read"]
    /\ firstErr' = TRUE
    /\ UNCHANGED <<n, file, phase, level_vars, task, out, root>>

\* A failed ReadAt or WriteAt ends the goroutine, not the others.
WorkerFails(w) ==
    /\ MayFail
    /\ wpc[w] \in {"read", "write"}
    /\ wpc' = [wpc EXCEPT ![w] = "stopped"]
    /\ firstErr' = TRUE
    /\ UNCHANGED <<n, file, phase, level_vars, task, out, root>>

\* wg.Wait, and the error of the level if there was one.
WaitWorkers ==
    /\ phase = "hash"
    /\ \A w \in Pool : wpc[w] = "stopped"
    /\ \/ firstErr /\ phase' = "failed" /\ UNCHANGED level
       \/ ~firstErr /\ NextLevel(level + 1)
    /\ UNCHANGED <<n, file, nextTask, workers, firstErr, root>>

\* The digest of the top level's block, or of a lone data block.
ReturnRoot ==
    /\ phase = "root" /\ phase' = "done"
    /\ root' = Digest(file[srcOff])
    /\ UNCHANGED <<n, file, level_vars, workers, firstErr>>

\* The superblock's WriteAt fails, or the last ReadAt, or the Sync after it.
MainFails ==
    /\ MayFail
    /\ phase \in {"superblock", "root"}
    /\ phase' = "failed"
    /\ UNCHANGED <<n, file, level_vars, workers, firstErr, root>>

Over == phase \in {"done", "failed"}

Worker(w) == TakeTask(w) \/ ReadAndHash(w) \/ WriteBlocks(w)
Main      == WriteSuperblock \/ SpawnWorkers \/ WaitWorkers \/ ReturnRoot

Next ==
    \/ Main \/ MainFails
    \/ \E w \in Pool : Worker(w) \/ WorkerFails(w)
    \/ Over /\ UNCHANGED vars

\* Every goroutine is scheduled.
Spec == Init /\ [][Next]_vars /\ WF_vars(Main) /\ \A w \in Pool : WF_vars(Worker(w))

-----------------------------------------------------------------------------
(* What the tree should be, and who reads it.                              *)

\* Level l of the tree of the format: digests packed D to a block, the last
\* block padded with zeros.  Level 0 is the data.
refLevel[l \in Nat] ==
    IF l = 0 THEN [i \in 1 .. n |-> Data(i - 1)]
    ELSE LET below == refLevel[l - 1]
         IN  [j \in 1 .. CeilDiv(Len(below), D) |->
                 HashBlock([s \in 1 .. D |-> IF (j - 1) * D + s <= Len(below)
                                             THEN Digest(below[(j - 1) * D + s])
                                             ELSE Zero])]

LevelWritten(l) ==
    \A j \in 1 .. Len(refLevel[l]) : file[levelOffset[l] + j - 1] = refLevel[l][j]

\* VerityParamsForArtifact, from the attested hash offset.
ParamDataBlocks(hashOffset)     == hashOffset

\* Mutant of ParamHashTreeOffset: the superblock's slot is forgotten.
ParamHashTreeAtOffset(hashOffset) == hashOffset

ParamHashTreeOffset(hashOffset) == hashOffset + 1

\* dm-verity's own geometry (outside the repository): the fewest levels that
\* cover the data, sizes by division, the top level first.
power[i \in Nat] == IF i = 0 THEN 1 ELSE D * power[i - 1]   \* a shift left

dmDataBlocks == ParamDataBlocks(n)
dmLevels     == CHOOSE l \in 0 .. n : power[l] >= dmDataBlocks
                                     /\ \A k \in 0 .. l - 1 : power[k] < dmDataBlocks
dmStart[i \in Nat] ==
    IF i >= dmLevels - 1 THEN ParamHashTreeOffset(n)
    ELSE dmStart[i + 1] + CeilDiv(dmDataBlocks, power[i + 2])

\* The hash block that covers data block b at level i, and b's slot in it.
dmBlock(b, i) == IF i < 0 THEN file[b] ELSE file[dmStart[i] + (b \div power[i + 1])]
dmSlot(b, i)  == ((b \div power[i]) % D) + 1

Holds(block, slot, digest) ==
    "digests" \in DOMAIN block /\ block.digests[slot] = digest

\* Reading data block b succeeds: every digest from it up to the root fits.
DmVerityReads(b) ==
    /\ \A i \in 0 .. dmLevels - 1 :
          Holds(dmBlock(b, i), dmSlot(b, i), Digest(dmBlock(b, i - 1)))
    /\ root = Digest(dmBlock(b, dmLevels - 1))

-----------------------------------------------------------------------------
(* Properties.                                                             *)

\* Every variable has its type, and a goroutine that reads or writes has one
\* of the level's tasks.
TypeOK ==
    /\ n \in 1 .. MaxData
    /\ DOMAIN file = 0 .. LastAddress
    /\ phase \in {"superblock", "spawn", "hash", "root", "done", "failed"}
    /\ level \in 0 .. Height + 1
    /\ nextTask \in Nat
    /\ wpc \in [Pool -> {"stopped", "take", "read", "write"}]
    /\ task \in [Pool -> Nat]
    /\ \A w \in Pool : DOMAIN out[w] = 1 .. T * D
    /\ firstErr \in BOOLEAN
    /\ \A w \in Pool : wpc[w] \in {"read", "write"} => task[w] < tasks

\* No task is worked on twice at a time (nextTask), so no two goroutines
\* write the same hash blocks.
TasksDisjoint ==
    \A v, w \in {u \in Pool : wpc[u] \in {"read", "write"}} :
        task[v] = task[w] => v = w

\* A level is hashed only from a complete level below, and a root is returned
\* only over a complete tree: byte for byte the format's, the padding of the
\* last blocks included, whatever the scheduling and whoever failed.
LowerLevelsComplete ==
    phase \in {"spawn", "hash", "root", "done"} =>
        \A l \in 1 .. level - 1 : LevelWritten(l)

\* The writes stay inside the hash area: no block of the image changes, the
\* superblock stays, and nothing is written behind the levels, nor further
\* than one block for each level and a (D - 1)-th of the image (the offsets'
\* int64 arithmetic relies on it).
TreeBound == n + Height + ((n - 1) \div (D - 1))
OnlyTreeWritten ==
    \A a \in 0 .. LastAddress :
        /\ a < n => file[a] = Data(a)
        /\ a = n /\ level > 0 => file[a] = Superblock
        /\ a >= levelOffset[0] \/ a > TreeBound => file[a] = Hole

\* A consumer that derives everything from the hash offset reads every data
\* block of a finished artifact (VerityParamsForArtifact).
ConsumerReads == phase = "done" => \A b \in 0 .. n - 1 : DmVerityReads(b)

\* The format operation ends: no goroutine is left behind and no level waits.
Terminates == <>Over
=============================================================================
