----------------------------- MODULE CryptStream -----------------------------
(***************************************************************************)
(* EMWP encryption: the geometry of the GPT image and the streaming of an  *)
(* MWP file through the dm-crypt cipher into its partition (encryptEMWP    *)
(* and encryptPayload, wrap.go), the way back (VerifyEMWP, decryptPayload) *)
(* and crypt.go's stream, which both share.                                *)
(*                                                                         *)
(* Addresses and sizes count cells: a file is a function from addresses to *)
(* cells.  A cell carries what it stands for and, once encrypted, the IV   *)
(* and the place in the sector that XTS ciphers it with.                   *)
(***************************************************************************)
EXTENDS Integers

CONSTANTS
    SectorSize,        \* EMWPSectorSize, in cells
    GPTSectorSize,     \* GPTSectorSize, also the 512 bytes of plain64's IVs
    ChunkSectors,      \* sectors in a streaming buffer
    StartSector,       \* EMWPPartitionStartSector
    TrailingSectors,   \* EMWPGPTTrailingSectors
    TableSectors,      \* what sgdisk writes at each end of the disk
    MaxImage,          \* bound: cells of the MWP file
    Zero, Gpt, Garbage, Plain

Positive == Nat \ {0}

ASSUME CryptAssumption ==
    /\ GPTSectorSize \in Positive /\ SectorSize \in Positive
    /\ SectorSize = (SectorSize \div GPTSectorSize) * GPTSectorSize
    /\ ChunkSectors \in Positive /\ MaxImage \in Positive
    /\ TableSectors \in Nat
    /\ StartSector \in Nat /\ StartSector >= TableSectors
    /\ TrailingSectors \in Nat /\ TrailingSectors >= TableSectors
    /\ {Zero, Gpt, Garbage} \cap Nat = {} /\ Plain \notin Nat
    /\ Zero # Gpt /\ Zero # Garbage /\ Gpt # Garbage

VARIABLES
    size,       \* of the MWP file
    disk,       \* the GPT image under construction
    diskSize,   \* its length
    plain,      \* the file VerifyEMWP decrypts into
    pc,         \* next step
    dir,        \* "encrypt" or "decrypt"
    buf,        \* stream's buffer, kept from chunk to chunk
    n,          \* cells of it io.ReadFull has filled
    eof,        \* the source has ended
    pos,        \* read position in the source
    baseUnit, written,
    faulted     \* a read, a write, a sync or sgdisk has failed

files  == <<size, disk, diskSize, plain>>
stream == <<buf, n, eof, pos, baseUnit, written>>
vars   == <<size, disk, diskSize, plain, pc, dir, buf, n, eof, pos, baseUnit,
            written, faulted>>

-----------------------------------------------------------------------------
(* Cells and the cipher.                                                   *)

Clear(what) == [is |-> what, iv |-> Plain, at |-> 0]
Cell == [is : 0 .. MaxImage - 1 \cup {Zero, Gpt, Garbage},
         iv : Nat \cup {Plain}, at : 0 .. SectorSize - 1]

\* One AES block of an XTS data unit: only the tweak that enciphered it
\* deciphers it.
Encipher(c, iv, at) ==
    [is |-> IF c.iv = Plain THEN c.is ELSE Garbage, iv |-> iv, at |-> at]
Decipher(c, iv, at) ==
    Clear(IF c.iv = iv /\ c.at = at THEN c.is ELSE Garbage)

\* Mutant: IVs count sectors, as with cryptsetup's --iv-large-sectors.
ivSectorRatioOne == 1
ivSectorRatio == SectorSize \div GPTSectorSize

\* transform, for the cell at offset off of a buffer that begins at
\* sector `base' of the volume.
Transformed(c, base, off, decrypt) ==
    LET iv == (base + off \div SectorSize) * ivSectorRatio
    IN  IF decrypt THEN Decipher(c, iv, off % SectorSize)
                   ELSE Encipher(c, iv, off % SectorSize)

-----------------------------------------------------------------------------
(* Geometry.                                                               *)

streamChunk == ChunkSectors * SectorSize

encryptedSize == ((size + SectorSize - 1) \div SectorSize) * SectorSize
sectors      == encryptedSize \div GPTSectorSize
endSector    == StartSector + sectors - 1
totalSectors == endSector + 1 + TrailingSectors

\* The partition, as decryptPayload finds it from the size of the file.
partOffset == StartSector * GPTSectorSize
\* Mutant: the trailing sectors are taken for sectors of the cipher.
partSizeLargeTrailer ==
    diskSize - partOffset - TrailingSectors * SectorSize
partSize   == diskSize - partOffset - TrailingSectors * GPTSectorSize

Address == 0 .. partOffset + MaxImage + SectorSize
                + TrailingSectors * GPTSectorSize - 1

\* The disk after sgdisk: a partition table at each end.
Blank(a) == IF \/ a < TableSectors * GPTSectorSize
               \/ /\ a >= diskSize - TableSectors * GPTSectorSize
                  /\ a < diskSize
            THEN Clear(Gpt) ELSE Clear(Zero)

-----------------------------------------------------------------------------
Fresh == [i \in 0 .. streamChunk - 1 |-> Clear(Zero)]

Init ==
    /\ size \in 1 .. MaxImage
    /\ disk = [a \in Address |-> Clear(Zero)] /\ diskSize = 0
    /\ plain = [a \in Address |-> Clear(Zero)]
    /\ pc = "truncate" /\ dir = "encrypt"
    /\ buf = Fresh /\ n = 0 /\ eof = FALSE /\ pos = 0
    /\ baseUnit = 0 /\ written = 0
    /\ faulted = FALSE

Truncate ==
    /\ pc = "truncate" /\ pc' = "sgdisk"
    /\ diskSize' = totalSectors * GPTSectorSize
    /\ UNCHANGED <<size, disk, plain, dir, stream, faulted>>

Sgdisk ==
    /\ pc = "sgdisk" /\ pc' = "read"
    /\ disk' = [a \in Address |-> Blank(a)]
    /\ UNCHANGED <<size, diskSize, plain, dir, stream, faulted>>

\* The source of the stream: the MWP file, or the partition's section of
\* the disk.
srcSize   == IF dir = "encrypt" THEN size ELSE partSize
Source(i) == IF dir = "encrypt" THEN Clear(i) ELSE disk[partOffset + i]

\* io.ReadFull reads on after a short read ...
ReadSome ==
    /\ pc = "read"
    /\ \E k \in 1 .. streamChunk - n :
        /\ pos + k <= srcSize
        /\ buf' = [i \in DOMAIN buf |->
                     IF n <= i /\ i < n + k THEN Source(pos + (i - n)) ELSE buf[i]]
        /\ n' = n + k /\ pos' = pos + k
    /\ UNCHANGED <<files, pc, dir, eof, baseUnit, written, faulted>>

\* ... and ends with a full buffer or at the end of the source.
\* Mutant: a plain Read, which may return short.
ReadReturnsShort  == n > 0 \/ pos = srcSize
ReadReturns       == n = streamChunk \/ pos = srcSize
\* Mutant: only io.ErrUnexpectedEOF ends the stream, not io.EOF.
SourceEndedPartly == 0 < n /\ n < streamChunk /\ pos = srcSize
SourceEnded       == n < streamChunk /\ pos = srcSize

\* Mutant: an end of file without data does not end the loop.
ReadEndsLoop ==
    /\ pc = "read" /\ ReadReturns
    /\ eof' = SourceEnded
    /\ pc' = IF n > 0 THEN "emit" ELSE "read"
    /\ UNCHANGED <<files, dir, buf, n, pos, baseUnit, written, faulted>>
ReadEnds ==
    /\ pc = "read" /\ ReadReturns
    /\ eof' = SourceEnded
    /\ pc' = IF n > 0 THEN "emit" ELSE IF SourceEnded THEN "sync" ELSE "failed"
    /\ UNCHANGED <<files, dir, buf, n, pos, baseUnit, written, faulted>>

\* Mutant: any error is taken for the end of the source.
ReadFailsAsEOF ==
    /\ pc = "read" /\ n < streamChunk
    /\ eof' = TRUE /\ faulted' = TRUE
    /\ pc' = IF n > 0 THEN "emit" ELSE "sync"
    /\ UNCHANGED <<files, dir, buf, n, pos, baseUnit, written>>
\* A genuine read error, with part of the buffer filled.
ReadFails ==
    /\ pc = "read" /\ n < streamChunk
    /\ faulted' = TRUE /\ pc' = "failed"
    /\ UNCHANGED <<files, dir, stream>>

\* The length of what is written, a partial sector rounded up.
\* Mutant: the buffer is written, not the part in use.
fullBuffer == streamChunk
full == ((n + SectorSize - 1) \div SectorSize) * SectorSize

Misaligned == dir = "decrypt" /\ n % SectorSize # 0

\* The chunk as it is written, from the filled part of the buffer.
Chunk == [i \in DOMAIN buf |->
            IF i < full
            THEN Transformed(IF i < n THEN buf[i] ELSE Clear(Zero),
                             baseUnit, i, dir = "decrypt")
            ELSE buf[i]]

\* File f with the first m cells of the chunk written behind what is
\* already there.
Put(f, start, m) ==
    [a \in DOMAIN f |->
       IF start <= a /\ a < start + m THEN Chunk[a - start] ELSE f[a]]

Emit(m) ==
    /\ buf' = Chunk
    /\ IF dir = "encrypt"
       THEN disk' = Put(disk, partOffset + written, m) /\ UNCHANGED plain
       ELSE plain' = Put(plain, written, m) /\ UNCHANGED disk

WriteChunk ==
    /\ pc = "emit" /\ ~Misaligned
    /\ Emit(full)
    /\ baseUnit' = baseUnit + full \div SectorSize
    /\ written' = written + full
    /\ n' = 0
    /\ pc' = IF eof THEN "sync" ELSE "read"
    /\ UNCHANGED <<size, diskSize, dir, eof, pos, faulted>>

WriteFails ==
    /\ pc = "emit" /\ ~Misaligned
    /\ \E m \in 0 .. full - 1 : Emit(m)
    /\ faulted' = TRUE /\ pc' = "failed"
    /\ UNCHANGED <<size, diskSize, dir, n, eof, pos, baseUnit, written>>

RefuseMisaligned ==
    /\ pc = "emit" /\ Misaligned
    /\ pc' = "failed"
    /\ UNCHANGED <<files, dir, stream, faulted>>

\* What is read is written, but for a ciphertext that ends within a sector.
HandleChunk == IF Misaligned THEN RefuseMisaligned ELSE WriteChunk

\* The rename follows the sync, on encryption.
Sync ==
    /\ pc = "sync"
    /\ pc' = IF dir = "encrypt" THEN "published" ELSE "verified"
    /\ UNCHANGED <<files, dir, stream, faulted>>

\* os.Truncate, sgdisk or fsync fails.
CallFails ==
    /\ pc \in {"truncate", "sgdisk", "sync"}
    /\ faulted' = TRUE /\ pc' = "failed"
    /\ UNCHANGED <<files, dir, stream>>

\* VerifyEMWP: a stream of its own, from the partition into a new file.
Verify ==
    /\ pc = "published" /\ pc' = "read" /\ dir' = "decrypt"
    /\ buf' = Fresh /\ n' = 0 /\ eof' = FALSE /\ pos' = 0
    /\ baseUnit' = 0 /\ written' = 0
    /\ UNCHANGED <<files, faulted>>

Ended == pc \in {"published", "verified", "failed"} /\ UNCHANGED vars

Progress == \/ Truncate \/ Sgdisk \/ ReadSome \/ ReadEnds
            \/ HandleChunk \/ Sync
Fault    == ReadFails \/ WriteFails \/ CallFails

Next == Progress \/ Fault \/ Verify \/ Ended

\* The process runs: its next step is taken if it does not fail.  Nothing
\* obliges it to fail, or a verification to be asked for.
Spec == Init /\ [][Next]_vars /\ WF_vars(Progress)

-----------------------------------------------------------------------------
(* The volume, by definition.                                              *)

Padded(i) == IF i < size THEN Clear(i) ELSE Clear(Zero)

\* inMemory: the whole padded image enciphered as one buffer.
Volume(i) == Transformed(Padded(i), 0, i, FALSE)

\* What the kernel reads at cell i of a plain dm-crypt mapping over the
\* partition in the table, opened with the parameters of OpenCrypt: plain64
\* numbers the sector by its first 512-byte sector.
DmCryptReads(i) ==
    Decipher(disk[partOffset + i],
             ((i \div SectorSize) * SectorSize) \div GPTSectorSize,
             i % SectorSize)
DmCryptSize == (endSector + 1 - StartSector) * GPTSectorSize

-----------------------------------------------------------------------------
TypeOK ==
    /\ size \in 1 .. MaxImage
    /\ disk \in [Address -> Cell] /\ plain \in [Address -> Cell]
    /\ diskSize \in Nat
    /\ pc \in {"truncate", "sgdisk", "read", "emit", "sync", "published",
               "verified", "failed"}
    /\ dir \in {"encrypt", "decrypt"}
    /\ buf \in [0 .. streamChunk - 1 -> Cell]
    /\ n \in 0 .. streamChunk /\ pos \in 0 .. srcSize
    /\ eof \in BOOLEAN /\ faulted \in BOOLEAN
    /\ baseUnit \in Nat /\ written = baseUnit * SectorSize
    /\ written \in 0 .. encryptedSize

\* Whatever short reads, chunk boundaries and failures there are, no cell
\* of the partition ever holds anything but the ciphertext that belongs
\* there: numbered in one sequence from sector 0, and padded only behind
\* the end of the image (stream's "on a real error we must not emit that").
OnlyVolumeEmitted ==
    \A i \in 0 .. encryptedSize - 1 :
        disk[partOffset + i] \in {Clear(Zero), Volume(i)}

\* Encryption never touches the partition tables at both ends of the disk.
TablesIntact ==
    (\E a \in Address : disk[a] # Clear(Zero)) =>
        \A a \in Address :
            a \notin partOffset .. partOffset + encryptedSize - 1 =>
                disk[a] = Blank(a)

\* Once the file is published a kernel that opens it as OpenCrypt does
\* reads the whole image, padded to a sector, from its partition.
ConsumerDecrypts ==
    pc = "published" =>
        \A i \in 0 .. DmCryptSize - 1 : DmCryptReads(i) = Padded(i)

\* VerifyEMWP recovers the image and nothing but padding behind it: the
\* two sides agree on the partition's size and on the numbering.
VerifyRecovers ==
    pc = "verified" =>
        /\ written = encryptedSize
        /\ \A i \in 0 .. written - 1 : plain[i] = Padded(i)

\* An encryption or verification fails for a reason: images that end at a
\* chunk or sector boundary, or within one, all pass.
FailsForAReason == pc = "failed" => faulted

\* Every encryption, and every verification, ends.
StreamEnds == []<>(pc \in {"published", "verified", "failed"})
=============================================================================
