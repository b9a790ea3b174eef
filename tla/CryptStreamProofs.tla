-------------------------- MODULE CryptStreamProofs --------------------------
(***************************************************************************)
(* That the stream cipher numbers every sector once and in order, that the *)
(* two computations of the partition's size agree, and what follows for    *)
(* the EMWP image, its consumer and its verification: for every sector and *)
(* chunk size, every image, and any short reads and failures.  That every  *)
(* step comes closer to the end.                                           *)
(***************************************************************************)
EXTENDS CryptStream, TLAPS

-----------------------------------------------------------------------------
(* Arithmetic of multiples.                                                *)

LEMMA DivMod ==
    ASSUME NEW a \in Int, NEW d \in Positive
    PROVE  /\ a \div d \in Int /\ a % d \in 0 .. d - 1
           /\ a = (a \div d) * d + (a % d)
BY DEF Positive

LEMMA MultBelow ==
    ASSUME NEW p \in Int, NEW q \in Int, NEW d \in Positive, p * d < q * d + d
    PROVE  p <= q
<1>1. SUFFICES ASSUME p >= q + 1 PROVE FALSE
  OBVIOUS
<1>2. p * d >= (q + 1) * d
  BY <1>1 DEF Positive
<1>3. (q + 1) * d = q * d + d
  BY DEF Positive
<1> QED BY <1>2, <1>3 DEF Positive

LEMMA DivUnique ==
    ASSUME NEW a \in Int, NEW d \in Positive, NEW q \in Int,
           NEW r \in 0 .. d - 1, a = q * d + r
    PROVE  a \div d = q /\ a % d = r
<1> DEFINE e == a \div d
           s == a % d
<1>1. e \in Int /\ s \in 0 .. d - 1 /\ a = e * d + s
  BY DivMod
<1> HIDE DEF e, s
<1>a. q * d \in Int /\ e * d \in Int
  BY <1>1 DEF Positive
<1>2. e <= q
  <2>1. e * d < q * d + d
    BY <1>1, <1>a DEF Positive
  <2> QED BY <1>1, <2>1, MultBelow
<1>3. q <= e
  <2>1. q * d < e * d + d
    BY <1>1, <1>a DEF Positive
  <2> QED BY <1>1, <2>1, MultBelow
<1>4. e = q
  BY <1>1, <1>2, <1>3
<1>5. s = r
  BY <1>1, <1>4, <1>a DEF Positive
<1> QED BY <1>4, <1>5 DEF e, s

\* Behind b whole sectors an offset keeps its place in its sector.
LEMMA Shift ==
    ASSUME NEW b \in Int, NEW i \in Int, NEW d \in Positive
    PROVE  (b * d + i) \div d = b + i \div d /\ (b * d + i) % d = i % d
<1> DEFINE q == i \div d
           r == i % d
<1>1. q \in Int /\ r \in 0 .. d - 1 /\ i = q * d + r
  BY DivMod
<1> HIDE DEF q, r
<1>2. b * d + i = (b + q) * d + r
  <2>1. (b + q) * d = b * d + q * d
    BY <1>1 DEF Positive
  <2> QED BY <1>1, <2>1 DEF Positive
<1>3. b * d + i \in Int /\ b + q \in Int
  BY <1>1 DEF Positive
<1>4. (b * d + i) \div d = b + q /\ (b * d + i) % d = r
  BY <1>1, <1>2, <1>3, DivUnique
<1> QED BY <1>4 DEF q, r

\* Rounding up.
Ceil(x, d) == ((x + d - 1) \div d) * d

LEMMA CeilBounds ==
    ASSUME NEW x \in Int, NEW d \in Positive
    PROVE  Ceil(x, d) \in Int /\ Ceil(x, d) >= x /\ Ceil(x, d) < x + d
<1> DEFINE y == x + d - 1
           q == y \div d
           r == y % d
<1>0. y \in Int
  BY DEF Positive
<1>1. q \in Int /\ r \in 0 .. d - 1 /\ y = q * d + r
  BY <1>0, DivMod
<1> HIDE DEF q, r
<1>2. q * d \in Int
  BY <1>1 DEF Positive
<1>3. q * d = x + d - 1 - r
  BY <1>1, <1>2 DEF Positive
<1>4. q * d >= x /\ q * d < x + d
  BY <1>1, <1>2, <1>3 DEF Positive
<1> QED BY <1>2, <1>4 DEF Ceil, q, r

LEMMA CeilMultiple ==
    ASSUME NEW m \in Int, NEW d \in Positive
    PROVE  Ceil(m * d, d) = m * d
<1>1. m * d + d - 1 = m * d + (d - 1)
  BY DEF Positive
<1>2. m * d + d - 1 \in Int /\ d - 1 \in 0 .. d - 1
  BY DEF Positive
<1>3. (m * d + d - 1) \div d = m
  BY <1>1, <1>2, DivUnique
<1> QED BY <1>3 DEF Ceil

LEMMA CeilShift ==
    ASSUME NEW b \in Int, NEW x \in Int, NEW d \in Positive
    PROVE  Ceil(b * d + x, d) = b * d + Ceil(x, d)
<1> DEFINE y == x + d - 1
           q == y \div d
<1>0. y \in Int /\ q \in Int
  BY DivMod DEF Positive
<1>1. (b * d + y) \div d = b + q
  BY <1>0, Shift
<1>2. b * d + x + d - 1 = b * d + y
  BY DEF Positive
<1>3. Ceil(b * d + x, d) = (b + q) * d
  BY <1>1, <1>2 DEF Ceil
<1>4. Ceil(x, d) = q * d
  BY DEF Ceil
<1> HIDE DEF q, y
<1>5. (b + q) * d = b * d + q * d
  BY <1>0 DEF Positive
<1> QED BY <1>3, <1>4, <1>5

LEMMA CeilMonotone ==
    ASSUME NEW x \in Int, NEW y \in Int, NEW d \in Positive, x <= y
    PROVE  Ceil(x, d) <= Ceil(y, d)
<1> DEFINE p == (x + d - 1) \div d
           q == (y + d - 1) \div d
<1>1. p \in Int /\ q \in Int
  BY DivMod DEF Positive
<1>2. Ceil(x, d) = p * d /\ Ceil(y, d) = q * d
  BY DEF Ceil
<1>3. p * d < x + d /\ q * d >= y /\ p * d \in Int /\ q * d \in Int
  BY <1>2, CeilBounds
<1> HIDE DEF p, q
<1>4. p * d < q * d + d
  BY <1>3 DEF Positive
<1>5. p <= q
  BY <1>1, <1>4, MultBelow
<1>6. p * d <= q * d
  BY <1>1, <1>5 DEF Positive
<1> QED BY <1>2, <1>6

-----------------------------------------------------------------------------
(* Geometry.                                                               *)

LEMMA Constants ==
    /\ SectorSize \in Positive /\ GPTSectorSize \in Positive
    /\ ivSectorRatio \in Nat /\ SectorSize = ivSectorRatio * GPTSectorSize
    /\ ChunkSectors \in Positive /\ MaxImage \in Positive
    /\ partOffset \in Nat /\ TableSectors * GPTSectorSize \in Nat
    /\ TableSectors * GPTSectorSize <= partOffset
    /\ TrailingSectors * GPTSectorSize \in Nat
    /\ TableSectors * GPTSectorSize <= TrailingSectors * GPTSectorSize
    /\ streamChunk \in Positive
<1>1. ivSectorRatio \in Nat
  <2>1. SectorSize \div GPTSectorSize \in Int
    BY CryptAssumption, DivMod DEF Positive
  <2>2. SUFFICES ASSUME SectorSize \div GPTSectorSize < 0 PROVE FALSE
    BY <2>1 DEF ivSectorRatio
  <2>3. (SectorSize \div GPTSectorSize) * GPTSectorSize <= 0
    BY <2>1, <2>2, CryptAssumption DEF Positive
  <2> QED BY <2>3, CryptAssumption DEF Positive
<1>2. /\ TableSectors \in Nat /\ GPTSectorSize \in Positive
      /\ StartSector \in Nat /\ TrailingSectors \in Nat
      /\ TableSectors <= StartSector /\ TableSectors <= TrailingSectors
  BY CryptAssumption
<1>3. /\ partOffset \in Nat /\ TableSectors * GPTSectorSize \in Nat
      /\ TrailingSectors * GPTSectorSize \in Nat
  BY <1>2 DEF partOffset, Positive
<1>4. TableSectors * GPTSectorSize <= StartSector * GPTSectorSize
  BY <1>2 DEF Positive
<1>5. TableSectors * GPTSectorSize <= TrailingSectors * GPTSectorSize
  BY <1>2 DEF Positive
<1>6. streamChunk \in Positive
  BY CryptAssumption DEF streamChunk, Positive
<1> QED BY <1>1, <1>3, <1>4, <1>5, <1>6, CryptAssumption
        DEF ivSectorRatio, partOffset

\* The size of the partition is the image's, rounded up to a sector, for
\* whoever computes it: a multiple of both kinds of sector.
LEMMA Geometry ==
    ASSUME size \in 1 .. MaxImage
    PROVE  /\ encryptedSize \in Nat /\ encryptedSize >= size
           /\ encryptedSize < size + SectorSize
           /\ encryptedSize = Ceil(size, SectorSize)
           /\ \E m \in Int : encryptedSize = m * SectorSize
           /\ sectors * GPTSectorSize = encryptedSize /\ sectors \in Int
           /\ totalSectors * GPTSectorSize
                = partOffset + encryptedSize + TrailingSectors * GPTSectorSize
           /\ DmCryptSize = encryptedSize
<1> DEFINE m == (size + SectorSize - 1) \div SectorSize
<1>1. size \in Int /\ size >= 1 /\ size + SectorSize - 1 \in Int
  BY Constants DEF Positive
<1>2. m \in Int
  BY <1>1, Constants, DivMod
<1>3. encryptedSize = m * SectorSize
  BY DEF encryptedSize
<1>4. encryptedSize = Ceil(size, SectorSize)
  BY DEF encryptedSize, Ceil
<1> HIDE DEF m
<1>5. encryptedSize \in Int /\ encryptedSize >= size /\ encryptedSize < size + SectorSize
  BY <1>1, <1>4, Constants, CeilBounds
<1>6. sectors = m * ivSectorRatio /\ sectors * GPTSectorSize = encryptedSize
  <2> DEFINE k == m * ivSectorRatio
  <2>1. k \in Int
    BY <1>2, Constants
  <2>2. k * GPTSectorSize = m * (ivSectorRatio * GPTSectorSize)
    BY <1>2, Constants DEF Positive
  <2>3. k * GPTSectorSize = encryptedSize
    BY <2>2, <1>3, Constants
  <2> HIDE DEF k
  <2>4. encryptedSize = k * GPTSectorSize + 0 /\ 0 \in 0 .. GPTSectorSize - 1
    BY <2>1, <2>3, <1>5, Constants DEF Positive
  <2>5. sectors = k
    BY <2>1, <2>4, <1>5, Constants, DivUnique DEF sectors
  <2> QED BY <2>3, <2>5 DEF k
<1>7. sectors \in Int
  BY <1>2, <1>6, Constants
<1>8. StartSector \in Nat /\ TrailingSectors \in Nat /\ GPTSectorSize \in Nat
  BY CryptAssumption DEF Positive
<1>9. totalSectors = StartSector + sectors + TrailingSectors
  BY <1>7, <1>8 DEF totalSectors, endSector
<1>10. totalSectors * GPTSectorSize
         = partOffset + encryptedSize + TrailingSectors * GPTSectorSize
  <2>1. (StartSector + sectors + TrailingSectors) * GPTSectorSize
          = StartSector * GPTSectorSize + sectors * GPTSectorSize
              + TrailingSectors * GPTSectorSize
    BY <1>7, <1>8
  <2> QED BY <2>1, <1>6, <1>9 DEF partOffset
<1>11. DmCryptSize = encryptedSize
  <2>1. endSector + 1 - StartSector = sectors
    BY <1>7, <1>8 DEF endSector
  <2> QED BY <2>1, <1>6 DEF DmCryptSize
<1> QED BY <1>1, <1>2, <1>3, <1>4, <1>5, <1>6, <1>7, <1>10, <1>11, Constants DEF Positive

\* decryptPayload's size of the partition is encryptEMWP's.
LEMMA SidesAgree ==
    ASSUME size \in 1 .. MaxImage, diskSize = totalSectors * GPTSectorSize
    PROVE  partSize = encryptedSize
<1>1. partSize = (partOffset + encryptedSize + TrailingSectors * GPTSectorSize)
                   - partOffset - TrailingSectors * GPTSectorSize
  BY Geometry DEF partSize
<1> QED BY <1>1, Geometry, Constants

\* The chunk to be written: sector-aligned, no longer than the buffer, and
\* padded only where the buffer is not full.
LEMMA FullChunk ==
    ASSUME n \in 1 .. streamChunk
    PROVE  /\ full \in 1 .. streamChunk /\ full >= n
           /\ full = Ceil(n, SectorSize)
           /\ n = streamChunk => full = n
           /\ n % SectorSize = 0 => full = n
           /\ full \div SectorSize \in Nat
           /\ (full \div SectorSize) * SectorSize = full
<1> DEFINE q == (n + SectorSize - 1) \div SectorSize
<1>1. n \in Int /\ n >= 1 /\ n <= streamChunk /\ n + SectorSize - 1 \in Int
  BY Constants DEF Positive
<1>2. q \in Int
  BY <1>1, Constants, DivMod
<1>3. full = q * SectorSize /\ full = Ceil(n, SectorSize)
  BY DEF full, Ceil
<1> HIDE DEF q
<1>4. full \in Int /\ full >= n /\ full < n + SectorSize
  BY <1>1, <1>3, Constants, CeilBounds
<1>5. streamChunk = ChunkSectors * SectorSize /\ ChunkSectors \in Int
  BY CryptAssumption DEF streamChunk, Positive
<1>6. Ceil(streamChunk, SectorSize) = streamChunk
  BY <1>5, Constants, CeilMultiple
<1>7. full <= streamChunk
  <2>1. streamChunk \in Int
    BY Constants DEF Positive
  <2> QED BY <2>1, <1>1, <1>3, <1>6, Constants, CeilMonotone
<1>8. n = streamChunk => full = n
  BY <1>3, <1>6
<1>9. n % SectorSize = 0 => full = n
  <2>1. SUFFICES ASSUME n % SectorSize = 0 PROVE full = n
    OBVIOUS
  <2>2. n = (n \div SectorSize) * SectorSize + (n % SectorSize) /\ n \div SectorSize \in Int
    BY <1>1, Constants, DivMod
  <2>3. n = (n \div SectorSize) * SectorSize
    BY <2>1, <2>2, Constants DEF Positive
  <2>4. Ceil((n \div SectorSize) * SectorSize, SectorSize) = (n \div SectorSize) * SectorSize
    BY <2>2, Constants, CeilMultiple
  <2> QED BY <2>3, <2>4, <1>3
<1>10. full \div SectorSize = q
  <2>1. full = q * SectorSize + 0 /\ 0 \in 0 .. SectorSize - 1
    BY <1>3, <1>4, Constants DEF Positive
  <2> QED BY <2>1, <1>2, <1>4, Constants, DivUnique
<1>11. q \in Nat
  <2>1. SUFFICES ASSUME q < 0 PROVE FALSE
    BY <1>2
  <2>2. q * SectorSize <= 0
    BY <1>2, <2>1, Constants DEF Positive
  <2> QED BY <2>2, <1>1, <1>3, <1>4
<1> QED BY <1>1, <1>3, <1>4, <1>7, <1>8, <1>9, <1>10, <1>11

-----------------------------------------------------------------------------
(* The inductive invariant.                                                *)

Payload == partOffset .. partOffset + encryptedSize - 1

\* Before sgdisk the disk is blank; afterwards it has its final size and
\* tables, and the partition holds the volume as far as it is written.
DiskBlank ==
    /\ dir = "encrypt" /\ written = 0
    /\ \A a \in Address : disk[a] = Clear(Zero)
DiskMade ==
    /\ diskSize = totalSectors * GPTSectorSize
    /\ \A a \in Address : a \notin Payload => disk[a] = Blank(a)
    /\ OnlyVolumeEmitted
    /\ \A i \in 0 .. encryptedSize - 1 :
         (i < written \/ dir = "decrypt") => disk[partOffset + i] = Volume(i)
DiskInv ==
    /\ pc = "truncate" => DiskBlank
    /\ pc = "sgdisk"   => DiskBlank /\ diskSize = totalSectors * GPTSectorSize
    /\ pc = "failed"   => DiskBlank \/ DiskMade
    /\ pc \notin {"truncate", "sgdisk", "failed"} => DiskMade

\* What the source of the stream holds.
Expected(i) == IF dir = "encrypt" THEN Clear(i) ELSE Volume(i)

\* The buffer holds what follows what is written, and the stream stands at
\* a sector boundary until it ends.
StreamInv ==
    /\ pc \in {"truncate", "sgdisk"} =>
         n = 0 /\ pos = 0 /\ written = 0 /\ eof = FALSE /\ dir = "encrypt"
    /\ pc \in {"read", "emit"} =>
         /\ pos = written + n
         /\ \A i \in 0 .. n - 1 : buf[i] = Expected(written + i)
    /\ pc = "read" => eof = FALSE
    /\ pc = "emit" => /\ n > 0 /\ (n = streamChunk \/ pos = srcSize)
                      /\ eof <=> n < streamChunk

\* A stream that has ended has delivered everything.
EndInv ==
    /\ pc \in {"sync", "published", "verified"} => written = encryptedSize
    /\ pc = "published" => dir = "encrypt"
    /\ pc = "verified" => dir = "decrypt"
    /\ dir = "decrypt" => \A i \in 0 .. written - 1 : plain[i] = Padded(i)
    /\ FailsForAReason

IInv == TypeOK /\ DiskInv /\ StreamInv /\ EndInv

-----------------------------------------------------------------------------
(* Cells.                                                                  *)

LEMMA ClearCell ==
    /\ \A i \in 0 .. MaxImage - 1 : Clear(i) \in Cell
    /\ Clear(Zero) \in Cell /\ Clear(Gpt) \in Cell /\ Clear(Garbage) \in Cell
    /\ \A c \in Cell : Clear(c.is) \in Cell
<1>1. 0 \in 0 .. SectorSize - 1
  BY Constants DEF Positive
<1> QED BY <1>1 DEF Clear, Cell

LEMMA TransformedCell ==
    ASSUME NEW c \in Cell, NEW base \in Nat, NEW off \in Nat,
           NEW decrypt \in BOOLEAN
    PROVE  Transformed(c, base, off, decrypt) \in Cell
<1> DEFINE u == base + off \div SectorSize
           at == off % SectorSize
<1>1. u \in Nat /\ at \in 0 .. SectorSize - 1
  <2>1. /\ off \div SectorSize \in Int /\ off % SectorSize \in 0 .. SectorSize - 1
        /\ off = (off \div SectorSize) * SectorSize + (off % SectorSize)
    <3>1. off \in Int /\ SectorSize \in Positive
      BY Constants
    <3> QED BY ONLY <3>1, DivMod
  <2>2. off \div SectorSize >= 0
    <3>1. SUFFICES ASSUME off \div SectorSize <= -1 PROVE FALSE
      BY <2>1
    <3>2. (off \div SectorSize) * SectorSize <= (-1) * SectorSize
      BY <2>1, <3>1, Constants DEF Positive
    <3> QED BY <2>1, <3>2, Constants DEF Positive
  <2> QED BY <2>1, <2>2
<1> HIDE DEF u, at
<1>2. u * ivSectorRatio \in Nat
  BY <1>1, Constants
<1>3. Encipher(c, u * ivSectorRatio, at) \in Cell
  BY <1>1, <1>2 DEF Encipher, Cell
<1>4. Decipher(c, u * ivSectorRatio, at) \in Cell
  <2>1. c.is \in 0 .. MaxImage - 1 \cup {Zero, Gpt, Garbage}
    BY DEF Cell
  <2> QED BY <2>1, ClearCell DEF Decipher
<1> QED BY <1>3, <1>4 DEF Transformed, u, at

LEMMA PaddedCell ==
    ASSUME size \in 1 .. MaxImage
    PROVE  \A i \in Nat : Padded(i) \in Cell /\ Padded(i).iv = Plain
<1> TAKE i \in Nat
<1>1. i < size => i \in 0 .. MaxImage - 1
  BY Constants DEF Positive
<1>2. Padded(i) \in Cell
  BY <1>1, ClearCell DEF Padded
<1> QED BY <1>2 DEF Padded, Clear

\* What a chunk holds at offset i is the volume's cell at written + i.
LEMMA SectorsNumbered ==
    ASSUME NEW b \in Nat, NEW i \in Nat, NEW c
    PROVE  /\ Transformed(c, b, i, FALSE) = Transformed(c, 0, b * SectorSize + i, FALSE)
           /\ Transformed(c, b, i, TRUE) = Transformed(c, 0, b * SectorSize + i, TRUE)
<1>1. /\ (b * SectorSize + i) \div SectorSize = b + i \div SectorSize
      /\ (b * SectorSize + i) % SectorSize = i % SectorSize
  <2>1. b \in Int /\ i \in Int /\ SectorSize \in Positive
    BY Constants
  <2> QED BY ONLY <2>1, Shift
<1>2. i \div SectorSize \in Int
  BY Constants, DivMod
<1>3. 0 + (b * SectorSize + i) \div SectorSize = b + i \div SectorSize
  BY <1>1, <1>2
<1> QED BY <1>1, <1>3 DEF Transformed

\* Deciphering undoes enciphering at the same place.
LEMMA DecipherVolume ==
    ASSUME size \in 1 .. MaxImage, NEW i \in Nat
    PROVE  Transformed(Volume(i), 0, i, TRUE) = Padded(i)
<1>1. Padded(i).iv = Plain /\ Padded(i) = Clear(Padded(i).is)
  BY PaddedCell DEF Padded, Clear
<1> DEFINE iv == (0 + i \div SectorSize) * ivSectorRatio
           at == i % SectorSize
<1>2. Volume(i) = [is |-> Padded(i).is, iv |-> iv, at |-> at]
  BY <1>1 DEF Volume, Transformed, Encipher
<1>3. Transformed(Volume(i), 0, i, TRUE) = Decipher(Volume(i), iv, at)
  BY DEF Transformed
<1>4. Volume(i).iv = iv /\ Volume(i).at = at /\ Volume(i).is = Padded(i).is
  BY <1>2
<1>5. Decipher(Volume(i), iv, at) = Clear(Padded(i).is)
  BY <1>4 DEF Decipher
<1> QED BY <1>1, <1>3, <1>5

\* dm-crypt's IV of cell i is transform's.
LEMMA DmCryptDeciphers ==
    ASSUME NEW i \in Nat, disk[partOffset + i] = Volume(i), size \in 1 .. MaxImage
    PROVE  DmCryptReads(i) = Padded(i)
<1> DEFINE q == i \div SectorSize
<1>1. q \in Int
  BY Constants, DivMod
<1> HIDE DEF q
<1>2. q * SectorSize = (q * ivSectorRatio) * GPTSectorSize + 0
  <2>1. q * (ivSectorRatio * GPTSectorSize) = (q * ivSectorRatio) * GPTSectorSize
    BY <1>1, Constants DEF Positive
  <2>2. (q * ivSectorRatio) * GPTSectorSize \in Int
    BY <1>1, Constants DEF Positive
  <2> QED BY <2>1, <2>2, Constants
<1>3. (q * SectorSize) \div GPTSectorSize = q * ivSectorRatio
  <2>1. q * SectorSize \in Int /\ q * ivSectorRatio \in Int /\ 0 \in 0 .. GPTSectorSize - 1
    BY <1>1, Constants DEF Positive
  <2> QED BY <1>2, <2>1, Constants, DivUnique
<1>4. ((i \div SectorSize) * SectorSize) \div GPTSectorSize = (0 + i \div SectorSize) * ivSectorRatio
  BY <1>1, <1>3 DEF q
<1>5. DmCryptReads(i) = Transformed(Volume(i), 0, i, TRUE)
  BY <1>4 DEF DmCryptReads, Transformed
<1> QED BY <1>5, DecipherVolume

-----------------------------------------------------------------------------
(* A chunk about to be written.                                            *)

LEMMA ChunkRight ==
    ASSUME IInv, pc = "emit"
    PROVE  /\ ~Misaligned
           /\ full \in 1 .. streamChunk
           /\ written + full <= encryptedSize
           /\ eof => written + full = encryptedSize
           /\ ~eof => full = n
           /\ full \div SectorSize \in Nat
           /\ (full \div SectorSize) * SectorSize = full
           /\ Chunk \in [0 .. streamChunk - 1 -> Cell]
           /\ \A i \in 0 .. full - 1 :
                Chunk[i] = IF dir = "encrypt" THEN Volume(written + i)
                                              ELSE Padded(written + i)
<1>1. /\ size \in 1 .. MaxImage /\ n \in 1 .. streamChunk /\ streamChunk \in Nat
      /\ baseUnit \in Nat /\ written = baseUnit * SectorSize /\ written \in Nat
      /\ pos \in 0 .. srcSize /\ dir \in {"encrypt", "decrypt"}
      /\ buf \in [0 .. streamChunk - 1 -> Cell] /\ eof \in BOOLEAN
  <2>1. TypeOK /\ n > 0
    BY DEF IInv, StreamInv
  <2>2. streamChunk \in Nat /\ encryptedSize \in Nat
    BY <2>1, Constants, Geometry DEF TypeOK, Positive
  <2> QED BY <2>1, <2>2 DEF TypeOK
<1>b. baseUnit \in Nat /\ written = baseUnit * SectorSize
  BY <1>1
<1>2. /\ pos = written + n /\ (n = streamChunk \/ pos = srcSize)
      /\ eof <=> n < streamChunk
      /\ \A i \in 0 .. n - 1 : buf[i] = Expected(written + i)
  BY DEF IInv, StreamInv
<1>3. diskSize = totalSectors * GPTSectorSize
  BY DEF IInv, DiskInv, DiskMade
<1>4. srcSize = IF dir = "encrypt" THEN size ELSE encryptedSize
  BY <1>1, <1>3, SidesAgree DEF srcSize
<1>g. /\ encryptedSize \in Nat /\ encryptedSize >= size
      /\ encryptedSize = Ceil(size, SectorSize)
  BY <1>1, Geometry
<1>f. /\ full \in 1 .. streamChunk /\ full >= n
      /\ full = Ceil(n, SectorSize)
      /\ n = streamChunk => full = n
      /\ n % SectorSize = 0 => full = n
      /\ full \div SectorSize \in Nat
      /\ (full \div SectorSize) * SectorSize = full
  BY <1>1, FullChunk
<1>5. Ceil(pos, SectorSize) = written + full
  <2>1. baseUnit \in Int /\ n \in Int /\ SectorSize \in Positive
    BY <1>1, Constants
  <2>2. Ceil(baseUnit * SectorSize + n, SectorSize)
          = baseUnit * SectorSize + Ceil(n, SectorSize)
    BY ONLY <2>1, CeilShift
  <2> QED BY <2>2, <1>1, <1>2, <1>f
<1>e. (eof => n # streamChunk) /\ (~eof => n = streamChunk)
  <2>1. n < streamChunk <=> n # streamChunk
    BY <1>1
  <2> QED BY <1>1, <1>2, <2>1
<1>6. written + full <= encryptedSize /\ (eof => written + full = encryptedSize)
  <2>1. CASE dir = "encrypt"
    <3>1. pos \in Int /\ size \in Int /\ pos <= size
      BY <1>1, <1>4, <2>1
    <3>2. Ceil(pos, SectorSize) <= Ceil(size, SectorSize)
      BY <3>1, Constants, CeilMonotone
    <3>3. eof => pos = size
      BY <1>e, <1>2, <1>4, <2>1
    <3> QED BY <3>2, <3>3, <1>5, <1>g
  <2>2. CASE dir = "decrypt"
    <3>1. pos \in Int /\ pos <= encryptedSize
      BY <1>1, <1>4, <1>g, <2>2
    <3>2. PICK m \in Int : encryptedSize = m * SectorSize
      BY <1>1, Geometry
    <3>3. Ceil(encryptedSize, SectorSize) = encryptedSize
      BY <3>2, Constants, CeilMultiple
    <3>4. Ceil(pos, SectorSize) <= Ceil(encryptedSize, SectorSize)
      BY <3>1, <1>g, Constants, CeilMonotone
    <3>5. eof => pos = encryptedSize
      <4>1. dir # "encrypt"
        BY <2>2
      <4> QED BY <1>e, <1>2, <1>4, <4>1
    <3> QED BY <3>3, <3>4, <3>5, <1>5, <1>g
  <2> QED BY <2>1, <2>2, <1>1
<1>7. ~Misaligned
  <2>1. SUFFICES ASSUME dir = "decrypt" PROVE n % SectorSize = 0
    BY DEF Misaligned
  <2>2. CASE n = streamChunk
    <3>1. streamChunk = ChunkSectors * SectorSize + 0 /\ ChunkSectors \in Int
          /\ 0 \in 0 .. SectorSize - 1 /\ streamChunk \in Int
      BY <1>1, Constants DEF streamChunk, Positive
    <3> QED BY <2>2, <3>1, Constants, DivUnique
  <2>3. CASE pos = srcSize
    <3>1. PICK m \in Int : encryptedSize = m * SectorSize
      BY <1>1, Geometry
    <3>2. n = m * SectorSize - baseUnit * SectorSize
      <4>1. n = encryptedSize - written
        BY <1>1, <1>2, <1>4, <1>g, <2>1, <2>3
      <4> QED BY <4>1, <3>1, <1>1
    <3>3. n = (m - baseUnit) * SectorSize + 0
      BY <3>1, <3>2, <1>1, Constants DEF Positive
    <3>4. m - baseUnit \in Int /\ 0 \in 0 .. SectorSize - 1 /\ n \in Int
      BY <3>1, <1>1, Constants DEF Positive
    <3> QED BY <3>3, <3>4, Constants, DivUnique
  <2> QED BY <1>2, <2>2, <2>3
<1>8. ~eof => full = n
  BY <1>e, <1>f
<1>9. Chunk \in [0 .. streamChunk - 1 -> Cell]
  <2>1. DOMAIN buf = 0 .. streamChunk - 1
    BY <1>1
  <2>2. ASSUME NEW i \in 0 .. streamChunk - 1 PROVE Chunk[i] \in Cell
    <3>1. buf[i] \in Cell /\ i \in Nat /\ (dir = "decrypt") \in BOOLEAN
      BY <1>1
    <3>2. Transformed(IF i < n THEN buf[i] ELSE Clear(Zero), baseUnit, i,
                      dir = "decrypt") \in Cell
      BY <3>1, <1>1, ClearCell, TransformedCell
    <3> QED BY <2>1, <3>1, <3>2 DEF Chunk
  <2> QED BY <2>1, <2>2 DEF Chunk
<1>10. ASSUME NEW i \in 0 .. full - 1
       PROVE  Chunk[i] = IF dir = "encrypt" THEN Volume(written + i)
                                            ELSE Padded(written + i)
  <2>1. i \in 0 .. streamChunk - 1 /\ i \in Nat /\ written + i \in Nat
    BY <1>1, <1>f
  <2>2. Chunk[i] = Transformed(IF i < n THEN buf[i] ELSE Clear(Zero), baseUnit, i,
                               dir = "decrypt")
    BY <1>1, <1>f, <2>1 DEF Chunk
  <2>3. CASE dir = "encrypt"
    <3>1. (IF i < n THEN buf[i] ELSE Clear(Zero)) = Padded(written + i)
      <4>1. CASE i < n
        <5>1. buf[i] = Clear(written + i)
          BY <1>1, <1>2, <2>1, <2>3, <4>1 DEF Expected
        <5>2. written + i < size
          BY <1>1, <1>2, <1>4, <2>1, <2>3, <4>1
        <5> QED BY <4>1, <5>1, <5>2 DEF Padded
      <4>2. CASE ~(i < n)
        <5>1. n # streamChunk
          BY <1>1, <1>f, <4>2
        <5>2. written + n = size
          BY <5>1, <1>1, <1>2, <1>4, <2>3
        <5>3. ~(written + i < size)
          BY <5>2, <4>2, <2>1, <1>1
        <5> QED BY <4>2, <5>3 DEF Padded
      <4> QED BY <4>1, <4>2
    <3>2. Chunk[i] = Transformed(Padded(written + i), baseUnit, i, FALSE)
      BY <2>2, <2>3, <3>1
    <3>3. Chunk[i] = Transformed(Padded(written + i), 0, written + i, FALSE)
      BY <3>2, <1>b, <2>1, SectorsNumbered
    <3> QED BY <3>3, <2>3 DEF Volume
  <2>4. CASE dir = "decrypt"
    <3>1. full = n
      BY <1>7, <1>f, <2>4 DEF Misaligned
    <3>2. i < n /\ i \in 0 .. n - 1
      BY <3>1, <1>1, <2>1
    <3>3. buf[i] = Volume(written + i)
      BY <3>2, <1>2, <2>4 DEF Expected
    <3>4. Chunk[i] = Transformed(Volume(written + i), baseUnit, i, TRUE)
      BY <2>2, <2>4, <3>2, <3>3
    <3>5. Chunk[i] = Transformed(Volume(written + i), 0, written + i, TRUE)
      BY <3>4, <1>b, <2>1, SectorsNumbered
    <3> QED BY <3>5, <2>1, <2>4, <1>1, DecipherVolume
  <2> QED BY <2>3, <2>4, <1>1
<1> QED BY <1>6, <1>7, <1>8, <1>9, <1>10, <1>f

-----------------------------------------------------------------------------
(* Every step keeps the invariant.                                         *)

LEMMA FreshBuffer == Fresh \in [0 .. streamChunk - 1 -> Cell]
BY ClearCell DEF Fresh

LEMMA BlankCell == \A a \in Address : Blank(a) \in Cell
BY ClearCell DEF Blank

\* The partition lies in the address space, apart from the tables.
LEMMA PayloadPlace ==
    ASSUME size \in 1 .. MaxImage
    PROVE  /\ \A i \in 0 .. encryptedSize - 1 :
                partOffset + i \in Address /\ partOffset + i \in Payload
           /\ \A a \in Payload : a - partOffset \in 0 .. encryptedSize - 1
           /\ diskSize = totalSectors * GPTSectorSize =>
                \A i \in 0 .. encryptedSize - 1 : Blank(partOffset + i) = Clear(Zero)
<1>1. /\ encryptedSize \in Nat /\ encryptedSize < MaxImage + SectorSize
      /\ partOffset \in Nat /\ TrailingSectors * GPTSectorSize \in Nat
      /\ MaxImage \in Nat /\ SectorSize \in Nat
  <2>1. size <= MaxImage /\ size \in Int /\ MaxImage \in Nat /\ SectorSize \in Nat
    BY Constants DEF Positive
  <2>2. encryptedSize \in Nat /\ encryptedSize < size + SectorSize
    BY Geometry
  <2> QED BY <2>1, <2>2, Constants
<1>2. ASSUME NEW i \in 0 .. encryptedSize - 1
      PROVE  partOffset + i \in Address /\ partOffset + i \in Payload
  BY <1>1 DEF Address, Payload
<1>3. ASSUME NEW a \in Payload PROVE a - partOffset \in 0 .. encryptedSize - 1
  BY <1>1 DEF Payload
<1>4. ASSUME diskSize = totalSectors * GPTSectorSize, NEW i \in 0 .. encryptedSize - 1
      PROVE  Blank(partOffset + i) = Clear(Zero)
  <2> DEFINE t == TableSectors * GPTSectorSize
             r == TrailingSectors * GPTSectorSize
  <2>1. t \in Nat /\ r \in Nat /\ t <= partOffset /\ t <= r
    BY Constants
  <2>2. diskSize = partOffset + encryptedSize + r
    BY <1>4, Geometry
  <2> HIDE DEF r
  <2>3. ~(partOffset + i < t) /\ ~(partOffset + i >= diskSize - t)
    <3> HIDE DEF t
    <3> QED BY <2>1, <2>2, <1>1
  <2> QED BY <2>3 DEF Blank
<1> QED BY <1>2, <1>3, <1>4

LEMMA InitInv == Init => IInv
<1> SUFFICES ASSUME Init PROVE IInv
  OBVIOUS
<1>1. /\ size \in 1 .. MaxImage /\ n = 0 /\ pos = 0 /\ written = 0 /\ baseUnit = 0
      /\ eof = FALSE /\ faulted = FALSE /\ pc = "truncate" /\ dir = "encrypt"
      /\ diskSize = 0 /\ buf = Fresh
      /\ disk = [a \in Address |-> Clear(Zero)] /\ plain = [a \in Address |-> Clear(Zero)]
  BY DEF Init
<1>2. TypeOK
  <2>1. disk \in [Address -> Cell] /\ plain \in [Address -> Cell]
    BY <1>1, ClearCell
  <2>2. buf \in [0 .. streamChunk - 1 -> Cell]
    BY <1>1, FreshBuffer
  <2>3. pos \in 0 .. srcSize
    BY <1>1, Constants DEF srcSize, Positive
  <2>4. written = baseUnit * SectorSize
    BY <1>1, Constants DEF Positive
  <2>5. written \in 0 .. encryptedSize
    BY <1>1, Geometry
  <2>6. n \in 0 .. streamChunk
    BY <1>1, Constants DEF Positive
  <2> QED BY <1>1, <2>1, <2>2, <2>3, <2>4, <2>5, <2>6 DEF TypeOK
<1>3. DiskInv
  BY <1>1 DEF DiskInv, DiskBlank
<1>4. StreamInv
  BY <1>1 DEF StreamInv
<1>5. EndInv
  BY <1>1 DEF EndInv, FailsForAReason
<1> QED BY <1>2, <1>3, <1>4, <1>5 DEF IInv

\* As long as the image's size stays, so does the volume.
LEMMA SameVolume ==
    ASSUME size' = size
    PROVE  /\ encryptedSize' = encryptedSize /\ Payload' = Payload
           /\ totalSectors' = totalSectors
           /\ \A i : Padded(i)' = Padded(i) /\ Volume(i)' = Volume(i)
<1>1. encryptedSize' = encryptedSize
  BY DEF encryptedSize
<1>2. \A i : Padded(i)' = Padded(i)
  BY DEF Padded
<1>3. \A i : Volume(i)' = Volume(i)
  BY <1>2 DEF Volume
<1>4. totalSectors' = totalSectors
  BY <1>1 DEF totalSectors, endSector, sectors
<1> QED BY <1>1, <1>2, <1>3, <1>4 DEF Payload

\* Steps that touch no file keep the disk as it is.
LEMMA SameFiles ==
    ASSUME UNCHANGED <<files, dir, written>>
    PROVE  /\ DiskBlank => DiskBlank'
           /\ DiskMade => DiskMade'
<1>1. /\ size' = size /\ disk' = disk /\ diskSize' = diskSize
      /\ dir' = dir /\ written' = written
  BY DEF files
<1>2. \A a : Blank(a)' = Blank(a)
  BY <1>1 DEF Blank
<1>3. OnlyVolumeEmitted => OnlyVolumeEmitted'
  BY <1>1, SameVolume DEF OnlyVolumeEmitted
<1>4. DiskBlank => DiskBlank'
  BY <1>1 DEF DiskBlank
<1>5. ASSUME DiskMade PROVE DiskMade'
  <2>1. (diskSize = totalSectors * GPTSectorSize)'
    BY <1>1, <1>5, SameVolume DEF DiskMade
  <2>2. (\A a \in Address : a \notin Payload => disk[a] = Blank(a))'
    BY <1>1, <1>2, <1>5, SameVolume DEF DiskMade
  <2>3. (\A i \in 0 .. encryptedSize - 1 :
           (i < written \/ dir = "decrypt") => disk[partOffset + i] = Volume(i))'
    BY <1>1, <1>5, SameVolume DEF DiskMade
  <2> QED BY <1>3, <1>5, <2>1, <2>2, <2>3 DEF DiskMade
<1> QED BY <1>4, <1>5

\* What encryption has put on the disk when m cells of a chunk are written.
LEMMA EmitDisk ==
    ASSUME IInv, pc = "emit", NEW m \in 0 .. full, Emit(m), dir = "encrypt",
           UNCHANGED <<size, diskSize, dir>>,
           NEW w \in Nat, written' = w, w <= written + m
    PROVE  DiskMade' /\ disk' \in [Address -> Cell]
<1>1. DiskMade /\ TypeOK
  BY DEF IInv, DiskInv
<1>2. /\ full \in 1 .. streamChunk /\ written + full <= encryptedSize
      /\ Chunk \in [0 .. streamChunk - 1 -> Cell]
      /\ \A i \in 0 .. full - 1 : Chunk[i] = Volume(written + i)
  BY ChunkRight
<1>3. /\ encryptedSize \in Nat /\ written \in Nat /\ partOffset \in Nat
      /\ disk \in [Address -> Cell] /\ size \in 1 .. MaxImage
      /\ m \in Nat /\ m <= full /\ full \in Nat /\ streamChunk \in Nat
  BY <1>1, <1>2, Constants, Geometry DEF TypeOK, Positive
<1>4. disk' = Put(disk, partOffset + written, m)
  BY DEF Emit
<1> DEFINE from == partOffset + written
<1>5. \A a \in Address :
        disk'[a] = IF from <= a /\ a < from + m THEN Chunk[a - from] ELSE disk[a]
  BY <1>3, <1>4 DEF Put
<1>6. disk' \in [Address -> Cell]
  <2>1. ASSUME NEW a \in Address, from <= a, a < from + m
        PROVE  Chunk[a - from] \in Cell
    <3>1. a \in Int
      BY DEF Address
    <3>2. a - from \in 0 .. streamChunk - 1
      BY <1>2, <1>3, <2>1, <3>1
    <3> QED BY <3>2, <1>2
  <2>2. disk' = [a \in Address |->
           IF from <= a /\ a < from + m THEN Chunk[a - from] ELSE disk[a]]
    BY <1>3, <1>4 DEF Put
  <2> HIDE DEF from
  <2> QED BY <1>3, <2>1, <2>2
<1>7. ASSUME NEW i \in 0 .. encryptedSize - 1
      PROVE  disk'[partOffset + i] = IF written <= i /\ i < written + m
                                     THEN Volume(i) ELSE disk[partOffset + i]
  <2>1. partOffset + i \in Address
    BY <1>3, PayloadPlace
  <2>2. (from <= partOffset + i /\ partOffset + i < from + m)
          <=> (written <= i /\ i < written + m)
    BY <1>3
  <2>3. CASE written <= i /\ i < written + m
    <3>1. partOffset + i - from = i - written /\ i - written \in 0 .. full - 1
          /\ written + (i - written) = i
      BY <1>3, <2>3
    <3>2. disk'[partOffset + i] = Chunk[(partOffset + i) - from]
      <4> HIDE DEF from
      <4> QED BY <1>5, <2>1, <2>2, <2>3
    <3>4. Chunk[(partOffset + i) - from] = Chunk[i - written]
      <4>1. (partOffset + i) - from = i - written
        BY ONLY <1>3, i \in 0 .. encryptedSize - 1
      <4> HIDE DEF from
      <4> QED BY <4>1
    <3>3. Chunk[i - written] = Volume(written + (i - written))
      BY <1>2, <3>1
    <3>5. disk'[partOffset + i] = Volume(i)
      BY <3>1, <3>2, <3>3, <3>4
    <3> QED BY <2>3, <3>5
  <2>4. CASE ~(written <= i /\ i < written + m)
    BY <1>5, <2>1, <2>2, <2>4
  <2> QED BY <2>3, <2>4
<1>8. (\A a \in Address : a \notin Payload => disk[a] = Blank(a))'
  <2>1. SUFFICES ASSUME NEW a \in Address, a \notin Payload
                 PROVE  disk'[a] = Blank(a)'
    BY SameVolume
  <2>2. a \in Int /\ ~(partOffset <= a /\ a <= partOffset + encryptedSize - 1)
    BY <1>3, <2>1 DEF Address, Payload
  <2>3. ~(from <= a /\ a < from + m)
    BY <1>2, <1>3, <2>2
  <2>4. disk'[a] = disk[a]
    BY <1>5, <2>3
  <2>5. Blank(a)' = Blank(a)
    BY DEF Blank
  <2> QED BY <1>1, <2>1, <2>4, <2>5 DEF DiskMade
<1>9. OnlyVolumeEmitted'
  BY <1>1, <1>7, SameVolume DEF OnlyVolumeEmitted, DiskMade
<1>10. (\A i \in 0 .. encryptedSize - 1 :
         (i < written \/ dir = "decrypt") => disk[partOffset + i] = Volume(i))'
  <2>1. SUFFICES ASSUME NEW i \in 0 .. encryptedSize - 1, i < w
                 PROVE  disk'[partOffset + i] = Volume(i)
    BY SameVolume
  <2>2. i < written \/ (written <= i /\ i < written + m)
    BY <1>3, <2>1
  <2>3. i < written => ~(written <= i /\ i < written + m)
    BY <1>3
  <2>4. i < written => disk[partOffset + i] = Volume(i)
    BY <1>1 DEF DiskMade
  <2> QED BY <1>7, <2>2, <2>3, <2>4
<1>11. (diskSize = totalSectors * GPTSectorSize)'
  BY <1>1, SameVolume DEF DiskMade
<1> QED BY <1>6, <1>8, <1>9, <1>10, <1>11 DEF DiskMade

\* The same for the plain file on decryption.
LEMMA EmitPlain ==
    ASSUME IInv, pc = "emit", NEW m \in 0 .. full, Emit(m), dir = "decrypt",
           UNCHANGED <<size, diskSize, dir>>,
           NEW w \in Nat, written' = w, w <= written + m
    PROVE  /\ DiskMade' /\ plain' \in [Address -> Cell]
           /\ \A i \in 0 .. w - 1 : plain'[i] = Padded(i)
<1>1. DiskMade /\ TypeOK /\ EndInv
  BY DEF IInv, DiskInv
<1>2. /\ full \in 1 .. streamChunk /\ written + full <= encryptedSize
      /\ Chunk \in [0 .. streamChunk - 1 -> Cell]
      /\ \A i \in 0 .. full - 1 : Chunk[i] = Padded(written + i)
  BY ChunkRight
<1>3. /\ encryptedSize \in Nat /\ written \in Nat /\ partOffset \in Nat
      /\ plain \in [Address -> Cell] /\ size \in 1 .. MaxImage
      /\ m \in Nat /\ m <= full /\ full \in Nat /\ streamChunk \in Nat
  BY <1>1, <1>2, Constants, Geometry DEF TypeOK, Positive
<1>4. plain' = Put(plain, written, m) /\ disk' = disk
  BY DEF Emit
<1>5. plain' = [a \in Address |->
        IF written <= a /\ a < written + m THEN Chunk[a - written] ELSE plain[a]]
  BY <1>3, <1>4 DEF Put
<1>6. plain' \in [Address -> Cell]
  <2>1. ASSUME NEW a \in Address, written <= a, a < written + m
        PROVE  Chunk[a - written] \in Cell
    <3>1. a \in Int
      BY DEF Address
    <3>2. a - written \in 0 .. streamChunk - 1
      BY <1>2, <1>3, <2>1, <3>1
    <3> QED BY <3>2, <1>2
  <2> QED BY <1>3, <1>5, <2>1
<1>7. ASSUME NEW i \in 0 .. w - 1 PROVE plain'[i] = Padded(i)
  <2>1. i \in Nat /\ i < written + m /\ i <= encryptedSize - 1
    <3>1. w + 0 <= encryptedSize
      BY <1>2, <1>3
    <3> QED BY <3>1, <1>3
  <2>2. i \in Address
    <3>1. i <= partOffset + i /\ partOffset + i \in Address
      BY <1>3, <2>1, PayloadPlace
    <3>2. /\ TrailingSectors * GPTSectorSize \in Nat
          /\ MaxImage \in Nat /\ SectorSize \in Nat
      BY Constants DEF Positive
    <3> QED BY <2>1, <3>1, <3>2, <1>3 DEF Address
  <2>3. CASE written <= i
    <3>1. i - written \in 0 .. full - 1 /\ written + (i - written) = i
      BY <1>3, <2>1, <2>3
    <3>2. plain'[i] = Chunk[i - written]
      BY <1>5, <2>1, <2>2, <2>3
    <3>3. Chunk[i - written] = Padded(written + (i - written))
      BY <1>2, <3>1
    <3> QED BY <3>1, <3>2, <3>3
  <2>4. CASE ~(written <= i)
    <3>1. i \in 0 .. written - 1
      BY <1>3, <2>1, <2>4
    <3>2. plain'[i] = plain[i]
      BY <1>5, <2>2, <2>4
    <3> QED BY <3>1, <3>2, <1>1 DEF EndInv
  <2> QED BY <2>3, <2>4
<1>8. DiskMade'
  <2>1. \A a : Blank(a)' = Blank(a)
    BY DEF Blank
  <2>2. OnlyVolumeEmitted'
    BY <1>1, <1>4, SameVolume DEF OnlyVolumeEmitted, DiskMade
  <2>3. (diskSize = totalSectors * GPTSectorSize)'
    BY <1>1, SameVolume DEF DiskMade
  <2>4. (\A a \in Address : a \notin Payload => disk[a] = Blank(a))'
    BY <1>1, <1>4, <2>1, SameVolume DEF DiskMade
  <2>5. (\A i \in 0 .. encryptedSize - 1 :
           (i < written \/ dir = "decrypt") => disk[partOffset + i] = Volume(i))'
    BY <1>1, <1>4, SameVolume DEF DiskMade
  <2> QED BY <2>2, <2>3, <2>4, <2>5 DEF DiskMade
<1> QED BY <1>6, <1>7, <1>8

\* What the cases below start from.
LEMMA Facts ==
    ASSUME IInv
    PROVE  /\ TypeOK /\ DiskInv /\ StreamInv /\ EndInv
           /\ size \in 1 .. MaxImage
           /\ disk \in [Address -> Cell] /\ plain \in [Address -> Cell]
           /\ diskSize \in Nat /\ dir \in {"encrypt", "decrypt"}
           /\ buf \in [0 .. streamChunk - 1 -> Cell]
           /\ n \in 0 .. streamChunk /\ n \in Nat /\ streamChunk \in Nat \ {0}
           /\ pos \in 0 .. srcSize
           /\ eof \in BOOLEAN /\ faulted \in BOOLEAN
           /\ baseUnit \in Nat /\ written = baseUnit * SectorSize
           /\ written \in 0 .. encryptedSize /\ encryptedSize \in Nat
<1>1. TypeOK /\ DiskInv /\ StreamInv /\ EndInv
  BY DEF IInv
<1>2. streamChunk \in Nat \ {0}
  BY Constants DEF Positive
<1>3. encryptedSize \in Nat
  BY <1>1, Geometry DEF TypeOK
<1> QED BY <1>1, <1>2, <1>3 DEF TypeOK

\* From sgdisk on the length of the source is a number.
LEMMA SourceSize ==
    ASSUME IInv, DiskMade
    PROVE  /\ srcSize = IF dir = "encrypt" THEN size ELSE encryptedSize
           /\ srcSize \in Nat
<1>1. diskSize = totalSectors * GPTSectorSize
  BY DEF DiskMade
<1>2. size \in 1 .. MaxImage /\ encryptedSize \in Nat /\ size \in Nat
  BY Facts
<1> QED BY <1>1, <1>2, SidesAgree DEF srcSize

\* A step that only ends the run in failure, with a reason.
LEMMA FailInv ==
    ASSUME IInv, pc' = "failed", faulted' = TRUE, UNCHANGED <<files, dir, stream>>
    PROVE  IInv'
<1>u. UNCHANGED <<size, disk, diskSize, plain, dir, buf, n, eof, pos, baseUnit, written>>
  BY DEF files, stream
<1>1. TypeOK'
  <2>1. srcSize' = srcSize /\ encryptedSize' = encryptedSize
    BY <1>u, SameVolume DEF srcSize, partSize
  <2> QED BY <1>u, <2>1, Facts DEF TypeOK
<1>2. DiskInv'
  <2>1. (DiskBlank => DiskBlank') /\ (DiskMade => DiskMade')
    BY <1>u, SameFiles
  <2>2. DiskBlank \/ DiskMade
    BY Facts DEF DiskInv
  <2> QED BY <2>1, <2>2 DEF DiskInv
<1>3. StreamInv'
  BY DEF StreamInv
<1>4. EndInv'
  BY <1>u, SameVolume, Facts DEF EndInv, FailsForAReason
<1> QED BY <1>1, <1>2, <1>3, <1>4 DEF IInv

LEMMA TruncateInv == ASSUME IInv, Truncate PROVE IInv'
<1>u. /\ pc = "truncate" /\ pc' = "sgdisk"
      /\ diskSize' = totalSectors * GPTSectorSize
      /\ UNCHANGED <<size, disk, plain, dir, buf, n, eof, pos, baseUnit, written, faulted>>
  BY DEF Truncate, stream
<1>1. dir = "encrypt" /\ DiskBlank
  BY <1>u, Facts DEF StreamInv, DiskInv
<1>2. TypeOK'
  <2>1. srcSize' = srcSize /\ encryptedSize' = encryptedSize
    BY <1>u, <1>1, SameVolume DEF srcSize
  <2>2. diskSize' \in Nat
    <3> DEFINE t == TrailingSectors * GPTSectorSize
    <3>1. diskSize' = partOffset + encryptedSize + t
      BY <1>u, Facts, Geometry
    <3>2. t \in Nat /\ partOffset \in Nat /\ encryptedSize \in Nat
      BY Facts, Constants
    <3> HIDE DEF t
    <3> QED BY <3>1, <3>2
  <2> QED BY <1>u, <2>1, <2>2, Facts DEF TypeOK
<1>3. DiskInv'
  <2>1. DiskBlank'
    BY <1>u, <1>1 DEF DiskBlank
  <2>2. (diskSize = totalSectors * GPTSectorSize)'
    BY <1>u, SameVolume
  <2> QED BY <1>u, <2>1, <2>2 DEF DiskInv
<1>4. StreamInv'
  BY <1>u, Facts DEF StreamInv
<1>5. EndInv'
  BY <1>u, <1>1, Facts DEF EndInv, FailsForAReason
<1> QED BY <1>2, <1>3, <1>4, <1>5 DEF IInv

LEMMA SgdiskInv == ASSUME IInv, Sgdisk PROVE IInv'
<1>u. /\ pc = "sgdisk" /\ pc' = "read" /\ disk' = [a \in Address |-> Blank(a)]
      /\ UNCHANGED <<size, diskSize, plain, dir, buf, n, eof, pos, baseUnit, written, faulted>>
  BY DEF Sgdisk, stream
<1>1. /\ dir = "encrypt" /\ diskSize = totalSectors * GPTSectorSize
      /\ n = 0 /\ pos = 0 /\ written = 0 /\ eof = FALSE
  BY <1>u, Facts DEF StreamInv, DiskInv
<1>2. TypeOK'
  <2>1. srcSize' = srcSize /\ encryptedSize' = encryptedSize
    BY <1>u, SameVolume DEF srcSize, partSize
  <2>2. disk' \in [Address -> Cell]
    BY <1>u, BlankCell
  <2> QED BY <1>u, <2>1, <2>2, Facts DEF TypeOK
<1>3. DiskMade'
  <2>1. (diskSize = totalSectors * GPTSectorSize)'
    BY <1>u, <1>1, SameVolume
  <2>2. \A a : Blank(a)' = Blank(a)
    BY <1>u DEF Blank
  <2>3. (\A a \in Address : a \notin Payload => disk[a] = Blank(a))'
    BY <1>u, <2>2
  <2>4. \A i \in 0 .. encryptedSize - 1 : disk'[partOffset + i] = Clear(Zero)
    BY <1>u, <1>1, Facts, PayloadPlace
  <2>5. OnlyVolumeEmitted'
    BY <1>u, <2>4, SameVolume DEF OnlyVolumeEmitted
  <2>6. (\A i \in 0 .. encryptedSize - 1 :
           (i < written \/ dir = "decrypt") => disk[partOffset + i] = Volume(i))'
    <3>1. \A i \in 0 .. encryptedSize - 1 : ~(i < written') /\ dir' # "decrypt"
      BY <1>u, <1>1, Facts
    <3> QED BY <1>u, <3>1, SameVolume
  <2> QED BY <2>1, <2>3, <2>5, <2>6 DEF DiskMade
<1>4. DiskInv'
  BY <1>u, <1>3 DEF DiskInv
<1>5. StreamInv'
  BY <1>u, <1>1 DEF StreamInv
<1>6. EndInv'
  BY <1>u, <1>1, Facts DEF EndInv, FailsForAReason
<1> QED BY <1>2, <1>4, <1>5, <1>6 DEF IInv

\* A step within a stream: the disk is made and stays, and EndInv's facts
\* about the files with it.
LEMMA WithinStream ==
    ASSUME IInv, pc \in {"read", "emit", "sync", "published"},
           pc' \in {"read", "emit", "sync", "published", "verified"},
           UNCHANGED <<files, dir, written>>
    PROVE  /\ DiskMade /\ DiskInv'
           /\ srcSize' = srcSize /\ encryptedSize' = encryptedSize
           /\ (dir = "decrypt" => \A i \in 0 .. written - 1 : plain[i] = Padded(i))'
           /\ FailsForAReason'
<1>1. DiskMade
  BY Facts DEF DiskInv
<1>2. DiskInv'
  BY <1>1, SameFiles DEF DiskInv
<1>3. srcSize' = srcSize /\ encryptedSize' = encryptedSize
  BY SameVolume DEF srcSize, partSize, files
<1>4. (dir = "decrypt" => \A i \in 0 .. written - 1 : plain[i] = Padded(i))'
  BY Facts, SameVolume DEF EndInv, files
<1> QED BY <1>1, <1>2, <1>3, <1>4 DEF FailsForAReason

LEMMA ReadSomeInv == ASSUME IInv, ReadSome PROVE IInv'
<1>u. /\ pc = "read" /\ pc' = "read"
      /\ UNCHANGED <<size, disk, diskSize, plain, dir, eof, baseUnit, written, faulted>>
      /\ UNCHANGED files
  BY DEF ReadSome, files
<1>k. PICK k \in 1 .. streamChunk - n :
        /\ pos + k <= srcSize
        /\ buf' = [i \in DOMAIN buf |->
                     IF n <= i /\ i < n + k THEN Source(pos + (i - n)) ELSE buf[i]]
        /\ n' = n + k /\ pos' = pos + k
  BY DEF ReadSome
<1>w. /\ DiskMade /\ DiskInv' /\ srcSize' = srcSize /\ encryptedSize' = encryptedSize
      /\ (dir = "decrypt" => \A i \in 0 .. written - 1 : plain[i] = Padded(i))'
      /\ FailsForAReason'
  BY <1>u, WithinStream
<1>s. srcSize \in Nat /\ srcSize = IF dir = "encrypt" THEN size ELSE encryptedSize
  BY <1>w, SourceSize
<1>1. /\ pos = written + n /\ eof = FALSE
      /\ \A i \in 0 .. n - 1 : buf[i] = Expected(written + i)
  BY <1>u, Facts DEF StreamInv
<1>2. /\ k \in Nat /\ n \in Nat /\ pos \in Nat /\ written \in Nat /\ n + k <= streamChunk
      /\ streamChunk \in Nat /\ srcSize \in Nat /\ pos = written + n /\ pos + k <= srcSize
  BY <1>1, <1>k, <1>s, Facts
<1>3. ASSUME NEW j \in Nat, j < srcSize
      PROVE  Source(j) = Expected(j) /\ Source(j) \in Cell
  <2>1. CASE dir = "encrypt"
    <3>1. j \in 0 .. MaxImage - 1
      BY <1>3, <1>s, <2>1, Facts, Constants DEF Positive
    <3> QED BY <2>1, <3>1, ClearCell DEF Source, Expected
  <2>2. CASE dir = "decrypt"
    <3>1. j \in 0 .. encryptedSize - 1
      BY <1>3, <1>s, <2>2, Facts
    <3>2. disk[partOffset + j] = Volume(j)
      BY <1>w, <2>2, <3>1 DEF DiskMade
    <3>3. partOffset + j \in Address
      BY <3>1, Facts, PayloadPlace
    <3> QED BY <2>2, <3>2, <3>3, Facts DEF Source, Expected
  <2> QED BY <2>1, <2>2, Facts
<1>4. ASSUME NEW i \in 0 .. streamChunk - 1, n <= i, i < n + k
      PROVE  /\ Source(pos + (i - n)) = Expected(written + i)
             /\ Source(pos + (i - n)) \in Cell
  <2>1. pos + (i - n) \in Nat /\ pos + (i - n) < srcSize /\ pos + (i - n) = written + i
    BY <1>2, <1>4
  <2> QED BY <1>3, <2>1
<1>5. buf' \in [0 .. streamChunk - 1 -> Cell]
  BY <1>k, <1>4, Facts
<1>6. TypeOK'
  <2>1. n' \in 0 .. streamChunk
    BY <1>2, <1>k
  <2>2. pos' \in 0 .. srcSize'
    <3>1. pos' = pos + k /\ srcSize' = srcSize
      BY <1>k, <1>w
    <3> QED BY <3>1, <1>2
  <2> QED BY <1>u, <1>5, <1>w, <2>1, <2>2, Facts DEF TypeOK
<1>7. StreamInv'
  <2>1. pos' = written' + n'
    BY <1>1, <1>2, <1>k, <1>u
  <2>2. ASSUME NEW i \in 0 .. n' - 1 PROVE buf'[i] = Expected(written + i)
    <3>1. i \in Nat /\ i < n + k /\ i \in 0 .. streamChunk - 1
      BY <1>2, <1>k
    <3>2. CASE n <= i
      BY <1>k, <1>4, <3>1, <3>2, Facts
    <3>3. CASE ~(n <= i)
      <4>1. i \in 0 .. n - 1
        BY <1>2, <3>1, <3>3
      <4> QED BY <1>1, <1>k, <3>1, <3>3, <4>1, Facts
    <3> QED BY <3>2, <3>3
  <2>3. (\A i \in 0 .. n - 1 : buf[i] = Expected(written + i))'
    BY <1>u, <2>2, SameVolume DEF Expected
  <2> QED BY <1>u, <1>1, <2>1, <2>3 DEF StreamInv
<1>8. EndInv'
  BY <1>u, <1>w DEF EndInv
<1> QED BY <1>w, <1>6, <1>7, <1>8 DEF IInv

LEMMA ReadEndsInv == ASSUME IInv, ReadEnds PROVE IInv'
<1>u. /\ pc = "read" /\ ReadReturns /\ eof' = SourceEnded
      /\ pc' = IF n > 0 THEN "emit" ELSE IF SourceEnded THEN "sync" ELSE "failed"
      /\ UNCHANGED <<size, disk, diskSize, plain, dir, buf, n, pos, baseUnit, written, faulted>>
      /\ UNCHANGED files
  BY DEF ReadEnds, files
<1>1. /\ pos = written + n /\ eof = FALSE
      /\ \A i \in 0 .. n - 1 : buf[i] = Expected(written + i)
  BY <1>u, Facts DEF StreamInv
<1>2. n = streamChunk \/ pos = srcSize
  BY <1>u DEF ReadReturns
<1>3. SourceEnded <=> n < streamChunk
  <2>1. n < streamChunk => n # streamChunk
    BY Facts
  <2> QED BY <1>2, <2>1 DEF SourceEnded
<1>4. pc' = IF n > 0 THEN "emit" ELSE "sync"
  <2>1. n = 0 => n < streamChunk
    BY Facts
  <2>2. n > 0 \/ n = 0
    BY Facts
  <2> QED BY <1>u, <1>3, <2>1, <2>2
<1>w. /\ DiskMade /\ DiskInv' /\ srcSize' = srcSize /\ encryptedSize' = encryptedSize
      /\ (dir = "decrypt" => \A i \in 0 .. written - 1 : plain[i] = Padded(i))'
      /\ FailsForAReason'
  BY <1>u, <1>4, WithinStream
<1>5. TypeOK'
  <2>1. eof' \in BOOLEAN
    BY <1>u DEF SourceEnded
  <2> QED BY <1>u, <1>4, <1>w, <2>1, Facts DEF TypeOK
<1>6. StreamInv'
  <2>1. (\A i \in 0 .. n - 1 : buf[i] = Expected(written + i))'
    BY <1>u, <1>1, SameVolume DEF Expected
  <2>2. pc' = "emit" => n > 0
    BY <1>4
  <2>3. pos' = written' + n'
    BY <1>u, <1>1
  <2>4. eof' <=> n' < streamChunk
    BY <1>u, <1>3
  <2>5. (n = streamChunk \/ pos = srcSize)'
    BY <1>u, <1>2, <1>w
  <2>6. pc' \in {"emit", "sync"} /\ (pc' = "emit" => n' > 0)
    BY <1>u, <1>4, <2>2
  <2> QED BY <2>1, <2>3, <2>4, <2>5, <2>6 DEF StreamInv
<1>7. EndInv'
  <2>1. n = 0 => written = encryptedSize
    <3>1. SUFFICES ASSUME n = 0 PROVE written = encryptedSize
      OBVIOUS
    <3>2. pos = srcSize /\ pos = written
      BY <1>1, <1>2, <3>1, Facts
    <3>3. CASE dir = "decrypt"
      BY <3>2, <3>3, <1>w, SourceSize
    <3>4. CASE dir = "encrypt"
      <4>1. size = baseUnit * SectorSize /\ baseUnit \in Int
        BY <3>2, <3>4, <1>w, SourceSize, Facts
      <4>2. Ceil(baseUnit * SectorSize, SectorSize) = baseUnit * SectorSize
        BY <4>1, Constants, CeilMultiple
      <4>3. encryptedSize = Ceil(size, SectorSize)
        BY Facts, Geometry
      <4> QED BY <4>1, <4>2, <4>3, Facts
    <3> QED BY <3>3, <3>4, Facts
  <2>2. pc' = "sync" => n = 0
    BY <1>4, Facts
  <2>3. pc' = "sync" => written' = encryptedSize'
    BY <1>u, <1>w, <2>1, <2>2
  <2>4. pc' \in {"emit", "sync"}
    BY <1>4
  <2> QED BY <1>w, <2>3, <2>4 DEF EndInv
<1> QED BY <1>w, <1>5, <1>6, <1>7 DEF IInv

\* What WriteChunk and WriteFails share.
LEMMA EmitInv ==
    ASSUME IInv, pc = "emit", NEW m \in 0 .. full, Emit(m),
           UNCHANGED <<size, diskSize, dir>>,
           NEW w \in Nat, written' = w, w <= written + m
    PROVE  /\ DiskMade' /\ disk' \in [Address -> Cell] /\ plain' \in [Address -> Cell]
           /\ buf' \in [0 .. streamChunk - 1 -> Cell]
           /\ (dir = "decrypt" => \A i \in 0 .. written - 1 : plain[i] = Padded(i))'
           /\ srcSize' = srcSize /\ encryptedSize' = encryptedSize
<1>1. buf' \in [0 .. streamChunk - 1 -> Cell]
  BY ChunkRight DEF Emit
<1>2. srcSize' = srcSize /\ encryptedSize' = encryptedSize
  BY SameVolume DEF srcSize, partSize
<1>3. CASE dir = "encrypt"
  <2>1. DiskMade' /\ disk' \in [Address -> Cell]
    BY <1>3, EmitDisk
  <2>2. plain' = plain /\ dir' # "decrypt"
    BY <1>3 DEF Emit
  <2> QED BY <1>1, <1>2, <2>1, <2>2, Facts
<1>4. CASE dir = "decrypt"
  <2>1. /\ DiskMade' /\ plain' \in [Address -> Cell]
        /\ \A i \in 0 .. w - 1 : plain'[i] = Padded(i)
    BY <1>4, EmitPlain
  <2>2. disk' = disk
    BY <1>4 DEF Emit
  <2>3. (dir = "decrypt" => \A i \in 0 .. written - 1 : plain[i] = Padded(i))'
    BY <2>1, SameVolume
  <2> QED BY <1>1, <1>2, <2>1, <2>2, <2>3, Facts
<1> QED BY <1>3, <1>4, Facts

LEMMA WriteChunkInv == ASSUME IInv, WriteChunk PROVE IInv'
<1>u. /\ pc = "emit" /\ Emit(full) /\ baseUnit' = baseUnit + full \div SectorSize
      /\ written' = written + full /\ n' = 0 /\ pc' = IF eof THEN "sync" ELSE "read"
      /\ UNCHANGED <<size, diskSize, dir, eof, pos, faulted>>
  BY DEF WriteChunk
<1>1. /\ full \in 1 .. streamChunk /\ full \in Nat /\ full \in 0 .. full
      /\ written + full <= encryptedSize
      /\ eof => written + full = encryptedSize
      /\ ~eof => full = n
      /\ full \div SectorSize \in Nat
      /\ (full \div SectorSize) * SectorSize = full
  <2>1. full \in Nat
    BY <1>u, ChunkRight, Facts
  <2> QED BY <1>u, <2>1, ChunkRight
<1>2. written \in Nat /\ written + full \in Nat /\ encryptedSize \in Nat
      /\ baseUnit \in Nat /\ written = baseUnit * SectorSize
  BY <1>1, Facts
<1>3. /\ DiskMade' /\ disk' \in [Address -> Cell] /\ plain' \in [Address -> Cell]
      /\ buf' \in [0 .. streamChunk - 1 -> Cell]
      /\ (dir = "decrypt" => \A i \in 0 .. written - 1 : plain[i] = Padded(i))'
      /\ srcSize' = srcSize /\ encryptedSize' = encryptedSize
  <2>1. written + full <= written + full
    BY <1>2
  <2> QED BY <1>u, <1>1, <1>2, <2>1, EmitInv
<1>4. TypeOK'
  <2>1. written' = baseUnit' * SectorSize
    <3> DEFINE q == full \div SectorSize
    <3>1. q \in Nat /\ q * SectorSize = full /\ baseUnit' = baseUnit + q
      BY <1>u, <1>1
    <3> HIDE DEF q
    <3>2. (baseUnit + q) * SectorSize = baseUnit * SectorSize + q * SectorSize
      BY <3>1, <1>2, Constants DEF Positive
    <3> QED BY <3>1, <3>2, <1>2, <1>u
  <2>2. baseUnit' \in Nat /\ written' \in 0 .. encryptedSize' /\ n' \in 0 .. streamChunk
    BY <1>u, <1>1, <1>2, <1>3, Facts
  <2>3. pc' \in {"sync", "read"}
    BY <1>u
  <2> QED BY <1>u, <1>3, <2>1, <2>2, <2>3, Facts DEF TypeOK
<1>5. DiskInv'
  BY <1>u, <1>3 DEF DiskInv
<1>6. StreamInv'
  <2>1. pos = written + n
    BY <1>u, Facts DEF StreamInv
  <2>2. CASE eof
    BY <1>u, <2>2 DEF StreamInv
  <2>3. CASE ~eof
    <3>1. pc' = "read" /\ eof' = FALSE /\ n' = 0
      BY <1>u, <2>3, Facts
    <3>2. pos' = written' + n'
      BY <1>u, <1>1, <1>2, <2>1, <2>3
    <3>3. \A i \in 0 .. n' - 1 : FALSE
      BY <3>1
    <3> QED BY <3>1, <3>2, <3>3 DEF StreamInv
  <2> QED BY <2>2, <2>3
<1>7. EndInv'
  <2>1. pc' = "sync" => written' = encryptedSize'
    BY <1>u, <1>1, <1>3
  <2>2. pc' \in {"sync", "read"}
    BY <1>u
  <2> QED BY <1>3, <2>1, <2>2 DEF EndInv, FailsForAReason
<1> QED BY <1>4, <1>5, <1>6, <1>7 DEF IInv

LEMMA WriteFailsInv == ASSUME IInv, WriteFails PROVE IInv'
<1>u. /\ pc = "emit" /\ faulted' = TRUE /\ pc' = "failed"
      /\ UNCHANGED <<size, diskSize, dir, n, eof, pos, baseUnit, written>>
  BY DEF WriteFails
<1>m. PICK m \in 0 .. full - 1 : Emit(m)
  BY DEF WriteFails
<1>1. m \in 0 .. full /\ m \in Nat
  BY <1>u, ChunkRight, Facts
<1>2. written \in Nat /\ written' = written /\ written <= written + m
  BY <1>u, <1>1, Facts
<1>3. /\ DiskMade' /\ disk' \in [Address -> Cell] /\ plain' \in [Address -> Cell]
      /\ buf' \in [0 .. streamChunk - 1 -> Cell]
      /\ (dir = "decrypt" => \A i \in 0 .. written - 1 : plain[i] = Padded(i))'
      /\ srcSize' = srcSize /\ encryptedSize' = encryptedSize
  BY <1>u, <1>m, <1>1, <1>2, EmitInv
<1>4. TypeOK'
  BY <1>u, <1>3, Facts DEF TypeOK
<1>5. DiskInv'
  BY <1>u, <1>3 DEF DiskInv
<1>6. StreamInv'
  BY <1>u DEF StreamInv
<1>7. EndInv'
  BY <1>u, <1>3 DEF EndInv, FailsForAReason
<1> QED BY <1>4, <1>5, <1>6, <1>7 DEF IInv

LEMMA SyncInv == ASSUME IInv, Sync PROVE IInv'
<1>u. /\ pc = "sync" /\ pc' = IF dir = "encrypt" THEN "published" ELSE "verified"
      /\ UNCHANGED <<size, disk, diskSize, plain, dir, buf, n, eof, pos, baseUnit, written, faulted>>
      /\ UNCHANGED files
  BY DEF Sync, files, stream
<1>p. pc' \in {"published", "verified"}
  BY <1>u
<1>w. /\ DiskInv' /\ srcSize' = srcSize /\ encryptedSize' = encryptedSize
      /\ (dir = "decrypt" => \A i \in 0 .. written - 1 : plain[i] = Padded(i))'
      /\ FailsForAReason'
  BY <1>u, <1>p, WithinStream
<1>1. TypeOK'
  BY <1>u, <1>p, <1>w, Facts DEF TypeOK
<1>2. StreamInv'
  BY <1>p DEF StreamInv
<1>3. EndInv'
  <2>1. written' = encryptedSize'
    BY <1>u, <1>w, Facts DEF EndInv
  <2> QED BY <1>u, <1>p, <1>w, <2>1, Facts DEF EndInv
<1> QED BY <1>w, <1>1, <1>2, <1>3 DEF IInv

LEMMA VerifyInv == ASSUME IInv, Verify PROVE IInv'
<1>u. /\ pc = "published" /\ pc' = "read" /\ dir' = "decrypt"
      /\ buf' = Fresh /\ n' = 0 /\ eof' = FALSE /\ pos' = 0
      /\ baseUnit' = 0 /\ written' = 0
      /\ UNCHANGED <<size, disk, diskSize, plain, faulted>>
  BY DEF Verify, files
<1>1. DiskMade /\ written = encryptedSize
  BY <1>u, Facts DEF DiskInv, EndInv
<1>2. DiskMade'
  <2>1. \A a : Blank(a)' = Blank(a)
    BY <1>u DEF Blank
  <2>2. \A i \in 0 .. encryptedSize - 1 : disk[partOffset + i] = Volume(i)
    <3>1. \A i \in 0 .. encryptedSize - 1 : i < written
      BY <1>1, Facts
    <3> QED BY <1>1, <3>1 DEF DiskMade
  <2>3. OnlyVolumeEmitted'
    BY <1>u, <2>2, SameVolume DEF OnlyVolumeEmitted
  <2>4. (diskSize = totalSectors * GPTSectorSize)'
    BY <1>u, <1>1, SameVolume DEF DiskMade
  <2>5. (\A a \in Address : a \notin Payload => disk[a] = Blank(a))'
    BY <1>u, <1>1, <2>1, SameVolume DEF DiskMade
  <2>6. (\A i \in 0 .. encryptedSize - 1 :
           (i < written \/ dir = "decrypt") => disk[partOffset + i] = Volume(i))'
    BY <1>u, <2>2, SameVolume
  <2> QED BY <2>3, <2>4, <2>5, <2>6 DEF DiskMade
<1>3. TypeOK'
  <2>1. encryptedSize' = encryptedSize
    BY <1>u, SameVolume
  <2>2. srcSize' = encryptedSize
    <3>1. srcSize' = partSize'
      BY <1>u DEF srcSize
    <3>2. partSize' = partSize
      BY <1>u DEF partSize
    <3>3. partSize = encryptedSize
      BY <1>1, Facts, SidesAgree DEF DiskMade
    <3> QED BY <3>1, <3>2, <3>3
  <2>3. /\ pos' \in 0 .. srcSize' /\ written' \in 0 .. encryptedSize'
        /\ n' \in 0 .. streamChunk
    BY <1>u, <2>1, <2>2, Facts
  <2>4. written' = baseUnit' * SectorSize
    BY <1>u, Constants DEF Positive
  <2> QED BY <1>u, <2>3, <2>4, FreshBuffer, Facts DEF TypeOK
<1>4. DiskInv'
  BY <1>u, <1>2 DEF DiskInv
<1>5. StreamInv'
  <2>1. pos' = written' + n' /\ \A i \in 0 .. n' - 1 : FALSE
    BY <1>u
  <2> QED BY <1>u, <2>1 DEF StreamInv
<1>6. EndInv'
  <2>1. \A i \in 0 .. written' - 1 : FALSE
    BY <1>u
  <2> QED BY <1>u, <2>1 DEF EndInv, FailsForAReason
<1> QED BY <1>3, <1>4, <1>5, <1>6 DEF IInv

LEMMA StutterInv == ASSUME IInv, UNCHANGED vars PROVE IInv'
<1>u. /\ UNCHANGED <<size, disk, diskSize, plain, pc, dir, buf, n, eof, pos,
                     baseUnit, written, faulted>>
      /\ UNCHANGED files
  BY DEF vars, files
<1>1. TypeOK'
  <2>1. srcSize' = srcSize /\ encryptedSize' = encryptedSize
    BY <1>u, SameVolume DEF srcSize, partSize
  <2> QED BY <1>u, <2>1, Facts DEF TypeOK
<1>2. DiskInv'
  <2>1. (DiskBlank => DiskBlank') /\ (DiskMade => DiskMade')
    BY <1>u, SameFiles
  <2> QED BY <1>u, <2>1, SameVolume, Facts DEF DiskInv
<1>3. StreamInv'
  <2>1. srcSize' = srcSize
    BY <1>u, SameVolume DEF srcSize, partSize
  <2>2. (\A i \in 0 .. n - 1 : buf[i] = Expected(written + i))
          => (\A i \in 0 .. n - 1 : buf[i] = Expected(written + i))'
    BY <1>u, SameVolume DEF Expected
  <2> QED BY <1>u, <2>1, <2>2, Facts DEF StreamInv
<1>4. EndInv'
  <2>1. (\A i \in 0 .. written - 1 : plain[i] = Padded(i))
          => (\A i \in 0 .. written - 1 : plain[i] = Padded(i))'
    BY <1>u, SameVolume
  <2> QED BY <1>u, <2>1, SameVolume, Facts DEF EndInv, FailsForAReason
<1> QED BY <1>1, <1>2, <1>3, <1>4 DEF IInv

LEMMA NextInv == IInv /\ [Next]_vars => IInv'
<1> SUFFICES ASSUME IInv, [Next]_vars PROVE IInv'
  OBVIOUS
<1>1. CASE Truncate
  BY <1>1, TruncateInv
<1>2. CASE Sgdisk
  BY <1>2, SgdiskInv
<1>3. CASE ReadSome
  BY <1>3, ReadSomeInv
<1>4. CASE ReadEnds
  BY <1>4, ReadEndsInv
<1>5. CASE WriteChunk
  BY <1>5, WriteChunkInv
<1>6. CASE RefuseMisaligned
  BY <1>6, ChunkRight DEF RefuseMisaligned
<1>7. CASE Sync
  BY <1>7, SyncInv
<1>8. CASE ReadFails
  BY <1>8, FailInv DEF ReadFails
<1>9. CASE WriteFails
  BY <1>9, WriteFailsInv
<1>10. CASE CallFails
  BY <1>10, FailInv DEF CallFails
<1>11. CASE Verify
  BY <1>11, VerifyInv
<1>12. CASE Ended \/ UNCHANGED vars
  BY <1>12, StutterInv DEF Ended
<1> QED BY <1>1, <1>2, <1>3, <1>4, <1>5, <1>6, <1>7, <1>8, <1>9, <1>10, <1>11, <1>12
        DEF Next, Progress, Fault, HandleChunk

-----------------------------------------------------------------------------
(* The theorems.                                                           *)

\* The invariant of the encryption holds for any image, any sizes of sector,
\* chunk and table, and any sequence of short reads and failures of stream.
THEOREM StreamSound == Spec => []IInv
<1>1. Init => IInv
  BY InitInv
<1>2. IInv /\ [Next]_vars => IInv'
  BY NextInv
<1> QED BY <1>1, <1>2, PTL DEF Spec

\* Type correctness of the state of encryptEMWP and VerifyEMWP; what is
\* written is a number of sectors and never exceeds the partition.
THEOREM StreamTypeCorrect == Spec => []TypeOK
<1>1. IInv => TypeOK
  BY DEF IInv
<1> QED BY <1>1, StreamSound, PTL

\* No cell of the partition ever holds anything but its ciphertext.
THEOREM OnlyVolumeIsEmitted == Spec => []OnlyVolumeEmitted
<1>1. ASSUME IInv PROVE OnlyVolumeEmitted
  <2>1. DiskBlank \/ DiskMade
    BY <1>1, Facts DEF DiskInv
  <2>2. DiskBlank => OnlyVolumeEmitted
    BY <1>1, Facts, PayloadPlace DEF DiskBlank, OnlyVolumeEmitted
  <2> QED BY <2>1, <2>2 DEF DiskMade
<1>2. IInv => OnlyVolumeEmitted
  BY <1>1
<1> QED BY <1>2, StreamSound, PTL

\* encryptPayload never writes outside the partition sgdisk was told of.
THEOREM TablesStayIntact == Spec => []TablesIntact
<1>1. ASSUME IInv PROVE TablesIntact
  <2>1. DiskBlank \/ DiskMade
    BY <1>1, Facts DEF DiskInv
  <2>2. DiskBlank => TablesIntact
    BY DEF DiskBlank, TablesIntact
  <2>3. DiskMade => TablesIntact
    BY DEF DiskMade, TablesIntact, Payload
  <2> QED BY <2>1, <2>2, <2>3
<1>2. IInv => TablesIntact
  BY <1>1
<1> QED BY <1>2, StreamSound, PTL

\* A published EMWP opens, as OpenCrypt opens it, to the image.
THEOREM ConsumerAlwaysDecrypts == Spec => []ConsumerDecrypts
<1>1. ASSUME IInv PROVE ConsumerDecrypts
  <2>1. SUFFICES ASSUME pc = "published", NEW i \in 0 .. DmCryptSize - 1
                 PROVE  DmCryptReads(i) = Padded(i)
    BY DEF ConsumerDecrypts
  <2>2. DmCryptSize = encryptedSize /\ encryptedSize \in Nat
    BY <1>1, Facts, Geometry
  <2>3. i \in Nat /\ i < encryptedSize /\ i \in 0 .. encryptedSize - 1
    BY <2>1, <2>2
  <2>4. DiskMade /\ written = encryptedSize
    BY <1>1, <2>1, Facts DEF DiskInv, EndInv
  <2>5. disk[partOffset + i] = Volume(i)
    BY <2>3, <2>4 DEF DiskMade
  <2> QED BY <1>1, <2>3, <2>5, Facts, DmCryptDeciphers
<1>2. IInv => ConsumerDecrypts
  BY <1>1
<1> QED BY <1>2, StreamSound, PTL

\* VerifyEMWP recovers what encryptEMWP was given.
THEOREM VerifyAlwaysRecovers == Spec => []VerifyRecovers
<1>1. ASSUME IInv PROVE VerifyRecovers
  BY <1>1, Facts DEF EndInv, VerifyRecovers
<1>2. IInv => VerifyRecovers
  BY <1>1
<1> QED BY <1>2, StreamSound, PTL

\* Neither direction fails unless a call has failed.
THEOREM NeverFailsForNothing == Spec => []FailsForAReason
<1>1. IInv => FailsForAReason
  BY DEF IInv, EndInv
<1> QED BY <1>1, StreamSound, PTL

-----------------------------------------------------------------------------
(* Every step comes closer to the end.                                     *)

\* Where pc stands in a round of the loop; a read ends the round it is in.
Rank == IF pc = "truncate" THEN 4 ELSE
        IF pc = "sgdisk"   THEN 3 ELSE
        IF pc = "read"     THEN IF n = 0 THEN 2 ELSE 4 ELSE
        IF pc = "emit"     THEN 3 ELSE
        IF pc = "sync"     THEN 1 ELSE 0

\* What is still to be read counts three times: no read moves the rank as far.
Left == 3 * (srcSize - pos) + Rank

StepsLeft == Left \in Nat
Advances  == Progress \/ Fault => Left' < Left

\* The source of the stream has a size from the start on.
LEMMA SourceIsFinite == ASSUME IInv PROVE srcSize \in Nat
<1>1. CASE pc \in {"truncate", "sgdisk"}
  <2>1. dir = "encrypt" /\ size \in 1 .. MaxImage /\ MaxImage \in Nat
    BY <1>1, Facts, Constants DEF StreamInv, Positive
  <2> QED BY <2>1 DEF srcSize
<1>2. CASE pc = "failed" /\ DiskBlank
  <2>1. dir = "encrypt" /\ size \in 1 .. MaxImage /\ MaxImage \in Nat
    BY <1>2, Facts, Constants DEF DiskBlank, Positive
  <2> QED BY <2>1 DEF srcSize
<1>3. CASE DiskMade
  BY <1>3, SourceSize
<1> QED BY <1>1, <1>2, <1>3, Facts DEF DiskInv

LEMMA LeftIsCount == IInv => StepsLeft
<1> SUFFICES ASSUME IInv PROVE Left \in Nat
  BY DEF StepsLeft
<1>1. Rank \in Nat
  BY DEF Rank
<1>2. srcSize \in Nat
  BY SourceIsFinite
<1>3. pos \in 0 .. srcSize
  BY Facts
<1> QED BY <1>1, <1>2, <1>3 DEF Left

LEMMA AdvancesStep == IInv /\ Next => Advances
<1> SUFFICES ASSUME IInv, Progress \/ Fault PROVE Left' < Left
  BY DEF Advances
<1>t. /\ srcSize \in Nat /\ pos \in Nat /\ n \in Nat /\ streamChunk \in Nat /\ pos <= srcSize
      /\ DiskInv /\ StreamInv
  BY SourceIsFinite, Facts
<1>1. ASSUME srcSize' = srcSize, pos' = pos, NEW t \in Nat, Rank' = t,
             NEW r \in Nat, Rank = r, t < r
      PROVE  Left' < Left
  <2> DEFINE c == 3 * (srcSize - pos)
  <2>1. Left' = c + t /\ Left = c + r
    BY <1>1 DEF Left
  <2>2. c \in Int
    BY <1>t
  <2> HIDE DEF c
  <2> QED BY <1>1, <2>1, <2>2
<1>2. ASSUME pc' = "failed", UNCHANGED <<size, diskSize, dir, pos>>,
             pc \in {"truncate", "sgdisk", "read", "emit", "sync"}
      PROVE  Left' < Left
  <2>1. srcSize' = srcSize
    BY <1>2 DEF srcSize, partSize
  <2>2. PICK r \in 1 .. 4 : Rank = r
    BY <1>2 DEF Rank
  <2>3. Rank' = 0
    BY <1>2 DEF Rank
  <2> QED BY <1>1, <1>2, <2>1, <2>2, <2>3
<1>3. CASE Truncate
  <2>1. pc = "truncate" /\ pc' = "sgdisk" /\ UNCHANGED <<size, dir, pos>>
    BY <1>3 DEF Truncate, stream
  <2>2. srcSize' = srcSize
    BY <1>t, <2>1 DEF srcSize, StreamInv
  <2>3. Rank = 4 /\ Rank' = 3
    BY <2>1 DEF Rank
  <2> QED BY <1>1, <2>1, <2>2, <2>3
<1>4. CASE Sgdisk
  <2>1. pc = "sgdisk" /\ pc' = "read" /\ UNCHANGED <<size, dir, pos, n>>
    BY <1>4 DEF Sgdisk, stream
  <2>2. srcSize' = srcSize /\ n = 0
    BY <1>t, <2>1 DEF srcSize, StreamInv
  <2>3. Rank = 3 /\ Rank' = 2
    BY <2>1, <2>2 DEF Rank
  <2> QED BY <1>1, <2>1, <2>2, <2>3
<1>5. CASE ReadSome
  <2>1. PICK k \in 1 .. streamChunk - n : n' = n + k /\ pos' = pos + k
    BY <1>5 DEF ReadSome
  <2>2. pc = "read" /\ pc' = "read" /\ UNCHANGED <<size, diskSize, dir>>
    BY <1>5 DEF ReadSome, files
  <2>3. srcSize' = srcSize
    BY <2>2 DEF srcSize, partSize
  <2>4. PICK r \in 2 .. 4 : Rank = r
    BY <2>2 DEF Rank
  <2>5. PICK t \in 2 .. 4 : Rank' = t
    BY <2>2 DEF Rank
  <2> DEFINE c == 3 * (srcSize - pos)
  <2>6. c \in Int /\ k \in Nat /\ k >= 1
    BY <1>t
  <2>7. 3 * (srcSize - (pos + k)) = c - 3 * k
    BY <1>t, <2>6
  <2>8. Left' = c - 3 * k + t /\ Left = c + r
    BY <2>1, <2>3, <2>4, <2>5, <2>7 DEF Left
  <2> HIDE DEF c
  <2> QED BY <2>6, <2>8
<1>6. CASE ReadEnds
  <2>1. /\ pc = "read" /\ UNCHANGED <<size, diskSize, dir, pos, n>>
        /\ pc' = IF n > 0 THEN "emit" ELSE IF SourceEnded THEN "sync" ELSE "failed"
    BY <1>6 DEF ReadEnds, files
  <2>2. srcSize' = srcSize
    BY <2>1 DEF srcSize, partSize
  <2>3. CASE n > 0
    <3>1. Rank = 4 /\ Rank' = 3
      BY <2>1, <2>3 DEF Rank
    <3> QED BY <1>1, <2>1, <2>2, <3>1
  <2>4. CASE n = 0
    <3>1. Rank = 2
      BY <2>1, <2>4 DEF Rank
    <3>2. PICK t \in 0 .. 1 : Rank' = t
      BY <2>1, <2>4 DEF Rank
    <3> QED BY <1>1, <2>1, <2>2, <3>1, <3>2
  <2> QED BY <1>t, <2>3, <2>4
<1>7. CASE WriteChunk
  <2>1. /\ pc = "emit" /\ n' = 0 /\ UNCHANGED <<size, diskSize, dir, pos>>
        /\ pc' = IF eof THEN "sync" ELSE "read"
    BY <1>7 DEF WriteChunk
  <2>2. srcSize' = srcSize
    BY <2>1 DEF srcSize, partSize
  <2>3. Rank = 3
    BY <2>1 DEF Rank
  <2>4. PICK t \in 1 .. 2 : Rank' = t
    BY <2>1 DEF Rank
  <2> QED BY <1>1, <2>1, <2>2, <2>3, <2>4
<1>8. CASE RefuseMisaligned
  BY <1>2, <1>8 DEF RefuseMisaligned, files, stream
<1>9. CASE Sync
  <2>1. /\ pc = "sync" /\ UNCHANGED <<size, diskSize, dir, pos>>
        /\ pc' \in {"published", "verified"}
    BY <1>9 DEF Sync, files, stream
  <2>2. srcSize' = srcSize
    BY <2>1 DEF srcSize, partSize
  <2>3. Rank = 1 /\ Rank' = 0
    BY <2>1 DEF Rank
  <2> QED BY <1>1, <2>1, <2>2, <2>3
<1>10. CASE ReadFails
  BY <1>2, <1>10 DEF ReadFails, files, stream
<1>11. CASE WriteFails
  <2>1. pc = "emit" /\ pc' = "failed" /\ UNCHANGED <<size, diskSize, dir, pos>>
    BY <1>11 DEF WriteFails
  <2> QED BY <1>2, <2>1
<1>12. CASE CallFails
  BY <1>2, <1>12 DEF CallFails, files, stream
<1> QED BY <1>3, <1>4, <1>5, <1>6, <1>7, <1>8, <1>9, <1>10, <1>11, <1>12
        DEF Progress, Fault, HandleChunk

\* No encryption or verification runs for ever, whatever short reads there
\* are: each of its steps, a failing one too, lowers a number that is at
\* most 3 * srcSize + 4.  Only a new verification raises it again.
THEOREM StreamAlwaysAdvances == Spec => []StepsLeft /\ [][Advances]_vars
<1>1. IInv => StepsLeft
  BY LeftIsCount
<1>2. IInv /\ [Next]_vars => [Advances]_vars
  BY AdvancesStep
<1> QED BY <1>1, <1>2, StreamSound, PTL DEF Spec
=============================================================================
