CONSTANTS
    SectorSize = 4
    GPTSectorSize = 2
    ChunkSectors = 2
    StartSector = 3
    TrailingSectors = 2
    TableSectors = 2
    MaxImage = 26
    Zero = Zero
    Gpt = Gpt
    Garbage = Garbage
    Plain = Plain
SPECIFICATION Spec
INVARIANTS TypeOK OnlyVolumeEmitted TablesIntact ConsumerDecrypts VerifyRecovers FailsForAReason
PROPERTIES StreamEnds
