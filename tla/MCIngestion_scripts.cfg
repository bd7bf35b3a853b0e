SPECIFICATION Spec
CONSTANTS
    ChunkSize = 1
    MaxId <- MCMaxId
INVARIANTS
    RestoreIsWhole
    ClosedFilesAreAccepted
    NextKeyIsFree
    ExtractIsFaithful
