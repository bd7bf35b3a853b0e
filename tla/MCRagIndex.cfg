SPECIFICATION IndexSpec
CONSTANTS
    q0 = q0
    Files <- ThreeFiles
    Documented <- NamesOf
    Texts <- OneText
    Readmes <- TwoReadmes
    BatchSize = 2
    NResults = 2
    Readers <- OneReader
INVARIANTS IndexIsFaithful ReadmeIsCovered QuietReadsAreWhole
