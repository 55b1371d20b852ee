CONSTANTS
    WordBase = 16
    LeafSize = 2
    LeavesPerSector = 2
    SeedWords = {0, 1, 7, 15}
SPECIFICATION Spec
INVARIANT SegmentMatchesChallenge
INVARIANT ProofSectorInFile
