SPECIFICATION FairSpec
CONSTANTS
    Callers <- MCSections
    Keys <- MCKeys
    NumShards = 2
    ShardSize = 4
    MaxRetry = 4
    Hash <- MCHash
    NoKey = NoKey
    Claimed = Claimed
    Inputs <- MCMerged
INVARIANTS
    UniqueKeys
    ReturnsConstructedEntry
    AbortOnlyWhenFull
    DeterministicOrder
    AlignedForEverySection
    NoOverlapInClass
    EveryPieceWritten
    NoStaleBytes
PROPERTIES
    ImplementsInternTable
    InsertTerminates
