SPECIFICATION Spec
CONSTANTS
    Callers <- MCSections
    Keys <- MCKeys
    NumShards = 2
    ShardSize = 4
    MaxRetry = 4
    Hash <- MCHash
    NoKey = NoKey
    Claimed = Claimed
    Inputs <- DwarfMerged
INVARIANT
    Dwarf32First
