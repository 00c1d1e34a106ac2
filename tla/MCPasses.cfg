SPECIFICATION PassesSpec
CONSTANTS
    None = "none"
    Inputs <- PassesInputs
    Names <- PassesNames
    Program <- MCProgram
    Sections <- MCSections
    FileOf <- MCFileOf
    GroupOf <- MCGroupOf
    SecOf <- MCSecOf
    RefSyms <- MCRefSyms
    Frags = {"f1", "f2", "f3"}
    Dsos = {"d1", "d2", "d3"}
    Alloc <- MCAlloc
    InitAlive <- MCAlive
    ShouldKeep = {"foo1"}
    Name <- MCName
    Rels <- MCRels
    RootSyms <- MCRootSyms
    CieRefs <- MCCieRefs
    NeededDsos = {"d3"}
    MaxDepth = 1
    LiveSections <- MCLive
    Secs <- MCSecs
    Priority <- MCPriority
    NumSlots = 16
    RoundLimit = 3
    Hashes <- MCHashes
    Kind <- MCKind
    AddressTaken = {"main"}
    IcfAll = FALSE
    IgnoreDataAddressEquality = FALSE
    Body <- MCBody
    IcfRefs <- MCIcfRefs
    SymSec <- MCSymSec
    Imported = {"memcpy", "bar"}
    Value <- MCValue
    Align <- MCAlign
    Batch = 1
    Workers = 2
INVARIANTS
    SymbolsAreResolved
    ReachableIsClosed
    OneCopyPerGroup
    KeepsExactlyReachable
    KeepsExactlyReferenced
    LeadersAreRight
    FoldsExactlyEqualTrees
    OutputIsClosed
PROPERTY
    PassesEnd
