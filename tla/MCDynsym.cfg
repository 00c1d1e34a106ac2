SPECIFICATION Spec
CONSTANTS
    Inputs <- MCInputs
    Demangle <- MCDemangle
    NfaMin = 2
    WordBits = 3
INVARIANTS
    VersionsFollowScript
    DynamicBindingIsSound
    LoaderFindsExports
