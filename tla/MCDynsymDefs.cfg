SPECIFICATION Spec
CONSTANTS
    Inputs <- DefsLinks
    Demangle <- MCDemangle
    NfaMin = 2
    WordBits = 3
INVARIANT
    UndefinedIsReported
