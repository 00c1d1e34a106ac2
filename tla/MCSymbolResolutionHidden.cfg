SPECIFICATION Spec
CONSTANTS
    Inputs <- HiddenInputs
    Names <- MCNames
    None = "none"
INVARIANT
    HiddenIsInside
