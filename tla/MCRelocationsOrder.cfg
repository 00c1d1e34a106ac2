SPECIFICATION Spec
CONSTANTS
  Targets = {"x86_64"}
  Options <- MCOptions
  Symbols <- MCSymbols
INVARIANT DeterministicKinds
