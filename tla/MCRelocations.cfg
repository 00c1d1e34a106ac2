SPECIFICATION Spec
CONSTANTS
  Targets = {"x86_64", "i386", "arm64", "arm32", "rv64", "rv32", "la64", "la32", "ppc32", "ppc64v1", "ppc64v2",
             "s390x", "sparc64", "m68k", "sh4"}
  Options <- MCOptions
  Symbols <- MCSymbols
INVARIANTS
  PiecesAgree
  SlotsExist
  AddressKnown
  PositionIndependent
  DynrelsCounted
  PointersAgree
  PltReachesFunction
