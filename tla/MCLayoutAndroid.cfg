SPECIFICATION Spec
CONSTANTS
  PageSize = 4
  PhdrEntry = 1
  ShdrEntry = 1
  NameOrder <- MCNameOrder
  BranchDistance = 64
  SafetyMargin = 2
  BatchSize = 16
  MaxThunkSize = 8
  ThunkAlign = 2
  ThunkHdrSize = 0
  ThunkSize = 2
  ThunkSmallSize = 1
  NearDistance = 24
  GroupSize = 3
  RelaxDistance = 16
  RelaxBytes = 2
  LebBits = 3
  Deadbeef = 3735
  TpWords = 2
  TpBias = 7
  DtpBias = 8
  Compressed = {1, 3}
  ExidxEntry = 2
  Links <- FinalLinks
INVARIANT
  AddressesAreFinal
