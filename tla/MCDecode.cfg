CONSTANTS
  Machines = {"table", "frames", "elf"}
  GPRs = {6, 7}
  WordBits = 4
  PCLimit = 6
  Ranges <- MCRanges
  Deltas <- MCDeltas
  CFAOffsets = {8, 16}
  RuleRegs = {6, 17}
  RegRules <- MCRegRules
  kMaxRemembered = 2
  OpBound = 5
  Width <- MCWidth
  bias = 1048576
  LSDABase = 200
  FrameBase = 260
  Writings <- AllWritings
  Files <- MCFiles
  PageSize = 4
  SpanLimit = 48
SPECIFICATION MCSpec
INVARIANTS
  RowsSorted
  TableIsDeclared
  UndamagedIsRead
  CallSitesAreWritten
  BytesAtIsTheFile
  EhFrameIsFound
CHECK_DEADLOCK FALSE
