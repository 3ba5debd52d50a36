CONSTANTS
  Machines = {"frames"}
  GPRs = {6, 7}
  WordBits = 4
  PCLimit = 6
  Ranges <- MCRanges
  Deltas <- MCDeltas
  CFAOffsets = {8, 16}
  RuleRegs = {6, 17}
  RegRules <- MCRegRules
  kMaxRemembered = 2
  OpBound = 5
  Width <- MCWidth
  bias = 1048576
  LSDABase = 200
  FrameBase = 260
  Writings <- AbsoluteWritings
  Files <- MCFiles
  PageSize = 4
  SpanLimit = 48
SPECIFICATION MCSpec
INVARIANT
  LSDAIsResolved
CHECK_DEADLOCK FALSE
