\* The second machine, on programs that compare an entry of a table before they jump.
CONSTANTS
  GPRs = {0, 2, 6, 7}
  WordBits = 8
  check_unmentioned_callee_saved = FALSE
  max_findings_per_fde = 8
  Menu <- MCMenu
  Rows <- MCRows
  Bytes <- MCBytes
  StepBound = 4
  GuardMenu <- MCGuardMenu
  Words <- MCWords
  GuardBound = 5
SPECIFICATION NestedSpec
INVARIANTS
  ResolvedJumpStaysInTable
\* A program is as long as its bound.
CHECK_DEADLOCK FALSE
