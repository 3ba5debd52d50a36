CONSTANTS
  GPRs = {6, 7}
  WordBits = 4
  check_unmentioned_callee_saved = FALSE
  max_findings_per_fde = 1
  report_coverage_gaps = TRUE
  kMaxJumpTableEntries = 3
  PathBound = 8
  FDEs <- FrameFDEs
SPECIFICATION Spec
INVARIANT MismatchIsReported
CHECK_DEADLOCK FALSE
