CONSTANTS
  GPRs = {6, 7}
  WordBits = 4
  check_unmentioned_callee_saved = FALSE
  max_findings_per_fde = 8
  report_coverage_gaps = TRUE
  kMaxJumpTableEntries = 3
  PathBound = 8
  FDEs <- FrameFDEs
SPECIFICATION Spec
INVARIANT PruningIsNotSilent
CHECK_DEADLOCK FALSE
