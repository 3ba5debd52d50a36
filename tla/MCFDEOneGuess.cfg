CONSTANTS
  GPRs = {0, 1, 2, 6, 7}
  WordBits = 4
  check_unmentioned_callee_saved = FALSE
  max_findings_per_fde = 8
  report_coverage_gaps = TRUE
  kMaxJumpTableEntries = 3
  PathBound = 8
  FDEs <- SwitchFDEs
SPECIFICATION Spec
INVARIANT LightMeansOneGuess
CHECK_DEADLOCK FALSE
