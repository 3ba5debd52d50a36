CONSTANTS
  Machines = {"driver"}
  Invocations <- WholeInvocations
  PipeCapacity = 2
  Reports = {}
  kBatchSize = 2
  Sizes = {}
  N = 4
  jobs = 2
  Statuses <- MCStatuses
SPECIFICATION MCSpec
INVARIANT
  ZeroMeansWholeSection
CHECK_DEADLOCK FALSE
