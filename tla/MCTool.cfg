CONSTANTS
  Machines = {"driver", "report", "inspect", "sweep"}
  Invocations <- AllInvocations
  PipeCapacity = 2
  Reports <- MCReports
  kBatchSize = 2
  Sizes = {1, 2, 5}
  N = 4
  jobs = 2
  Statuses <- MCStatuses
SPECIFICATION MCSpec
INVARIANTS
  ZeroMeansAllBlessed
  OverlapsDecideTheExit
  UncoveredIsExact
  LinesBelongToAddresses
  ListingIsWhole
  InspectSettles
  ReportSettles
  AtMostJobs
  
PROPERTIES
  ToolExits
  ReportFinishes
  InspectFinishes
  SweepFinishes
  SweepIsPool
CHECK_DEADLOCK FALSE
