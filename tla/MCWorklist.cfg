CONSTANTS
  GPRs = {6, 7}
  WordBits = 2
  PCs <- MCPCs
  FDEs <- MCFDEs
  Edges <- MCEdges
  Seeds <- MCSeeds
  max_iterations <- MCCap
SPECIFICATION FairSpec
INVARIANTS
  PendingIsQueued
  Settled
  FixedPoint
PROPERTIES
  InStatesDescend
  Converges
CHECK_DEADLOCK FALSE
