SPECIFICATION FairSpec
CONSTANTS
  None = None
  Ring = 3
  Limit = 2
  Backlog = 2
  Overtaking = FALSE
  Workloads <- MCWorkloads
 
PROPERTY BridgeCatchesUp
PROPERTY EventsCatchUp
