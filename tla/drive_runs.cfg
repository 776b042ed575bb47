SPECIFICATION Spec
CONSTANTS
  d1 = d1
  d2 = d2
  Box = Box
  h1 = h1
  h2 = h2
  None = None
  NoRun = NoRun
  Devices = {d1, d2}
  Handlers = {h1, h2}
  Bindings <- MCBindings
  Library <- MCLibrary
  Groups <- MCGroups
  NoGroup = 0
  Stored <- MCLibrary
  Authored <- MCAuthored
  Workloads <- MCWorkloads
  Gap = 1
  MaxKeys = 3
  MaxSec = 3
  MaxClock = 3
  MaxReqs = 3
  MaxLevels = 2
INVARIANT Lockstep
INVARIANT OncePerPass
INVARIANT AppliesBeforeReply
INVARIANT SweepKeepsItsOwn
PROPERTY PlayerSpec
CHECK_DEADLOCK FALSE
SYMMETRY Alike
