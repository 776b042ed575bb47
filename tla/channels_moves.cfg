SPECIFICATION FairSpec
CONSTANTS
  None = None
  Asks <- FewAsks
  Airs <- FewAirs
  Sweeps = {"free", "knocks", "hung"}
  Overlap = FALSE
  ConfigChannel = 149
  ConfigWidth = 80
  Refusable = {"channel"}
  Csa = {"follows", "refuses"}
  Kinds = {"move", "restart", "refuse", "disable", "save", "crash", "scan", "poll"}
  Budget = 3
  RestoreBudget = 3
INVARIANT EnablesWhatItSet
INVARIANT RestoresOnlyDrift
 
INVARIANT RememberedWasServed
INVARIANT AppliesTheQuiet
INVARIANT PollDropsOnce
PROPERTY EndsSettled
CHECK_DEADLOCK FALSE
