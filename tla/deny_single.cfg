SPECIFICATION Spec
CONSTANTS
  NoRadio = NoRadio
  NoOp = NoOp
  NoZone = NoZone
  NoClient = NoClient
  Clients = {c1}
  Radios = {r1, r2}
  Primary = r1
  Ops = {o1, o2}
  Zones = {z1}
  Kinds = {"gather", "steer", "evict", "gatherClient", "evictClient"}
  Serial = TRUE
  MaxFaults = 0
  MaxRestarts = 1
INVARIANT EntryOwned
INVARIANT NoLastingLockout
 
SYMMETRY ThreadSymmetry
