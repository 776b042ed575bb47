SPECIFICATION FairSpec
CONSTANTS
  NoRadio = NoRadio
  NoOp = NoOp
  NoZone = NoZone
  NoClient = NoClient
  Clients = {c1, c2}
  Radios = {r1, r2}
  Primary = r1
  Ops = {o1}
  Zones = {z1}
  Kinds = {"gather"}
  Serial = TRUE
  MaxFaults = 1
  MaxRestarts = 0
PROPERTY EveryClaimEnds
