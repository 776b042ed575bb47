SPECIFICATION FairSpec
CONSTANTS
  r1 = r1
  r2 = r2
  None = None
  Lan = Lan
  Clients = {c1}
  Ports <- MCPorts
  MaxRequests = 2
  Doings <- MCDoings
  BtmWait = 2
  AskGrace = 1
  PresenceGrace = 1
  MaxSockets = 2
  MaxInbox = 1
  Torn = FALSE
PROPERTY EveryRequestEnds
 
PROPERTY GoneIsUnlisted
PROPERTY StayerIsListed
CHECK_DEADLOCK FALSE
