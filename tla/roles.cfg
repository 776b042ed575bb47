SPECIFICATION FairSpec
CONSTANTS
  NoRadio = NoRadio
  Radios = {a, b}
  Onboard = {}
  Recorded = {a}
  Requests = {q1}
  MaxAsks = 3
  MaxFaults = 1
  MaxBreaks = 1
 
INVARIANT ConfigsAgree
 
CHECK_DEADLOCK FALSE
