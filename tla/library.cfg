SPECIFICATION Spec
CONSTANTS
  MaxKeys = 12
  MaxAt = 36000
  Half = 50
  MinRadioOff = 100
  MinAPDown = 50
  MaxMove = 30000
  Names <- MCNames
  Adapter = "box"
  BuiltinNames <- MCBuiltins
  Ladders <- MCLadders
  Authored <- MCAuthored
  Radio <- MCRadio
  Documents <- MCDocuments
  OldFile <- MCOldFile
  Stretches <- MCStretches
  Dwell = 100
  RadioOrder <- MCRadioOrder
  NoPattern = NoPattern
  NoLadder = NoLadder
  MaxFailures = 1
  MaxRequests = 3
 
INVARIANT AccountedFor
INVARIANT LanesStayApart
CHECK_DEADLOCK FALSE
