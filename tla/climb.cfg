SPECIFICATION ClimbSpec
CONSTANTS
  Clients <- MCClients
  Noise <- MCNoise
  Params <- MCParams
CHECK_DEADLOCK FALSE
INVARIANT CapsProduceTheirRungs
INVARIANT RungsAreRenditions
 
