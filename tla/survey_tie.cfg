SPECIFICATION Spec
CONSTANTS
  Primaries = {149, 161}
  Loads = {1, 128}
  Faint = {40, 90}
  MaxStanzas = 2
INVARIANT QuietestWins
CHECK_DEADLOCK FALSE
