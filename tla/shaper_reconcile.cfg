SPECIFICATION Spec
CONSTANTS
  Keys = {1, 2}
  Ports = {"wlan", "lan"}
  Wan = "wan"
  Addrs = {"a", "b"}
  Shapes = {"clean", "low", "high"}
  Clean = "clean"
  LowCaps = {"low"}
  NoPort = "none"
  NoAddr = "noaddr"
  Unwanted = Unwanted
  Asks <- MCAsks
  Pluggable = {"lan"}
  Stubborn = {"wlan"}
  OffElsewhere = {"lan"}
  FirstMinor = 16
  MaxMinor = 18
  Unnoticed = FALSE
  Patience = 1
  MaxTroubles = 1
INVARIANTS Reconciled ClassHasRecord QueueFitsPort GroGivenBack
CHECK_DEADLOCK FALSE
