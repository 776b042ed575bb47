SPECIFICATION FairSpec
CONSTANTS
  Outages = {o1}
  Cuts = {c1}
  Kinds = {"power", "ap", "outage", "cut", "hotplug", "crash"}
  Budget = 5
INVARIANTS DarkIsAskedFor  APOffStays
 
CHECK_DEADLOCK FALSE
