CONSTANTS
  p1 = p1
  p2 = p2
  Ports <- TwoPorts
  Sold <- OneSold
  Routes = {"direct", "ai"}
  Modes = {"ssh"}
  Faults = {"outage"}
  MaxFaults = 1
  MaxOps = 0
  MaxEnv = 1
SPECIFICATION FairSpec
PROPERTY DueIsCutOff
