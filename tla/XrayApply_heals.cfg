CONSTANTS
  p1 = p1
  p2 = p2
  Ports <- TwoPorts
  Sold <- NoneSold
  Routes = {"direct", "ai"}
  Modes = {"ssh"}
  Faults = {"step", "bootStep", "pull", "crash", "node"}
  MaxFaults = 1
  MaxOps = 2
  MaxEnv = 2
SPECIFICATION FairSpec
PROPERTIES Heals BootRepairs
