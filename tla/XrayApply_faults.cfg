CONSTANTS
  p1 = p1
  p2 = p2
  Ports <- TwoPorts
  Sold <- OneSold
  Routes = {"direct", "ai"}
  Modes = {"ssh", "docker"}
  Faults = {"step", "bootStep", "pull", "restore", "undo", "crash", "node", "outage"}
  MaxFaults = 2
  MaxOps = 1
  MaxEnv = 2
SPECIFICATION Spec
INVARIANTS TypeOK ServesDatabase LoadedOrMarked
PROPERTIES CommitsWhatRuns AppliesAtomically
