SPECIFICATION Spec
CONSTANTS
  LAST = 2
  MAIN = 3
  ISR = 2
  TRAPS = 2
  Ops = {"load", "store", "mmio", "shared", "sc", "park"}
  IsrOps = {"store", "mmio", "shared", "sc", "redirect", "ignite"}
  Faults = {"value", "store", "lost", "resume"}
INVARIANTS TypeOK Agreement HealthyMatches FaultCaught RefTracks
