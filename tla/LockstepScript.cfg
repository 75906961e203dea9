CONSTANTS
  LAST = 2
  MAIN = 3
  ISR = 1
  TRAPS = 2
  Ops = {"load", "park"}
  IsrOps = {"ignite"}
  Faults = {}
SPECIFICATION Spec
INVARIANT ScriptWellFormed
