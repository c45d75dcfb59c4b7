SPECIFICATION Spec
CONSTANTS
  Layers = 3
  Chunks = 2
  MaxPids = 7
INVARIANTS RestartsWhatDied
CHECK_DEADLOCK FALSE
