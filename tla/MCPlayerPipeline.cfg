CONSTANTS
  Videos = {v1, v2, v3}
  Channels = {c1}
  MaxLoads = 3
  None = None
  MaxEntries = 1
  NativeHLS = TRUE
  MSE = TRUE
  MaxGen = 3
SPECIFICATION Spec
SYMMETRY VideoSymmetry
INVARIANTS ShownPlanIsRequested ElementFollowsStore
CHECK_DEADLOCK FALSE
