CONSTANTS
  Videos = {v1, v2}
  Channels = {c1}
  MaxLoads = 3
  None = None
  MaxEntries = 1
  NativeHLS = FALSE
  MSE = TRUE
  MaxGen = 2
SPECIFICATION Spec
PROPERTY PrefetchKeepsPlayback
CHECK_DEADLOCK FALSE
