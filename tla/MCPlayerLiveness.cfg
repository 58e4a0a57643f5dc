CONSTANTS
  Videos = {v1, v2}
  Channels = {c1}
  MaxLoads = 2
  None = None
  MaxEntries = 1
  NativeHLS = FALSE
  MSE = FALSE
  MaxGen = 3
SPECIFICATION Spec
PROPERTY LoadSettles
CHECK_DEADLOCK FALSE
