SPECIFICATION Spec
CONSTANTS
  Profiles = {p1, p2}
  Default = p1
  Videos = {v1, v2}
  MaxQueueItems = 2
  MaxItems = 3
  MaxCommands = 3
  MaxStored = 2
  MaxCalls = 2
  None = None
INVARIANT QueueIsTotallyOrdered
PROPERTY OrderIsTheUsers
PROPERTY PlaybackEnds
