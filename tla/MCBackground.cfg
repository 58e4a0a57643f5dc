CONSTANTS
  Starts = {s1, s2}
  MaxStarts = 3
  MaxSaves = 2
  Channels = {c1, c2}
  Refreshes = {r1, r2}
  Workers = 1
  Window = 2
  MaxVideos = 3
  MaxRefreshes = 2
  MaxFaults = 1
  MaxEdits = 1
  MaxNews = 2
  Calls = {x1, x2}
  Versions = {"v1", "v2"}
  Components = {"ytdlp", "js"}
  Contents = {"a", "b"}
  MaxCalls = 5
  MaxDamage = 1
  Packages <- MCPackages
  None = None
  Absent = Absent
SPECIFICATION Spec
SYMMETRY Symmetry
INVARIANTS ServedIsPruned SavedDataStands NoVideoSkipped FailuresStayLocal  ActivationIsUsable
CHECK_DEADLOCK FALSE
