SPECIFICATION Spec
CONSTANTS
    Callers = {c1, c2}
    EventCap = 2
    MaxPlays = 2
    MaxGenerations = 3
INVARIANTS StoppedStaysStopped LoadsAreAnnouncedInOrder
PROPERTY CallsReturn
CHECK_DEADLOCK FALSE
