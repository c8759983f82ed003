SPECIFICATION Spec
CONSTANTS
    Users = {1, 2}
    Runners = {r, s}
    None = none
    MaxLaunches = 2
    MaxEvents = 3
    MaxFaults = 1
INVARIANT
    ServerInv
PROPERTIES
    StopStops
    StopReturns
CHECK_DEADLOCK FALSE
