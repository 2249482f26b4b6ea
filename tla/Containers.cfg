SPECIFICATION Spec
CONSTANTS
    Skills = TRUE
    MaxOps = 2
    MaxFaults = 1
INVARIANT StatusConsistent
PROPERTIES EventuallyRunning StatusSettles
CHECK_DEADLOCK FALSE
