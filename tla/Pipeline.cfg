SPECIFICATION SearchSpec
CONSTANTS
    NamePart <- MCNamePart
    Descriptor <- MCDescriptor
    Known <- MCKnown
    NameLimit = 3
    Worker = {w1, w2}
    TaskId = {t1, t2}
    NoReq = NoReq
    NoTask = NoTask
    MaxFaults = 1
INVARIANTS SuccessfulAddIsThere CopiesBounded FindsWhatWasAdded
PROPERTIES DeleteClears ImplementsTaskBackend EveryTaskReported
CHECK_DEADLOCK FALSE
