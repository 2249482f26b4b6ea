SPECIFICATION Spec
CONSTANTS
    u1 = u1
    Runs = {u1, u2, u3}
    Pools = {1, 2, 3, 4}
    NoRun = NoRun
    NoPool = NoPool
    Tables = {t1}
    Altered = {t1}
    Selections = {{}}
    PoolSize = 1
    Tasks <- DescribeAndQuery
    Faulty = {u1}
    MaxDimensions = 1
INVARIANTS FailureHasACause PoolsAreCleanedUp AnswersComplete
PROPERTY EveryCallEnds
