SPECIFICATION FairSpec
CONSTANTS
    k1 = k1
    k2 = k2
    w1 = w1
    w2 = w2
    Keys <- MCKeys
    Workers <- MCWorkers
    CallerDelays = {2}
    LimiterDelays = {1, 3}
    MaxTries = 2
    NoKey = NoKey
    NoWorker = NoWorker
    NoItem = NoItem
    MaxEnqueues = 2
    MaxTime = 3
INVARIANT NoLostWakeup
PROPERTY ImplementsDirtySet
PROPERTY DirtyKeysRun
PROPERTY RunReturns
CHECK_DEADLOCK FALSE
