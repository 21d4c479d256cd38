SPECIFICATION FairSpec
CONSTANTS
    Tasks = {t1, t2, t3}
    Delays <- MCDelays
    MaxTime = 5
    t1 = t1
    t2 = t2
    t3 = t3
INVARIANTS OversleepsOnce
PROPERTIES EveryTaskRuns DestructorReturns
CHECK_DEADLOCK FALSE
