SPECIFICATION FairSpec
CONSTANTS
    Functors = {f1, f2, f3}
    Threads = {t1, t2}
INVARIANTS
    NoLostWakeup
    QuitWakesPoll
PROPERTIES
    FifoExactlyOnce
    QueuedFunctorRuns
    QuitStopsLoop
