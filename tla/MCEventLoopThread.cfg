SPECIFICATION FairSpec
CONSTANT Functors = {f1, f2}
INVARIANTS
    PublishedLoopLives
    StartLoopReturnsLoop
    NoLoopLeftRunning
PROPERTIES
    StartLoopReturns
    
\* an owner whose EventLoopThread is destroyed, or whose thread could not be
\* created, does nothing more
CHECK_DEADLOCK FALSE
