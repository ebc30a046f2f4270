SPECIFICATION FairSpec
CONSTANTS
    LoopOps = {"start", "stop", "restart"}
    UserOps = {"start", "stop"}
    kInitRetryDelayMs = 2
    kMaxRetryDelayMs = 5
    MaxStarts = 3
    MaxQueue = 3
INVARIANTS
    OneAttempt
    SocketsAccounted
    AttemptComing
PROPERTY StopSettles
\* a connector that is stopped or connected has nothing more to do
CHECK_DEADLOCK FALSE
