SPECIFICATION Spec
CONSTANTS
    kInitRetryDelayMs = 1
    kMaxRetryDelayMs = 2
    MaxQueue = 4
INVARIANT ChannelRemovedFirst
\* a client that is destructed has nothing more to do
CHECK_DEADLOCK FALSE
