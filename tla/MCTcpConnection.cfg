SPECIFICATION FairSpec
CONSTANTS
    LoopOps = {"send", "sendBytes", "shutdown", "forceClose", "startRead", "stopRead"}
    UserOps = {"send", "sendBytes", "shutdown", "forceClose", "startRead"}
    MaxOut = 2
    MaxQueue = 2
    MaxDowns = 2
INVARIANTS
    AssertsHold
    DestroyedClean
    DownOnce
    OutputWatched
PROPERTIES
    ShutdownAfterOutput
    PeerCloseRemoves
\* a connection that was removed has no more steps, a failed assert stops all
CHECK_DEADLOCK FALSE
