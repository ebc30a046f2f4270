SPECIFICATION FairSpec
CONSTANTS
    MaxThreads = 2
    Starters = {base, other}
    BaseThread = base
    Descriptors = 3
    MaxClients = 4
    MaxOthers = 1
    MaxAsked = 1
INVARIANTS
    OwnedUntilDestroyed
    DealtEvenly
    IdleFdBack
PROPERTIES
    BacklogDrains
\* when no client comes nothing more need happen
CHECK_DEADLOCK FALSE
