CONSTANTS
    t1 = t1
    t2 = t2
    t3 = t3
    t4 = t4
    posix = posix
    dummy = dummy
    User = User
    Free = Free
    Tasks <- MCTasks
    Backends <- MCBackends
    BackendOf <- MCBackendOf
    Threads <- MCThreads
SPECIFICATION FairSpec
INVARIANTS
    PendingOpsExact
    NoUseAfterFinalize
    NoLostWakeup
    ErrorReported
PROPERTIES
    RequestReturns
