CONSTANTS
    TaskIds = {k1, k2}
    Threads = {t1, t2}
    RunningCap = 1
    QueuedCap = 1
    NoTask = NoTask
    NoThread = NoThread
SPECIFICATION Spec
INVARIANT KilledTurnIsStopped
