CONSTANTS
    TaskIds = {k1, k2}
    Threads = {t1, t2, t3}
    RunningCap = 1
    QueuedCap = 1
    NoTask = NoTask
    NoThread = NoThread
SPECIFICATION FairSpec
INVARIANTS TypeOK OneTurnOneDoor CapsHold KillComesFirst
PROPERTIES KeepsTaskLife TurnLockFreed
