SPECIFICATION FairSpec
CONSTANTS
    Alters = 2
    Table <- SameTable
    Natives = 2
    Worker = {w1}
    MaxPid = 3
    Views = {"enable", "start", "cancel", "rollback", "abort"}
    Faults = {}
ACTION_CONSTRAINT EnableOnce
ACTION_CONSTRAINT FirstStarted
INVARIANT NoFalseFinish
INVARIANT FailedIsStopped
PROPERTY EveryRunEnds
CHECK_DEADLOCK FALSE
