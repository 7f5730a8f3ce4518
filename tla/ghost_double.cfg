SPECIFICATION Spec
CONSTANTS
    Alters = 1
    Table <- OneTable
    Natives = 0
    Worker = {w1}
    MaxPid = 3
    Views = {"enable", "start", "cancel", "retry"}
    Faults = {}
ACTION_CONSTRAINT EnableOnce
INVARIANT NoDoubleRun
CHECK_DEADLOCK FALSE
