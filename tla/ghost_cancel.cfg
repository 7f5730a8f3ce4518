SPECIFICATION Spec
CONSTANTS
    Alters = 1
    Table <- OneTable
    Natives = 0
    Worker = {w1}
    MaxPid = 1
    Views = {"enable", "start", "cancel"}
    Faults = {}
ACTION_CONSTRAINT EnableOnce
PROPERTY CancelStands
CHECK_DEADLOCK FALSE
