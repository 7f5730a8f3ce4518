SPECIFICATION Spec
CONSTANTS
    Alters = 2
    Table <- SameTable
    Natives = 0
    Worker = {w1, w2}
    MaxPid = 2
    Views = {"enable", "start", "retry", "adminRetry", "adminCancel"}
    Faults = {"restart", "pollerError"}
SYMMETRY Workers
ACTION_CONSTRAINT EnableOnce
ACTION_CONSTRAINT Linked
ACTION_CONSTRAINT OneRepair
INVARIANT GhostTypeOK
INVARIANT SuccessIsApplied
INVARIANT ChainOrder
CHECK_DEADLOCK FALSE
