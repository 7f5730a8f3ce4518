SPECIFICATION QueueFairSpec
CONSTANTS
    w1 = w1
    w2 = w2
    Tasks = 3
    Worker = {w1}
    MaxPid = 3
    MaxTrouble = 1
CHECK_DEADLOCK FALSE
INVARIANTS
    QueueTypeOK
    OneRebuild
PROPERTIES
    InTurn
    QueueMoves
