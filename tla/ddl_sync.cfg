SPECIFICATION SyncSpec
CONSTANTS
    s1 = s1
    s2 = s2
    a1 = a1
    a2 = a2
    Saver = {s1}
    Alter = {a1, a2}
    MaxMirror = 2
    MaxTrouble = 1
CONSTRAINT SecondPlain
CHECK_DEADLOCK FALSE
INVARIANTS
    SyncTypeOK
    SyncedIsApplied
    NoOrphan
    HistoryAgrees
PROPERTIES
    RowsFinal
