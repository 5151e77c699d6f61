SPECIFICATION FairSpec
CONSTANTS
    Tasks = {w1, w2}
    Messages = {m1, m2}
    Calls = {c1, c2}
    Asking = {c1}
    Outcomes = {"proceed", "edit", "editor", "cancel"}
    Settings <- TwoSettings
    MaxCancels = 1
    MaxRestarts = 1
    None = None
INVARIANTS TypeOK OneMainLoop NoLostWakeup
PROPERTIES DeadStays EveryMessageEnds
CHECK_DEADLOCK FALSE
