SPECIFICATION Spec
CONSTANTS
    r1 = r1
    r2 = r2
    r3 = r3
    call1 = call1
    call2 = call2
    call3 = call3
    None = None
    Requests = {r1, r2}
    CallsOf <- TwoAndOne
    Calls = {call1, call2, call3}
    Answers = {"none", "confirm", "throw"}
    Outcomes = {"proceed", "cancel"}
    Faults = {"build", "tool", "onConfirm", "report"}
    CancelModes = {"cancelAll"}
    Overlap = FALSE
    Stale = TRUE
    Hooks = FALSE
    MaxResponses = 1
INVARIANTS
    TypeOK
    BatchOfOneRequest
    RunsUnderOwnSignal
CHECK_DEADLOCK FALSE
