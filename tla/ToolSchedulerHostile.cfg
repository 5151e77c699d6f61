SPECIFICATION Spec
CONSTANTS
    r1 = r1
    r2 = r2
    r3 = r3
    call1 = call1
    call2 = call2
    call3 = call3
    None = None
    Requests = {r1, r2, r3}
    CallsOf <- OneEach
    Calls = {call1, call2, call3}
    Answers = {"pin"}
    Outcomes = {"inline", "cancel"}
    Faults = {"rebuild"}
    CancelModes = {"cancelAll"}
    Overlap = TRUE
    Stale = TRUE
    Hooks = TRUE
    MaxResponses = 1
INVARIANTS
    ApprovalGate
    RejectedUntouched
    IInv
PROPERTIES
    FinalIsFinal
SYMMETRY Exchanges
CHECK_DEADLOCK FALSE
