SPECIFICATION FairSpec
CONSTANTS
    r1 = r1
    r2 = r2
    r3 = r3
    call1 = call1
    call2 = call2
    call3 = call3
    None = None
    Requests = {r1, r2}
    CallsOf <- TwoAndOne
    Calls = {call1, call2, call3}
    Answers = {"none", "confirm", "throw"}
    Outcomes = {"proceed", "editor", "cancel"}
    Faults = {"build", "tool", "onConfirm", "editor"}
    CancelModes = {"abort"}
    Overlap = FALSE
    Stale = FALSE
    Hooks = FALSE
    MaxResponses = 2
INVARIANTS
    OneToolRuns
    ReportedOnce
    NothingLeftBehind
    RunsOnce
    RunsGrantedArgs
    OutcomeAudited
PROPERTIES
    EveryRequestReported
    ClientPromise
CHECK_DEADLOCK FALSE
