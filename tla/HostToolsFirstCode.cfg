SPECIFICATION HostSpec
CONSTANTS
    Invocations = {i1}
    Commands <- MCCommands
    Tool <- MCTool
    Parts <- MCParts
    Extends <- MCExtends
    Checkers <- MCCheckers
    Policies <- MCPolicies
    ActionsOf <- MCActionsOf
    Assessments <- MCAssessments
    None = None
    SessionNames = {n1}
    Shells = {s1, s2}
    Executions = {e1, e2}
    NoShell = NoShell
    ProcessNames = {n1}
    Processes = {p1, p2, p3}
    Operations = {o1, o2, o3}
    NoProcess = NoProcess
    Appends = {a1, a2, a3}
    Serialized = FALSE
    MaxCrashes = 1
INVARIANT CodeIsRun
CHECK_DEADLOCK FALSE
