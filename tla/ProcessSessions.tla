-------------------------- MODULE ProcessSessions --------------------------
(***************************************************************************)
(* The process manager tool (tools/process-manager.ts): named background   *)
(* processes that are started, signalled, stopped and restarted.  A         *)
(* session is listed before its process exists; it stays listed when the    *)
(* process has ended.                                                       *)
(***************************************************************************)
EXTENDS FiniteSets

CONSTANTS
    ProcessNames,
    Processes,       \* session objects, each with its process
    Operations,      \* calls of the tool that await something
    NoProcess

ASSUME ProcessAssumption == NoProcess \notin Processes

VARIABLES
    listed,      \* [ProcessNames -> the listed session, or NoProcess]
    process,     \* the session objects
    operation,   \* the calls
    serial       \* whether the client makes one call at a time; never changes

processVars == <<listed, process, operation, serial>>

(* state: "starting" while execute is awaited, "ended" once the result is      *)
(* known; pid: whether it is known, which it is not when the spawn failed.     *)
ProcessObject == [state : {"unused", "starting", "running", "ended"},
                  name : ProcessNames, pid : BOOLEAN, aborted : BOOLEAN]
Operation == [pc : {"new", "starting", "stopping", "done"},
              on : Processes \cup {NoProcess}]

ProcessTypeOK ==
    /\ listed \in [ProcessNames -> Processes \cup {NoProcess}]
    /\ process \in [Processes -> ProcessObject]
    /\ operation \in [Operations -> Operation]
    /\ serial \in BOOLEAN

ProcessInit ==
    /\ listed = [n \in ProcessNames |-> NoProcess]
    /\ process \in [Processes -> {[state |-> "unused", name |-> n, pid |-> FALSE,
                                   aborted |-> FALSE] : n \in ProcessNames}]
    /\ operation = [o \in Operations |-> [pc |-> "new", on |-> NoProcess]]
    /\ serial \in BOOLEAN

\* With a serial client nothing else is under way.
Free(o) ==
    /\ operation[o].pc = "new"
    /\ serial => \A q \in Operations : operation[q].pc \in {"new", "done"}

Idle == serial => \A o \in Operations : operation[o].pc \in {"new", "done"}

Become(o, pc, p) == operation' = [operation EXCEPT ![o] = [pc |-> pc, on |-> p]]

------------------------------------------------------------------------------
\* startSession, once the name is free: the session is listed, execute awaited.
Start(o, n) ==
    \E p \in Processes :
       /\ process[p].state = "unused" /\ process[p].name = n
       /\ process' = [process EXCEPT ![p].state = "starting"]
       /\ listed' = [listed EXCEPT ![n] = p]
       /\ Become(o, "starting", p)

StartSession(o, n) ==
    /\ Free(o) /\ listed[n] = NoProcess
    /\ Start(o, n)
    /\ UNCHANGED serial

\* execute returns: a process whose pid is known, or the result of a failed spawn;
\* an abort that came before is not looked at.  Or it throws, and the name is freed.
Executed(o) ==
    LET p == operation[o].on
    IN /\ operation[o].pc = "starting"
       /\ \/ /\ process' = [process EXCEPT ![p].state = "running", ![p].pid = TRUE]
             /\ UNCHANGED listed
          \/ /\ process' = [process EXCEPT ![p].state = "ended"]
             /\ listed' \in {listed, [listed EXCEPT ![process[p].name] = NoProcess]}
       /\ Become(o, "done", p)
       /\ UNCHANGED serial

\* The process ends, by itself or after a signal; the session stays listed.
ProcessEnds(p) ==
    /\ process[p].state = "running"
    /\ process' = [process EXCEPT ![p].state = "ended"]
    /\ UNCHANGED <<listed, operation, serial>>

\* stopSession and restartSession without a pid: the abort signal, for whoever
\* listens.  With one: a signal, which the process may ignore.
Stopped(p) == [process EXCEPT ![p].aborted = @ \/ ~process[p].pid]

StopSession(n) ==
    /\ Idle /\ listed[n] # NoProcess
    /\ process' = Stopped(listed[n])
    /\ UNCHANGED <<listed, operation, serial>>

\* restartSession: a process that has ended cannot be signalled, an error.  While
\* execute is awaited there is no result to wait for: the name is taken at once.
RestartSession(o, n) ==
    LET p == listed[n]
    IN /\ Free(o) /\ p # NoProcess
       /\ ~(process[p].pid /\ process[p].state = "ended")
       /\ \/ /\ process[p].state = "starting"
             /\ \E q \in Processes :
                   /\ process[q].state = "unused" /\ process[q].name = n
                   /\ process' = [Stopped(p) EXCEPT ![q].state = "starting"]
                   /\ listed' = [listed EXCEPT ![n] = q]
                   /\ Become(o, "starting", q)
          \/ /\ process[p].state # "starting"
             /\ process' = Stopped(p)
             /\ Become(o, "stopping", p)
             /\ UNCHANGED listed
       /\ UNCHANGED serial

\* A bug: the restart goes on when its wait is over, however that ended.
BugHasStopped(p) == TRUE

\* The old session's result is known.
HasStopped(p) == process[p].state = "ended"

\* The wait is over: whatever session has the name gives way to a new one.
Restarted(o) ==
    LET p == operation[o].on
    IN /\ operation[o].pc = "stopping"
       /\ HasStopped(p)
       /\ Start(o, process[p].name)
       /\ UNCHANGED serial

\* Five seconds without a result: an error, and the session stays.
RestartTimesOut(o) ==
    /\ operation[o].pc = "stopping"
    /\ Become(o, "done", operation[o].on)
    /\ UNCHANGED <<listed, process, serial>>

ProcessNext ==
    \/ \E o \in Operations :
          \/ \E n \in ProcessNames : StartSession(o, n) \/ RestartSession(o, n)
          \/ Executed(o) \/ Restarted(o) \/ RestartTimesOut(o)
    \/ \E p \in Processes : ProcessEnds(p)
    \/ \E n \in ProcessNames : StopSession(n)

ProcessSpec == ProcessInit /\ [][ProcessNext]_processVars

------------------------------------------------------------------------------
\* A client that makes one call at a time can always reach its processes: one that
\* runs is the one listed under its name, through stops, restarts that time out and
\* spawns that fail (process-manager.ts 320-416, 611-663).
RunningIsListed ==
    serial => \A p \in Processes :
                 process[p].state = "running" => listed[process[p].name] = p
=============================================================================
