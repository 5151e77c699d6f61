---------------------------- MODULE ReplSessions ----------------------------
(***************************************************************************)
(* The REPL sessions of the host: execute_repl (tools/repl.ts), the session *)
(* manager (computer/ComputerSessionManager.ts) and each session's shell    *)
(* (computer/PersistentShell.ts).  A session is found by its name; its      *)
(* process is spawned after an await, prints when it likes, and may exit at *)
(* any time, its exit callback removing whatever session has its name.     *)
(***************************************************************************)
EXTENDS FiniteSets

CONSTANTS
    SessionNames,
    Shells,          \* session objects, each with its PersistentShell
    Executions,      \* calls of execute_repl
    NoShell

ASSUME ReplAssumption == NoShell \notin Shells

VARIABLES
    sessions,    \* [SessionNames -> the listed session, or NoShell]
    shell,       \* the session objects
    exec         \* the calls

replVars == <<sessions, shell, exec>>

\* A call has two pieces of code: the user's, and the inspection of the session that
\* follows it.
Pieces == Executions \X {"code", "summary"}

\* A chunk of output: the session whose process printed it, and the pieces that
\* executeCode had been called with by then.
Chunk == [by : Shells, after : SUBSET Pieces]

(* "given" is the code that reached the process, "buffer" outputBuffer, "dir"  *)
(* whether its sandbox directory exists, and "closed" whether killSession or  *)
(* disposeAll was for this session.                                           *)
ShellObject ==
    [state : {"unused", "starting", "alive", "exited"}, name : SessionNames,
     dir : BOOLEAN, closed : BOOLEAN, given : SUBSET Pieces, buffer : SUBSET Chunk]

\* "interrupted" is the two seconds after a timeout.  "on" is the session that the
\* code was executed in and "output" its output; "at" and "footer" are those of the
\* inspection, which follows an execution that did not time out.
Call == [pc : {"new", "polling", "summary", "interrupted", "done"},
         on : Shells \cup {NoShell}, output : SUBSET Chunk,
         at : Shells \cup {NoShell}, footer : SUBSET Chunk]

\* The pieces of code that executeCode has been called with so far.
Begun ==
    {p \in Pieces : (IF p[2] = "code" THEN exec[p[1]].on ELSE exec[p[1]].at) # NoShell}

ReplTypeOK ==
    /\ sessions \in [SessionNames -> Shells \cup {NoShell}]
    /\ shell \in [Shells -> ShellObject]
    /\ exec \in [Executions -> Call]

ReplInit ==
    /\ sessions = [n \in SessionNames |-> NoShell]
    /\ shell \in [Shells -> {[state |-> "unused", name |-> n, dir |-> FALSE,
                              closed |-> FALSE, given |-> {}, buffer |-> {}] :
                             n \in SessionNames}]
    /\ exec = [e \in Executions |-> [pc |-> "new", on |-> NoShell, output |-> {},
                                  at |-> NoShell, footer |-> {}]]

------------------------------------------------------------------------------
(* execute_repl.                                                              *)

\* executeCode up to its timers: the buffer is emptied and the code written, which
\* a shell that has no process (yet) ignores.
ExecuteCode(sh, s, piece) ==
    [sh EXCEPT ![s].buffer = {},
               ![s].given = IF sh[s].state = "alive" THEN @ \cup {piece} ELSE @]

\* createSession: listed at once; the shell's init awaits getPty.
CreateSession(s) == [shell EXCEPT ![s].state = "starting", ![s].dir = TRUE]

\* The session of that name, or a new one, and executeCode, without an await.
ExecuteRepl(e, n) ==
    /\ exec[e].pc = "new"
    /\ \E s \in Shells :
          /\ \/ /\ sessions[n] = s
                /\ shell' = ExecuteCode(shell, s, <<e, "code">>)
                /\ UNCHANGED sessions
             \/ /\ sessions[n] = NoShell
                /\ shell[s].state = "unused" /\ shell[s].name = n
                /\ shell' = ExecuteCode(CreateSession(s), s, <<e, "code">>)
                /\ sessions' = [sessions EXCEPT ![n] = s]
          /\ exec' = [exec EXCEPT ![e] = [@ EXCEPT !.pc = "polling", !.on = s]]

\* The poll sees 500 ms of silence after output, or two seconds without any: the
\* output is what the buffer of the call's session holds.  The inspection code goes to
\* the session that has the name now, if there is one.
Settle(e) ==
    LET s == exec[e].on
        t == sessions[shell[s].name]
    IN /\ exec[e].pc = "polling"
       /\ exec' = [exec EXCEPT ![e] = [@ EXCEPT !.output = shell[s].buffer, !.at = t,
                                      !.pc = IF t = NoShell THEN "done" ELSE "summary"]]
       /\ shell' = IF t = NoShell THEN shell ELSE ExecuteCode(shell, t, <<e, "summary">>)
       /\ UNCHANGED sessions

\* The timer: SIGINT, which the process may ignore, and a wait of two seconds.
TimesOut(e) ==
    /\ exec[e].pc \in {"polling", "summary"}
    /\ exec' = [exec EXCEPT ![e].pc = "interrupted"]
    /\ UNCHANGED <<sessions, shell>>

\* The inspection settles, or the wait after a timeout is over.
Resolve(e) ==
    /\ exec[e].pc \in {"interrupted", "summary"}
    /\ exec' = [exec EXCEPT ![e] =
          IF @.at = NoShell
          THEN [@ EXCEPT !.pc = "done", !.output = shell[exec[e].on].buffer]
          ELSE [@ EXCEPT !.pc = "done", !.footer = shell[exec[e].at].buffer]]
    /\ UNCHANGED <<sessions, shell>>

------------------------------------------------------------------------------
(* The shell's process.                                                       *)

\* A bug: the callback removes the directory of the session that has the name.
BugCleanedUp(s) ==
    LET t == sessions[shell[s].name]
    IN [shell EXCEPT ![s].state = "exited", ![IF t = NoShell THEN s ELSE t].dir = FALSE]

\* cleanupSessionResources of the session itself (sessionRef).
CleanedUp(s) == [shell EXCEPT ![s].state = "exited", ![s].dir = FALSE]

\* onExit: the process is gone, and whatever session has its name is removed.
Exits(s) ==
    /\ shell' = CleanedUp(s)
    /\ sessions' = [sessions EXCEPT ![shell[s].name] = NoShell]
    /\ UNCHANGED exec

\* init: without a PTY, or when the spawn fails, onExit is called.
InitEnds(s) ==
    /\ shell[s].state = "starting"
    /\ \/ /\ shell' = [shell EXCEPT ![s].state = "alive"]
          /\ UNCHANGED <<sessions, exec>>
       \/ Exits(s)

\* The process ends by itself, or after a signal.
ShellExits(s) == shell[s].state = "alive" /\ Exits(s)

\* A bug: output goes to the session that has the name.
BugBufferOf(s) ==
    LET t == sessions[shell[s].name] IN IF t = NoShell THEN s ELSE t

\* onOutput appends to the buffer of its own session (sessionRef).
BufferOf(s) == s

\* The interpreter prints: an echo, a prompt, or what code that it works on prints.
Output(s) ==
    /\ shell[s].state = "alive"
    /\ shell' = [shell EXCEPT
          ![BufferOf(s)].buffer = @ \cup {[by |-> s, after |-> Begun]}]
    /\ UNCHANGED <<sessions, exec>>

\* The user kills a session (Ctrl+C or Ctrl+K in the REPL pane): the signal is sent,
\* the directory removed and the name freed; the process ends when it does.
KillSession(n) ==
    /\ sessions[n] # NoShell
    /\ shell' = [shell EXCEPT ![sessions[n]].dir = FALSE, ![sessions[n]].closed = TRUE]
    /\ sessions' = [sessions EXCEPT ![n] = NoShell]
    /\ UNCHANGED exec

\* The program ends its sessions: dispose() kills the process without a callback; a
\* shell still in init has none.
DisposeAll ==
    /\ LET listed == {sessions[n] : n \in SessionNames} \ {NoShell}
       IN /\ listed # {}
          /\ shell' = [s \in Shells |->
                IF s \notin listed THEN shell[s]
                ELSE [shell[s] EXCEPT !.dir = FALSE, !.closed = TRUE,
                        !.state = IF @ = "alive" THEN "exited" ELSE @]]
    /\ sessions' = [n \in SessionNames |-> NoShell]
    /\ UNCHANGED exec

ReplNext ==
    \/ \E e \in Executions :
          \/ \E n \in SessionNames : ExecuteRepl(e, n)
          \/ Settle(e) \/ TimesOut(e) \/ Resolve(e)
    \/ \E s \in Shells : InitEnds(s) \/ ShellExits(s) \/ Output(s)
    \/ \E n \in SessionNames : KillSession(n)
    \/ DisposeAll

ReplSpec == ReplInit /\ [][ReplNext]_replVars

------------------------------------------------------------------------------
(* Properties.                                                                *)

\* A session has its sandbox directory from its creation until it is killed or disposed
\* of or its shell exits, also when the late exit of a session that had the name
\* before takes it off the list; a listed one always has it, and none is left behind
\* (ComputerSessionManager.ts 108-119, 247-266).
DirsFollowShells ==
    /\ \A s \in Shells :
          shell[s].dir <=> shell[s].state \in {"starting", "alive"} /\ ~shell[s].closed
    /\ \A n \in SessionNames : sessions[n] # NoShell => shell[sessions[n]].dir

\* What a call returns was printed by the process of the session that its code was
\* executed in, after the call: neither by a killed session whose process lives on under
\* a name that was given away, nor before; and likewise for what the inspection adds
\* (ComputerSessionManager.ts 72-108, 148-153, 163-168).
OutputOwn ==
    \A e \in Executions :
       /\ \A c \in exec[e].output : c.by = exec[e].on /\ <<e, "code">> \in c.after
       /\ \A c \in exec[e].footer : c.by = exec[e].at /\ <<e, "summary">> \in c.after

\* The code of a call that is over was given to the session's process, if that is
\* still there (repl.ts 153-167, PersistentShell.ts 176-189).
CodeIsRun ==
    \A e \in Executions :
       exec[e].pc = "done" /\ shell[exec[e].on].state = "alive" =>
          <<e, "code">> \in shell[exec[e].on].given
=============================================================================
