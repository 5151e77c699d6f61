--------------------------- MODULE HostToolsProofs ---------------------------
(***************************************************************************)
(* Theorems about ReplSessions and ProcessSessions, for any names, session *)
(* objects and calls, and about the run in which they, ConfirmationBus and *)
(* AuditLedger are checked.                                                *)
(***************************************************************************)
EXTENDS MCHostTools, ConfirmationBusProofs, AuditLedgerProofs

(***************************************************************************)
(* REPL sessions.                                                          *)
(***************************************************************************)

\* A session is listed under its own name only, and until it was closed its shell is
\* starting or alive: an exit takes whatever has its name off the list, so in particular
\* itself.
ListedInv ==
    \A n \in SessionNames : sessions[n] # NoShell =>
       /\ shell[sessions[n]].name = n
       /\ shell[sessions[n]].state \in {"starting", "alive"}
       /\ ~shell[sessions[n]].closed

\* The piece of code a call waits for, and the session that executes it.
UnderWay(call) == call.pc \in {"polling", "summary", "interrupted"}
PieceOf(e, call) == <<e, IF call.at = NoShell THEN "code" ELSE "summary">>
Where(call) == IF call.at = NoShell THEN call.on ELSE call.at

\* A session's buffer holds what its own process printed; that of a session which executes
\* a piece of code holds nothing from before.
ByInv == \A s \in Shells : \A c \in shell[s].buffer : c.by = s
AfterInv ==
    \A e \in Executions : UnderWay(exec[e]) =>
       \A c \in shell[Where(exec[e])].buffer : PieceOf(e, exec[e]) \in c.after

\* A call past its start has a session, and has collected nothing before that.
CallOK(call) ==
    /\ call.pc = "new" => call.on = NoShell /\ call.output = {}
    /\ call.pc # "new" => call.on \in Shells
    /\ call.pc \in {"new", "polling"} => call.at = NoShell
    /\ call.at = NoShell => call.footer = {}
CallInv == \A e \in Executions : CallOK(exec[e])

\* What one call has collected is its own: OutputOwn, call by call.
OwnOutput(e, call) ==
    /\ \A c \in call.output : c.by = call.on /\ <<e, "code">> \in c.after
    /\ \A c \in call.footer : c.by = call.at /\ <<e, "summary">> \in c.after

\* The directory follows the shell; a session object nobody created is not closed.
DirInv == \A s \in Shells :
    /\ shell[s].dir <=> shell[s].state \in {"starting", "alive"} /\ ~shell[s].closed
    /\ shell[s].state = "unused" => ~shell[s].closed

ReplInv == /\ ReplTypeOK /\ ListedInv /\ DirInv
           /\ ByInv /\ AfterInv /\ CallInv /\ OutputOwn

------------------------------------------------------------------------------
\* What executeCode does to one session, and that it leaves the others alone.
LEMMA ExecuteCodeFacts ==
    ASSUME NEW sh \in [Shells -> ShellObject], NEW s \in Shells, NEW piece \in Pieces
    PROVE  /\ ExecuteCode(sh, s, piece) \in [Shells -> ShellObject]
           /\ ExecuteCode(sh, s, piece)[s].buffer = {}
           /\ \A t \in Shells :
                /\ ExecuteCode(sh, s, piece)[t].state = sh[t].state
                /\ ExecuteCode(sh, s, piece)[t].name = sh[t].name
                /\ ExecuteCode(sh, s, piece)[t].dir = sh[t].dir
                /\ ExecuteCode(sh, s, piece)[t].closed = sh[t].closed
                /\ ExecuteCode(sh, s, piece)[t].buffer \subseteq sh[t].buffer
<1> DEFINE more(set) == IF sh[s].state = "alive" THEN set \cup {piece} ELSE set
           new == [sh[s] EXCEPT !.buffer = {}, !.given = more(sh[s].given)]
<1>1. sh[s] \in ShellObject
  OBVIOUS
<1>2. more(sh[s].given) \in SUBSET Pieces
  BY <1>1 DEF ShellObject
<1>3. ExecuteCode(sh, s, piece) = [sh EXCEPT ![s] = new]
  BY DEF ExecuteCode
<1> HIDE DEF more
<1>4. /\ new \in ShellObject
      /\ new.state = sh[s].state /\ new.name = sh[s].name
      /\ new.dir = sh[s].dir /\ new.closed = sh[s].closed
      /\ new.buffer = {}
  BY <1>1, <1>2 DEF ShellObject
<1> HIDE DEF new
<1>5. QED
  BY <1>2, <1>3, <1>4

\* createSession starts one session, with its directory.
LEMMA CreateSessionFacts ==
    ASSUME shell \in [Shells -> ShellObject], NEW s \in Shells
    PROVE  /\ CreateSession(s) \in [Shells -> ShellObject]
           /\ \A t \in Shells :
                /\ CreateSession(s)[t].name = shell[t].name
                /\ CreateSession(s)[t].closed = shell[t].closed
                /\ CreateSession(s)[t].buffer = shell[t].buffer
                /\ t # s => CreateSession(s)[t].state = shell[t].state
                            /\ CreateSession(s)[t].dir = shell[t].dir
           /\ CreateSession(s)[s].state = "starting" /\ CreateSession(s)[s].dir
  BY DEF CreateSession, ShellObject

LEMMA ReplInitInv == ReplInit => ReplInv
<1> SUFFICES ASSUME ReplInit PROVE ReplInv
  OBVIOUS
<1>1. \A s \in Shells : /\ shell[s] \in ShellObject /\ shell[s].state = "unused"
                        /\ ~shell[s].dir /\ ~shell[s].closed /\ shell[s].buffer = {}
  <2> TAKE s \in Shells
  <2> DEFINE unused(n) == [state |-> "unused", name |-> n, dir |-> FALSE, closed |-> FALSE,
                           given |-> {}, buffer |-> {}]
  <2>1. PICK n \in SessionNames : shell[s] = unused(n)
    BY DEF ReplInit
  <2>2. QED
    BY <2>1 DEF ShellObject
<1>2. shell \in [Shells -> ShellObject]
  BY <1>1 DEF ReplInit
<1>3. \A e \in Executions : /\ exec[e] \in Call /\ CallOK(exec[e]) /\ ~UnderWay(exec[e])
                            /\ exec[e].output = {} /\ exec[e].footer = {}
  BY DEF ReplInit, Call, CallOK, UnderWay
<1>4. exec \in [Executions -> Call]
  BY <1>3 DEF ReplInit
<1>5. /\ ReplTypeOK /\ ListedInv
  BY <1>2, <1>4 DEF ReplInit, ReplTypeOK, ListedInv
<1>6. DirInv /\ ByInv /\ AfterInv /\ CallInv /\ OutputOwn
  BY <1>1, <1>3 DEF DirInv, ByInv, AfterInv, CallInv, OutputOwn
<1>7. QED
  BY <1>5, <1>6 DEF ReplInv

------------------------------------------------------------------------------
\* A step of the shells alone that prints nothing.
LEMMA SilentInv ==
    ASSUME ReplInv, ReplTypeOK', ListedInv', DirInv', exec' = exec,
           \A s \in Shells : shell'[s].buffer \subseteq shell[s].buffer
    PROVE  ReplInv'
<1>1. ByInv' BY DEF ReplInv, ByInv
<1>2. AfterInv'
  <2> SUFFICES ASSUME NEW e \in Executions, UnderWay(exec[e]),
                      NEW c \in shell'[Where(exec[e])].buffer
               PROVE  PieceOf(e, exec[e]) \in c.after
    BY DEF AfterInv, UnderWay, Where, PieceOf
  <2>1. Where(exec[e]) \in Shells
    BY DEF ReplInv, ReplTypeOK, CallInv, CallOK, UnderWay, Where, Call
  <2> QED BY <2>1 DEF ReplInv, AfterInv
<1>3. CallInv' BY DEF ReplInv, CallInv, CallOK
<1>4. OutputOwn' BY DEF ReplInv, OutputOwn
<1> QED BY <1>1, <1>2, <1>3, <1>4 DEF ReplInv

\* Output goes to the buffer of the session whose process printed it, after the pieces of
\* code that had been executed by then.
LEMMA OutputInv ==
    ASSUME ReplInv, NEW s \in Shells, Output(s)
    PROVE  ReplInv'
<1> DEFINE chunk == [by |-> s, after |-> Begun]
           new == [shell[s] EXCEPT !.buffer = @ \cup {chunk}]
<1>1. shell[s] \in ShellObject
  BY DEF ReplInv, ReplTypeOK
<1>2. chunk \in Chunk /\ chunk.by = s /\ chunk.after = Begun
  BY DEF Chunk, Begun
<1> HIDE DEF chunk
<1>3. /\ new \in ShellObject /\ new.name = shell[s].name
      /\ new.dir = shell[s].dir /\ new.closed = shell[s].closed
      /\ new.state = shell[s].state /\ new.buffer = shell[s].buffer \cup {chunk}
  BY <1>1, <1>2 DEF ShellObject
<1>4. shell' = [shell EXCEPT ![s] = new] /\ UNCHANGED <<sessions, exec>>
  BY DEF Output, BufferOf, chunk
<1> HIDE DEF new
<1>5. ReplTypeOK' /\ ListedInv' /\ DirInv'
  BY <1>3, <1>4 DEF ReplInv, ReplTypeOK, ListedInv, DirInv
<1>6. ByInv'
  BY <1>2, <1>3, <1>4 DEF ReplInv, ReplTypeOK, ByInv
<1>7. AfterInv'
  <2> SUFFICES ASSUME NEW e \in Executions, UnderWay(exec[e]),
                      NEW c \in shell'[Where(exec[e])].buffer
               PROVE  PieceOf(e, exec[e]) \in c.after
    BY <1>4 DEF AfterInv, UnderWay, Where, PieceOf
  <2>1. CASE c \in shell[Where(exec[e])].buffer
    BY <2>1 DEF ReplInv, AfterInv
  <2>2. CASE c = chunk
    <3>1. /\ exec[e] \in Call /\ exec[e].on \in Shells
          /\ exec[e].at = NoShell => exec[e].on # NoShell
      BY ReplAssumption DEF ReplInv, ReplTypeOK, CallInv, CallOK, UnderWay
    <3>2. PieceOf(e, exec[e]) \in Begun
      BY <3>1 DEF PieceOf, Begun, Pieces
    <3> QED BY <1>2, <2>2, <3>2
  <2>3. Where(exec[e]) \in Shells
    BY DEF ReplInv, ReplTypeOK, CallInv, CallOK, UnderWay, Where, Call
  <2> QED BY <1>3, <1>4, <2>1, <2>2, <2>3 DEF ReplInv, ReplTypeOK
<1>8. CallInv' BY <1>4 DEF ReplInv, CallInv, CallOK
<1>9. OutputOwn' BY <1>4 DEF ReplInv, OutputOwn
<1> QED BY <1>5, <1>6, <1>7, <1>8, <1>9 DEF ReplInv

\* An exit takes the directory and frees the name: no other name has the session.
LEMMA ExitsInv ==
    ASSUME ReplInv, NEW s \in Shells, shell[s].state \in {"starting", "alive"}, Exits(s)
    PROVE  ReplInv'
<1> DEFINE new == [shell[s] EXCEPT !.state = "exited", !.dir = FALSE]
<1>1. /\ shell[s] \in ShellObject
      /\ shell[s].name \in SessionNames
  BY DEF ReplInv, ReplTypeOK, ShellObject
<1>2. /\ new \in ShellObject /\ new.name = shell[s].name
      /\ ~new.dir /\ new.closed = shell[s].closed
      /\ new.state = "exited" /\ new.buffer = shell[s].buffer
  BY <1>1 DEF ShellObject
<1>3. /\ shell' = [shell EXCEPT ![s] = new]
      /\ sessions' = [sessions EXCEPT ![shell[s].name] = NoShell]
      /\ exec' = exec
  BY DEF Exits, CleanedUp
<1> HIDE DEF new
<1>4. ReplTypeOK' /\ DirInv'
  BY <1>1, <1>2, <1>3 DEF ReplInv, ReplTypeOK, DirInv
<1>5. ListedInv'
  BY <1>1, <1>2, <1>3 DEF ReplInv, ReplTypeOK, ListedInv
<1>6. \A t \in Shells : shell'[t].buffer \subseteq shell[t].buffer
  BY <1>2, <1>3 DEF ReplInv, ReplTypeOK
<1>7. QED
  BY <1>3, <1>4, <1>5, <1>6, SilentInv

LEMMA InitEndsInv ==
    ASSUME ReplInv, NEW s \in Shells, InitEnds(s)
    PROVE  ReplInv'
<1>1. CASE Exits(s)
  BY <1>1, ExitsInv DEF InitEnds
<1>2. CASE shell' = [shell EXCEPT ![s].state = "alive"] /\ UNCHANGED <<sessions, exec>>
  <2> DEFINE new == [shell[s] EXCEPT !.state = "alive"]
  <2>1. shell[s] \in ShellObject /\ shell[s].state = "starting"
    BY DEF ReplInv, ReplTypeOK, InitEnds
  <2>2. /\ new \in ShellObject /\ new.name = shell[s].name
        /\ new.dir = shell[s].dir /\ new.closed = shell[s].closed
        /\ new.state = "alive" /\ new.buffer = shell[s].buffer
    BY <2>1 DEF ShellObject
  <2>3. shell' = [shell EXCEPT ![s] = new]
    BY <1>2
  <2> HIDE DEF new
  <2>4. ReplTypeOK' /\ ListedInv' /\ DirInv'
    BY <1>2, <2>1, <2>2, <2>3 DEF ReplInv, ReplTypeOK, ListedInv, DirInv
  <2>5. \A t \in Shells : shell'[t].buffer \subseteq shell[t].buffer
    BY <2>2, <2>3 DEF ReplInv, ReplTypeOK
  <2>6. QED
    BY <1>2, <2>4, <2>5, SilentInv
<1>3. QED
  BY <1>1, <1>2 DEF InitEnds

\* A kill closes the session of the name, which no other name has.
LEMMA KillSessionInv ==
    ASSUME ReplInv, NEW n \in SessionNames, KillSession(n)
    PROVE  ReplInv'
<1> DEFINE s == sessions[n]
           new == [shell[s] EXCEPT !.dir = FALSE, !.closed = TRUE]
<1>1. /\ s \in Shells /\ shell[s] \in ShellObject /\ shell[s].name = n
      /\ shell[s].state \in {"starting", "alive"}
  BY DEF KillSession, ReplInv, ReplTypeOK, ListedInv
<1>2. /\ new \in ShellObject /\ new.name = n
      /\ ~new.dir /\ new.closed
      /\ new.state = shell[s].state /\ new.buffer = shell[s].buffer
  BY <1>1 DEF ShellObject
<1>3. /\ shell' = [shell EXCEPT ![s] = new]
      /\ sessions' = [sessions EXCEPT ![n] = NoShell]
      /\ exec' = exec
  BY DEF KillSession
<1> HIDE DEF new
<1>4. ReplTypeOK' /\ DirInv'
  BY <1>1, <1>2, <1>3 DEF ReplInv, ReplTypeOK, DirInv
<1>5. ListedInv'
  BY <1>1, <1>2, <1>3 DEF ReplInv, ReplTypeOK, ListedInv
<1>6. \A t \in Shells : shell'[t].buffer \subseteq shell[t].buffer
  BY <1>2, <1>3 DEF ReplInv, ReplTypeOK
<1>7. QED
  BY <1>3, <1>4, <1>5, <1>6, SilentInv

LEMMA DisposeAllInv ==
    ASSUME ReplInv, DisposeAll
    PROVE  ReplInv'
<1> DEFINE open == {sessions[n] : n \in SessionNames} \ {NoShell}
           gone(s) == [shell[s] EXCEPT !.dir = FALSE, !.closed = TRUE,
                         !.state = IF @ = "alive" THEN "exited" ELSE @]
<1>1. \A s \in Shells : shell[s] \in ShellObject
  BY DEF ReplInv, ReplTypeOK
<1>2. \A s \in Shells :
         /\ gone(s) \in ShellObject /\ gone(s).name = shell[s].name
         /\ ~gone(s).dir /\ gone(s).closed
         /\ gone(s).state = "unused" => shell[s].state = "unused"
         /\ gone(s).buffer = shell[s].buffer
  BY <1>1 DEF ShellObject
<1>3. /\ shell' = [s \in Shells |-> IF s \notin open THEN shell[s] ELSE gone(s)]
      /\ sessions' = [n \in SessionNames |-> NoShell]
      /\ exec' = exec
  BY DEF DisposeAll
<1>4. \A s \in open \cap Shells : shell[s].state \in {"starting", "alive"}
  BY DEF ReplInv, ListedInv
<1> HIDE DEF open, gone
<1>5. shell' \in [Shells -> ShellObject]
  BY <1>1, <1>2, <1>3
<1>6. ReplTypeOK' /\ ListedInv'
  BY <1>3, <1>5 DEF ReplInv, ReplTypeOK, ListedInv
<1>7. DirInv' /\ \A s \in Shells : shell'[s].buffer \subseteq shell[s].buffer
  BY <1>1, <1>2, <1>3, <1>4 DEF ReplInv, DirInv
<1>8. QED
  BY <1>3, <1>6, <1>7, SilentInv

------------------------------------------------------------------------------
\* A step of one call that at most empties buffers.
LEMMA OneCallInv ==
    ASSUME ReplInv, ReplTypeOK', ListedInv', DirInv',
           NEW e \in Executions, NEW new \in Call, exec' = [exec EXCEPT ![e] = new],
           CallOK(new), OwnOutput(e, new),
           UnderWay(new) =>
              \A c \in shell'[Where(new)].buffer : PieceOf(e, new) \in c.after,
           \A s \in Shells : shell'[s].buffer \subseteq shell[s].buffer
    PROVE  ReplInv'
<1>1. \A d \in Executions : exec'[d] = IF d = e THEN new ELSE exec[d]
  BY DEF ReplInv, ReplTypeOK
<1>2. ByInv' BY DEF ReplInv, ByInv
<1>3. CallInv' BY <1>1 DEF ReplInv, CallInv
<1>4. OutputOwn' BY <1>1 DEF ReplInv, OutputOwn, OwnOutput
<1>5. AfterInv'
  <2> SUFFICES ASSUME NEW d \in Executions, UnderWay(exec'[d]),
                      NEW c \in shell'[Where(exec'[d])].buffer
               PROVE  PieceOf(d, exec'[d]) \in c.after
    BY DEF AfterInv
  <2>1. CASE d = e BY <1>1, <2>1
  <2>2. CASE d # e
    <3>1. exec'[d] = exec[d] BY <1>1, <2>2
    <3>2. Where(exec[d]) \in Shells
      BY <3>1 DEF ReplInv, ReplTypeOK, CallInv, CallOK, UnderWay, Where, Call
    <3> QED BY <3>1, <3>2 DEF ReplInv, AfterInv
  <2> QED BY <2>1, <2>2
<1> QED BY <1>2, <1>3, <1>4, <1>5 DEF ReplInv

\* A step that leaves the sessions where they are keeps their part of the invariant.
LEMMA SameSessions ==
    ASSUME ReplInv, exec' \in [Executions -> Call], sessions' = sessions,
           shell' \in [Shells -> ShellObject],
           \A t \in Shells :
              /\ shell'[t].state = shell[t].state /\ shell'[t].name = shell[t].name
              /\ shell'[t].dir = shell[t].dir /\ shell'[t].closed = shell[t].closed
    PROVE  ReplTypeOK' /\ ListedInv' /\ DirInv'
  BY DEF ReplInv, ReplTypeOK, ListedInv, DirInv

\* What a call reads from the buffer of the session that executes its code is its own.
LEMMA ReadFacts ==
    ASSUME ReplInv, NEW e \in Executions, UnderWay(exec[e])
    PROVE  /\ exec[e] \in Call /\ CallOK(exec[e]) /\ OwnOutput(e, exec[e])
           /\ Where(exec[e]) \in Shells
           /\ shell[Where(exec[e])].buffer \subseteq Chunk
           /\ \A c \in shell[Where(exec[e])].buffer :
                 c.by = Where(exec[e]) /\ PieceOf(e, exec[e]) \in c.after
<1>1. exec[e] \in Call /\ CallOK(exec[e]) /\ OwnOutput(e, exec[e])
  BY DEF ReplInv, ReplTypeOK, CallInv, OutputOwn, OwnOutput
<1>2. Where(exec[e]) \in Shells
  BY <1>1 DEF CallOK, UnderWay, Where, Call
<1>3. shell[Where(exec[e])] \in ShellObject
  BY <1>2 DEF ReplInv, ReplTypeOK
<1> QED BY <1>1, <1>2, <1>3 DEF ReplInv, ByInv, AfterInv, ShellObject

LEMMA TimesOutInv ==
    ASSUME ReplInv, NEW e \in Executions, TimesOut(e)
    PROVE  ReplInv'
<1> DEFINE new == [exec[e] EXCEPT !.pc = "interrupted"]
<1>1. UnderWay(exec[e]) /\ shell \in [Shells -> ShellObject]
  BY DEF TimesOut, UnderWay, ReplInv, ReplTypeOK
<1>2. /\ exec[e] \in Call /\ CallOK(exec[e]) /\ OwnOutput(e, exec[e])
      /\ \A c \in shell[Where(exec[e])].buffer : PieceOf(e, exec[e]) \in c.after
  BY <1>1, ReadFacts
<1>3. new \in Call /\ CallOK(new) /\ OwnOutput(e, new)
      /\ Where(new) = Where(exec[e]) /\ PieceOf(e, new) = PieceOf(e, exec[e])
  BY <1>1, <1>2 DEF Call, CallOK, OwnOutput, UnderWay, Where, PieceOf
<1>4. exec' = [exec EXCEPT ![e] = new] /\ UNCHANGED <<sessions, shell>>
  BY DEF TimesOut
<1> HIDE DEF new
<1>5. exec' \in [Executions -> Call] BY <1>3, <1>4 DEF ReplInv, ReplTypeOK
<1>6. ReplTypeOK' /\ ListedInv' /\ DirInv' BY <1>1, <1>4, <1>5, SameSessions
<1>7. QED
  BY <1>2, <1>3, <1>4, <1>6, OneCallInv

LEMMA ResolveInv ==
    ASSUME ReplInv, NEW e \in Executions, Resolve(e)
    PROVE  ReplInv'
<1> DEFINE buffer == shell[Where(exec[e])].buffer
           new == IF exec[e].at = NoShell
                  THEN [exec[e] EXCEPT !.pc = "done", !.output = buffer]
                  ELSE [exec[e] EXCEPT !.pc = "done", !.footer = buffer]
<1>1. UnderWay(exec[e]) /\ shell \in [Shells -> ShellObject]
  BY DEF Resolve, UnderWay, ReplInv, ReplTypeOK
<1>2. /\ exec[e] \in Call /\ CallOK(exec[e]) /\ OwnOutput(e, exec[e])
      /\ buffer \subseteq Chunk
      /\ \A c \in buffer : c.by = Where(exec[e]) /\ PieceOf(e, exec[e]) \in c.after
  BY <1>1, ReadFacts
<1>3. exec' = [exec EXCEPT ![e] = new] /\ UNCHANGED <<sessions, shell>>
  BY DEF Resolve, Where
<1> HIDE DEF buffer
<1>4. new \in Call /\ CallOK(new) /\ OwnOutput(e, new) /\ ~UnderWay(new)
  <2>1. CASE exec[e].at = NoShell
    BY <1>1, <1>2, <2>1 DEF Call, CallOK, OwnOutput, UnderWay, Where, PieceOf
  <2>2. CASE exec[e].at # NoShell
    BY <1>1, <1>2, <2>2 DEF Call, CallOK, OwnOutput, UnderWay, Where, PieceOf
  <2> QED BY <2>1, <2>2
<1> HIDE DEF new
<1>5. exec' \in [Executions -> Call] BY <1>3, <1>4 DEF ReplInv, ReplTypeOK
<1>6. ReplTypeOK' /\ ListedInv' /\ DirInv' BY <1>1, <1>3, <1>5, SameSessions
<1>7. QED
  BY <1>3, <1>4, <1>6, OneCallInv

\* The code's output is collected; the inspection starts with an empty buffer.
LEMMA SettleInv ==
    ASSUME ReplInv, NEW e \in Executions, Settle(e)
    PROVE  ReplInv'
<1> DEFINE t == sessions[shell[exec[e].on].name]
           buffer == shell[exec[e].on].buffer
           new == [exec[e] EXCEPT !.output = buffer, !.at = t,
                                  !.pc = IF t = NoShell THEN "done" ELSE "summary"]
<1>1. UnderWay(exec[e]) /\ shell \in [Shells -> ShellObject]
  BY DEF Settle, UnderWay, ReplInv, ReplTypeOK
<1>2. exec[e] \in Call /\ CallOK(exec[e]) /\ OwnOutput(e, exec[e])
  BY <1>1, ReadFacts
<1>3. exec[e].pc = "polling" /\ exec[e].at = NoShell /\ exec[e].on \in Shells
      /\ exec[e].footer = {}
  BY <1>2 DEF Settle, CallOK
<1>4. /\ buffer \subseteq Chunk
      /\ \A c \in buffer : c.by = exec[e].on /\ <<e, "code">> \in c.after
  <2>1. Where(exec[e]) = exec[e].on /\ PieceOf(e, exec[e]) = <<e, "code">>
    BY <1>3 DEF Where, PieceOf
  <2> QED BY <1>1, <2>1, ReadFacts
<1>5. t \in Shells \cup {NoShell} /\ sessions' = sessions
  BY <1>1, <1>3 DEF Settle, ReplInv, ReplTypeOK, ShellObject
<1>6. /\ exec' = [exec EXCEPT ![e] = new]
      /\ shell' = IF t = NoShell THEN shell ELSE ExecuteCode(shell, t, <<e, "summary">>)
  BY DEF Settle
<1> HIDE DEF buffer, t
<1>7. new \in Call /\ CallOK(new) /\ OwnOutput(e, new) /\ new.at = t
      /\ (UnderWay(new) => t # NoShell)
  BY <1>2, <1>3, <1>4, <1>5 DEF Call, CallOK, OwnOutput, UnderWay
<1> HIDE DEF new
<1>8. /\ shell' \in [Shells -> ShellObject]
      /\ t # NoShell => shell'[t].buffer = {}
      /\ \A s \in Shells :
           /\ shell'[s].state = shell[s].state /\ shell'[s].name = shell[s].name
           /\ shell'[s].dir = shell[s].dir /\ shell'[s].closed = shell[s].closed
           /\ shell'[s].buffer \subseteq shell[s].buffer
  <2>1. CASE t = NoShell BY <1>1, <1>6, <2>1
  <2>2. CASE t # NoShell
    <3> DEFINE piece == <<e, "summary">>
    <3>1. t \in Shells /\ piece \in Pieces BY <1>5, <2>2 DEF Pieces
    <3>2. shell' = ExecuteCode(shell, t, piece) BY <1>6, <2>2
    <3> HIDE DEF piece
    <3> QED BY <1>1, <3>1, <3>2, ExecuteCodeFacts
  <2> QED BY <2>1, <2>2
<1>9. exec' \in [Executions -> Call] BY <1>6, <1>7 DEF ReplInv, ReplTypeOK
<1>10. ReplTypeOK' /\ ListedInv' /\ DirInv' BY <1>5, <1>8, <1>9, SameSessions
<1>11. UnderWay(new) => \A c \in shell'[Where(new)].buffer : PieceOf(e, new) \in c.after
  BY <1>7, <1>8 DEF Where
<1>12. QED
  BY <1>6, <1>7, <1>8, <1>10, <1>11, OneCallInv

\* A call that finds its session gives it code; one that does not creates it first.
LEMMA ExecuteReplInv ==
    ASSUME ReplInv, NEW e \in Executions, NEW n \in SessionNames, ExecuteRepl(e, n)
    PROVE  ReplInv'
<1> DEFINE piece == <<e, "code">>
<1>1. PICK s \in Shells :
          /\ \/ /\ sessions[n] = s
                /\ shell' = ExecuteCode(shell, s, piece)
                /\ UNCHANGED sessions
             \/ /\ sessions[n] = NoShell
                /\ shell[s].state = "unused" /\ shell[s].name = n
                /\ shell' = ExecuteCode(CreateSession(s), s, piece)
                /\ sessions' = [sessions EXCEPT ![n] = s]
          /\ exec' = [exec EXCEPT ![e] = [@ EXCEPT !.pc = "polling", !.on = s]]
  BY DEF ExecuteRepl
<1> DEFINE new == [exec[e] EXCEPT !.pc = "polling", !.on = s]
<1>2. exec[e] \in Call /\ CallOK(exec[e]) /\ exec[e].pc = "new"
      /\ shell \in [Shells -> ShellObject]
  BY DEF ExecuteRepl, ReplInv, ReplTypeOK, CallInv
<1>3. /\ new \in Call /\ CallOK(new) /\ OwnOutput(e, new) /\ Where(new) = s
      /\ exec' = [exec EXCEPT ![e] = new]
  BY <1>1, <1>2 DEF Call, CallOK, OwnOutput, Where
<1>4. piece \in Pieces BY DEF Pieces
<1> HIDE DEF new, piece
<1>5. exec' \in [Executions -> Call] BY <1>3 DEF ReplInv, ReplTypeOK
<1>6. CASE shell' = ExecuteCode(shell, s, piece) /\ UNCHANGED sessions
  <2>1. /\ shell' \in [Shells -> ShellObject] /\ shell'[s].buffer = {}
        /\ \A t \in Shells :
              /\ shell'[t].state = shell[t].state /\ shell'[t].name = shell[t].name
              /\ shell'[t].dir = shell[t].dir /\ shell'[t].closed = shell[t].closed
              /\ shell'[t].buffer \subseteq shell[t].buffer
    BY <1>2, <1>4, <1>6, ExecuteCodeFacts
  <2>2. ReplTypeOK' /\ ListedInv' /\ DirInv' BY <1>5, <1>6, <2>1, SameSessions
  <2>3. QED
    BY <1>3, <2>1, <2>2, OneCallInv
<1>7. CASE /\ sessions[n] = NoShell
           /\ shell[s].state = "unused" /\ shell[s].name = n
           /\ shell' = ExecuteCode(CreateSession(s), s, piece)
           /\ sessions' = [sessions EXCEPT ![n] = s]
  <2>1. /\ shell' \in [Shells -> ShellObject] /\ shell'[s].buffer = {}
        /\ \A t \in Shells :
             /\ shell'[t].name = shell[t].name /\ shell'[t].closed = shell[t].closed
             /\ shell'[t].buffer \subseteq shell[t].buffer
             /\ t # s => shell'[t].state = shell[t].state /\ shell'[t].dir = shell[t].dir
        /\ shell'[s].state = "starting" /\ shell'[s].dir
    <3>1. PICK sh \in [Shells -> ShellObject] : sh = CreateSession(s)
      BY <1>2, CreateSessionFacts
    <3>2. /\ \A t \in Shells :
               /\ sh[t].name = shell[t].name /\ sh[t].closed = shell[t].closed
               /\ sh[t].buffer = shell[t].buffer
               /\ t # s => sh[t].state = shell[t].state /\ sh[t].dir = shell[t].dir
          /\ sh[s].state = "starting" /\ sh[s].dir
      BY <1>2, <3>1, CreateSessionFacts
    <3>3. shell' = ExecuteCode(sh, s, piece)
      BY <1>7, <3>1
    <3>4. /\ shell' \in [Shells -> ShellObject] /\ shell'[s].buffer = {}
          /\ \A t \in Shells :
               /\ shell'[t].state = sh[t].state /\ shell'[t].name = sh[t].name
               /\ shell'[t].dir = sh[t].dir /\ shell'[t].closed = sh[t].closed
               /\ shell'[t].buffer \subseteq sh[t].buffer
      BY <1>4, <3>3, ExecuteCodeFacts
    <3>5. QED
      BY <3>2, <3>4
  <2>2. ~shell[s].closed
    BY <1>7 DEF ReplInv, DirInv
  <2>3. ReplTypeOK'
    BY <1>5, <1>7, <2>1 DEF ReplInv, ReplTypeOK
  <2>4. ListedInv'
    <3>1. ASSUME NEW m \in SessionNames, sessions'[m] # NoShell
          PROVE  /\ shell'[sessions'[m]].name = m
                 /\ shell'[sessions'[m]].state \in {"starting", "alive"}
                 /\ ~shell'[sessions'[m]].closed
      <4>1. CASE m = n
        BY <1>7, <2>1, <2>2, <4>1 DEF ReplInv, ReplTypeOK
      <4>2. CASE m # n
        <5>1. sessions'[m] = sessions[m] /\ sessions[m] \in Shells /\ shell[sessions[m]].name = m
              /\ shell[sessions[m]].state \in {"starting", "alive"} /\ ~shell[sessions[m]].closed
          BY <1>7, <3>1, <4>2 DEF ReplInv, ReplTypeOK, ListedInv
        <5>2. QED
          BY <1>7, <2>1, <4>2, <5>1
      <4>3. QED
        BY <4>1, <4>2
    <3>2. QED
      BY <3>1 DEF ListedInv
  <2>5. DirInv'
    BY <1>7, <2>1, <2>2 DEF ReplInv, DirInv
  <2>6. QED
    BY <1>3, <2>1, <2>3, <2>4, <2>5, OneCallInv
<1>8. QED
  BY <1>1, <1>6, <1>7

------------------------------------------------------------------------------
\* Every step keeps the invariant.
LEMMA ReplStepInv == ReplInv /\ [ReplNext]_replVars => ReplInv'
<1> SUFFICES ASSUME ReplInv, [ReplNext]_replVars PROVE ReplInv'
  OBVIOUS
<1>1. CASE \E e \in Executions : \/ \E n \in SessionNames : ExecuteRepl(e, n)
                                 \/ Settle(e) \/ TimesOut(e) \/ Resolve(e)
  BY <1>1, ExecuteReplInv, SettleInv, TimesOutInv, ResolveInv
<1>2. CASE \E s \in Shells : InitEnds(s) \/ ShellExits(s) \/ Output(s)
  BY <1>2, InitEndsInv, ExitsInv, OutputInv DEF ShellExits
<1>3. CASE \E n \in SessionNames : KillSession(n)
  BY <1>3, KillSessionInv
<1>4. CASE DisposeAll
  BY <1>4, DisposeAllInv
<1>5. CASE UNCHANGED replVars
  <2>1. ReplTypeOK' /\ ListedInv' /\ DirInv'
    BY <1>5 DEF replVars, ReplInv, ReplTypeOK, ListedInv, DirInv
  <2> QED BY <1>5, <2>1, SilentInv DEF replVars
<1>6. QED
  BY <1>1, <1>2, <1>3, <1>4, <1>5 DEF ReplNext

\* The invariant holds throughout.
THEOREM ReplInvariant == ReplSpec => []ReplInv
  BY ReplInitInv, ReplStepInv, PTL DEF ReplSpec

\* Every variable stays in its domain (the Maps and records of
\* ComputerSessionManager.ts 13-47).
THEOREM ReplTypeCorrect == ReplSpec => []ReplTypeOK
<1>1. ReplInv => ReplTypeOK
  BY DEF ReplInv
<1>2. QED
  BY <1>1, ReplInvariant, PTL

\* The sandbox directory of a session exists exactly while its shell lives and nobody
\* closed it, through kills, exits that come late and names that are used again
\* (ComputerSessionManager.ts 108-119, 247-266).
THEOREM DirsCorrect == ReplSpec => []DirsFollowShells
<1>1. ReplInv => DirsFollowShells
  BY DEF ReplInv, ReplTypeOK, ListedInv, DirInv, DirsFollowShells
<1>2. QED
  BY <1>1, ReplInvariant, PTL

\* What a call returns was printed after it by the process of the session its code was
\* executed in, whoever has the name when it settles; and likewise what the inspection
\* adds (ComputerSessionManager.ts 72-108, 148-153, 163-168).
THEOREM OutputCorrect == ReplSpec => []OutputOwn
<1>1. ReplInv => OutputOwn
  BY DEF ReplInv
<1>2. QED
  BY <1>1, ReplInvariant, PTL

------------------------------------------------------------------------------
(***************************************************************************)
(* The process manager.                                                    *)
(***************************************************************************)

Active(o) == operation[o].pc \in {"starting", "stopping"}

\* A call under way has a session.
ActiveInv == \A o \in Operations : Active(o) => operation[o].on \in Processes

\* A session is listed under its own name.
NamedInv == \A n \in ProcessNames : listed[n] # NoProcess => process[listed[n]].name = n

\* A client that makes one call at a time: one call at most is under way; a session
\* whose start is awaited has its call, and the other way round; and what starts, runs
\* or is waited for by a restart is listed under its name.
AwaitedInv ==
    serial =>
       /\ \A o, q \in Operations : Active(o) /\ Active(q) => o = q
       /\ \A p \in Processes : process[p].state = "starting" =>
             \E o \in Operations : operation[o] = [pc |-> "starting", on |-> p]
       /\ \A o \in Operations : operation[o].pc = "starting" =>
             process[operation[o].on].state = "starting"
       /\ \A o \in Operations : operation[o].pc = "stopping" =>
             listed[process[operation[o].on].name] = operation[o].on
       /\ \A p \in Processes : process[p].state \in {"starting", "running"} =>
             listed[process[p].name] = p

ProcessInv == ProcessTypeOK /\ ActiveInv /\ NamedInv /\ AwaitedInv

------------------------------------------------------------------------------
LEMMA ProcessInitInv == ProcessInit => ProcessInv
<1> SUFFICES ASSUME ProcessInit PROVE ProcessInv
  OBVIOUS
<1>1. \A p \in Processes : process[p] \in ProcessObject /\ process[p].state = "unused"
  <2> TAKE p \in Processes
  <2>1. PICK n \in ProcessNames :
           process[p] = [state |-> "unused", name |-> n, pid |-> FALSE, aborted |-> FALSE]
    BY DEF ProcessInit
  <2>2. QED
    BY <2>1 DEF ProcessObject
<1>2. process \in [Processes -> ProcessObject]
  BY <1>1 DEF ProcessInit
<1>3. \A o \in Operations : ~Active(o) /\ operation[o] \in Operation
                            /\ operation[o].pc = "new"
  BY DEF ProcessInit, Operation, Active
<1>4. operation \in [Operations -> Operation]
  BY <1>3 DEF ProcessInit
<1>5. ProcessTypeOK
  BY <1>2, <1>4 DEF ProcessInit, ProcessTypeOK
<1>6. QED
  BY <1>1, <1>3, <1>5 DEF ProcessInit, ProcessInv, ActiveInv, NamedInv, AwaitedInv

\* A session's steps that neither start it nor list it.
LEMMA OneProcessInv ==
    ASSUME ProcessInv, NEW p \in Processes, NEW new \in ProcessObject,
           process' = [process EXCEPT ![p] = new], UNCHANGED <<listed, operation, serial>>,
           new.name = process[p].name,
           \/ new.state = process[p].state
           \/ process[p].state = "running" /\ new.state = "ended"
    PROVE  ProcessInv'
<1>1. ProcessTypeOK' /\ ActiveInv' /\ NamedInv'
  BY DEF ProcessInv, ProcessTypeOK, ActiveInv, NamedInv, Active
<1>2. \A q \in Processes : /\ process'[q].name = process[q].name
                           /\ \/ process'[q].state = process[q].state
                              \/ process[q].state = "running" /\ process'[q].state = "ended"
  BY DEF ProcessInv, ProcessTypeOK
<1>3. AwaitedInv'
  <2> SUFFICES ASSUME serial' PROVE AwaitedInv'
    BY DEF AwaitedInv
  <2>1. \A o \in Operations : operation[o].pc = "starting" =>
           operation[o].on \in Processes /\ process[operation[o].on].state = "starting"
    BY DEF ProcessInv, ActiveInv, AwaitedInv, Active
  <2>2. \A o \in Operations : operation[o].pc = "stopping" => operation[o].on \in Processes
    BY DEF ProcessInv, ActiveInv, Active
  <2>3. QED
    BY <1>2, <2>1, <2>2 DEF ProcessInv, AwaitedInv, Active
<1>4. QED
  BY <1>1, <1>3 DEF ProcessInv

LEMMA ProcessEndsInv ==
    ASSUME ProcessInv, NEW p \in Processes, ProcessEnds(p)
    PROVE  ProcessInv'
<1> DEFINE new == [process[p] EXCEPT !.state = "ended"]
<1>1. process[p] \in ProcessObject
  BY DEF ProcessInv, ProcessTypeOK
<1>2. new \in ProcessObject /\ new.name = process[p].name /\ new.state = "ended"
  BY <1>1 DEF ProcessObject
<1>3. process' = [process EXCEPT ![p] = new] /\ process[p].state = "running"
      /\ UNCHANGED <<listed, operation, serial>>
  BY DEF ProcessEnds
<1> HIDE DEF new
<1>4. QED
  BY <1>2, <1>3, OneProcessInv

\* What the abort of a session without a pid changes.
LEMMA StoppedFacts ==
    ASSUME process \in [Processes -> ProcessObject], NEW p \in Processes
    PROVE  \E new \in ProcessObject :
              /\ Stopped(p) = [process EXCEPT ![p] = new]
              /\ new.name = process[p].name /\ new.state = process[p].state
<1> DEFINE new == [process[p] EXCEPT !.aborted = @ \/ ~process[p].pid]
<1>1. process[p] \in ProcessObject
  OBVIOUS
<1>2. process[p].aborted \in BOOLEAN /\ process[p].pid \in BOOLEAN
  BY <1>1 DEF ProcessObject
<1> DEFINE flag == process[p].aborted \/ ~process[p].pid
<1>3. flag \in BOOLEAN
  BY <1>2
<1>4. Stopped(p) = [process EXCEPT ![p] = [process[p] EXCEPT !.aborted = flag]]
  BY DEF Stopped
<1> HIDE DEF flag
<1>5. [process[p] EXCEPT !.aborted = flag] \in ProcessObject
      /\ [process[p] EXCEPT !.aborted = flag].name = process[p].name
      /\ [process[p] EXCEPT !.aborted = flag].state = process[p].state
  BY <1>1, <1>3 DEF ProcessObject
<1>6. QED
  BY <1>4, <1>5

LEMMA StopSessionInv ==
    ASSUME ProcessInv, NEW n \in ProcessNames, StopSession(n)
    PROVE  ProcessInv'
<1>1. listed[n] \in Processes /\ process \in [Processes -> ProcessObject]
  BY DEF StopSession, ProcessInv, ProcessTypeOK
<1>2. PICK new \in ProcessObject :
          /\ Stopped(listed[n]) = [process EXCEPT ![listed[n]] = new]
          /\ new.name = process[listed[n]].name /\ new.state = process[listed[n]].state
  BY <1>1, StoppedFacts
<1>3. process' = [process EXCEPT ![listed[n]] = new] /\ UNCHANGED <<listed, operation, serial>>
  BY <1>2 DEF StopSession
<1>4. QED
  BY <1>1, <1>2, <1>3, OneProcessInv

------------------------------------------------------------------------------
\* The type and activity parts through a step of one call on a session.
LEMMA OneCallTypes ==
    ASSUME ProcessTypeOK, ActiveInv, NEW o \in Operations, NEW to \in {"starting", "stopping", "done"},
           NEW p \in Processes, Become(o, to, p),
           process' \in [Processes -> ProcessObject],
           \A q \in Processes : process'[q].name = process[q].name,
           listed' \in [ProcessNames -> Processes \cup {NoProcess}], serial' = serial,
           NamedInv, \A n \in ProcessNames : \/ listed'[n] \in {listed[n], NoProcess}
                                             \/ process[listed'[n]].name = n
    PROVE  ProcessTypeOK' /\ ActiveInv' /\ NamedInv'
<1>1. [pc |-> to, on |-> p] \in Operation
  BY DEF Operation
<1>2. operation' = [operation EXCEPT ![o] = [pc |-> to, on |-> p]]
  BY DEF Become
<1>3. ProcessTypeOK'
  BY <1>1, <1>2 DEF ProcessTypeOK
<1>4. ActiveInv'
  BY <1>2 DEF ProcessTypeOK, ActiveInv, Active
<1>5. NamedInv'
  BY DEF ProcessTypeOK, NamedInv
<1>6. QED
  BY <1>3, <1>4, <1>5

\* Start(o, n) lists one more starting session under n; with a serial client that is
\* sound when no other call is under way and nothing starts or runs under that name.
LEMMA StartInv ==
    ASSUME ProcessInv, NEW o \in Operations, NEW n \in ProcessNames, Start(o, n), serial' = serial,
           serial => /\ \A q \in Operations \ {o} : ~Active(q)
                     /\ \A p \in Processes : process[p].state \in {"starting", "running"} =>
                           process[p].name # n
                     /\ operation[o].pc # "starting"
    PROVE  ProcessInv'
<1>1. PICK p \in Processes :
          /\ process[p].state = "unused" /\ process[p].name = n
          /\ process' = [process EXCEPT ![p].state = "starting"]
          /\ listed' = [listed EXCEPT ![n] = p]
          /\ Become(o, "starting", p)
  BY DEF Start
<1> DEFINE new == [process[p] EXCEPT !.state = "starting"]
<1>2. process[p] \in ProcessObject
  BY DEF ProcessInv, ProcessTypeOK
<1>3. new \in ProcessObject /\ new.name = n /\ new.state = "starting"
  BY <1>1, <1>2 DEF ProcessObject
<1>4. process' = [process EXCEPT ![p] = new]
      /\ operation' = [operation EXCEPT ![o] = [pc |-> "starting", on |-> p]]
  BY <1>1 DEF Become
<1> HIDE DEF new
<1>5. ProcessTypeOK' /\ ActiveInv' /\ NamedInv'
  <2>1. /\ process' \in [Processes -> ProcessObject]
        /\ \A q \in Processes : process'[q].name = process[q].name
        /\ listed' \in [ProcessNames -> Processes \cup {NoProcess}]
        /\ \A m \in ProcessNames : \/ listed'[m] \in {listed[m], NoProcess}
                                   \/ process[listed'[m]].name = m
    BY <1>1, <1>3, <1>4 DEF ProcessInv, ProcessTypeOK
  <2>2. QED
    BY <1>1, <2>1, OneCallTypes DEF ProcessInv
<1>6. AwaitedInv'
  <2> SUFFICES ASSUME serial PROVE AwaitedInv'
    BY DEF AwaitedInv
  <2>1. operation \in [Operations -> Operation] /\ process \in [Processes -> ProcessObject]
        /\ listed \in [ProcessNames -> Processes \cup {NoProcess}]
    BY DEF ProcessInv, ProcessTypeOK
  <2>2. \A q \in Operations \ {o} : ~Active(q) /\ operation'[q] = operation[q]
    BY <1>4, <2>1
  <2>3. operation'[o] = [pc |-> "starting", on |-> p]
    BY <1>4, <2>1
  <2>4. \A q, r \in Operations : Active(q)' /\ Active(r)' => q = r
    BY <2>2, <2>3 DEF Active
  <2>5. \A q \in Processes \ {p} : process'[q] = process[q]
    BY <1>4, <2>1
  <2>6. process'[p] = new /\ listed'[n] = p
    BY <1>1, <1>4, <2>1
  <2>7. \A q \in Processes : process'[q].state = "starting" =>
           \E r \in Operations : operation'[r] = [pc |-> "starting", on |-> q]
    <3> TAKE q \in Processes
    <3>1. CASE q = p
      BY <2>3, <3>1
    <3>2. CASE q # p
      <4>1. process[q].state # "starting"
        <5>1. SUFFICES ASSUME process[q].state = "starting" PROVE FALSE
          OBVIOUS
        <5>2. PICK r \in Operations : operation[r] = [pc |-> "starting", on |-> q]
          BY <5>1 DEF ProcessInv, AwaitedInv
        <5>3. Active(r) /\ operation[r].pc = "starting"
          BY <5>2 DEF Active
        <5>4. QED
          BY <2>2, <5>3
      <4>2. QED
        BY <2>5, <3>2, <4>1
    <3>3. QED
      BY <3>1, <3>2
  <2>8. \A r \in Operations : operation'[r].pc = "starting" =>
           process'[operation'[r].on].state = "starting"
    BY <1>3, <2>2, <2>3, <2>6 DEF Active
  <2>9. \A r \in Operations : operation'[r].pc # "stopping"
    BY <2>2, <2>3 DEF Active
  <2>10. \A q \in Processes : process'[q].state \in {"starting", "running"} =>
           listed'[process'[q].name] = q
    <3> TAKE q \in Processes
    <3>1. CASE q = p
      BY <1>3, <2>6, <3>1
    <3>2. CASE q # p
      BY <1>1, <2>1, <2>5, <3>2 DEF ProcessInv, AwaitedInv
    <3>3. QED
      BY <3>1, <3>2
  <2>11. QED
    BY <2>4, <2>7, <2>8, <2>9, <2>10 DEF AwaitedInv
<1>7. QED
  BY <1>5, <1>6 DEF ProcessInv

LEMMA StartSessionInv ==
    ASSUME ProcessInv, NEW o \in Operations, NEW n \in ProcessNames, StartSession(o, n)
    PROVE  ProcessInv'
<1>1. serial => \A p \in Processes : process[p].state \in {"starting", "running"} =>
                   process[p].name # n
  BY ProcessAssumption DEF ProcessInv, AwaitedInv, StartSession
<1>2. /\ operation[o].pc = "new"
      /\ serial => \A q \in Operations : ~Active(q)
  BY DEF StartSession, Free, Active
<1>3. QED
  BY <1>1, <1>2, StartInv DEF StartSession

\* The wait of a restart is over: with a serial client the session it waited for is the
\* listed one, and has ended.
LEMMA RestartedInv ==
    ASSUME ProcessInv, NEW o \in Operations, Restarted(o)
    PROVE  ProcessInv'
<1> DEFINE p == operation[o].on
           n == process[p].name
<1>1. /\ operation[o].pc = "stopping" /\ process[p].state = "ended"
      /\ Start(o, n) /\ serial' = serial
  BY DEF Restarted, HasStopped
<1>2. p \in Processes /\ n \in ProcessNames
  BY <1>1 DEF ProcessInv, ActiveInv, Active, ProcessTypeOK, ProcessObject
<1>3. serial => \A q \in Operations \ {o} : ~Active(q)
  BY <1>1 DEF ProcessInv, AwaitedInv, Active
<1>4. serial => \A q \in Processes : process[q].state \in {"starting", "running"} =>
                   process[q].name # n
  BY <1>1 DEF ProcessInv, AwaitedInv
<1> HIDE DEF n
<1>5. QED
  BY <1>1, <1>2, <1>3, <1>4, StartInv

\* A call that is over, or waits, and did not list anything.
LEMMA QuietCallInv ==
    ASSUME ProcessInv, NEW o \in Operations, NEW p \in Processes, NEW new \in ProcessObject,
           NEW to \in {"stopping", "done"}, Become(o, to, p),
           process' = [process EXCEPT ![p] = new], UNCHANGED <<listed, serial>>,
           new.name = process[p].name, new.state = process[p].state,
           operation[o].pc # "starting",
           to = "stopping" => /\ listed[process[p].name] = p
                              /\ serial => \A q \in Operations : ~Active(q)
    PROVE  ProcessInv'
<1>1. /\ process' \in [Processes -> ProcessObject]
      /\ \A q \in Processes : process'[q].name = process[q].name
      /\ listed' \in [ProcessNames -> Processes \cup {NoProcess}]
      /\ \A m \in ProcessNames : listed'[m] \in {listed[m], NoProcess}
  BY DEF ProcessInv, ProcessTypeOK
<1>2. ProcessTypeOK' /\ ActiveInv' /\ NamedInv'
  BY <1>1, OneCallTypes DEF ProcessInv
<1>3. \A q \in Processes : process'[q].name = process[q].name
                           /\ process'[q].state = process[q].state
  BY DEF ProcessInv, ProcessTypeOK
<1>4. /\ \A q \in Operations \ {o} : operation'[q] = operation[q]
      /\ operation'[o] = [pc |-> to, on |-> p]
  BY DEF Become, ProcessInv, ProcessTypeOK
<1>5. AwaitedInv'
  <2> SUFFICES ASSUME serial PROVE AwaitedInv'
    BY DEF AwaitedInv
  <2>1. \A q, r \in Operations : Active(q)' /\ Active(r)' => q = r
    BY <1>4 DEF ProcessInv, AwaitedInv, Active
  <2>2. \A q \in Processes : process'[q].state = "starting" =>
           \E r \in Operations : operation'[r] = [pc |-> "starting", on |-> q]
    <3> SUFFICES ASSUME NEW q \in Processes, process'[q].state = "starting"
                 PROVE  \E r \in Operations : operation'[r] = [pc |-> "starting", on |-> q]
      OBVIOUS
    <3>1. PICK r \in Operations : operation[r] = [pc |-> "starting", on |-> q]
      BY <1>3 DEF ProcessInv, AwaitedInv
    <3>2. r # o
      BY <3>1
    <3>3. QED
      BY <1>4, <3>1, <3>2
  <2>3. \A r \in Operations : operation'[r].pc = "starting" =>
           process'[operation'[r].on].state = "starting"
    <3> SUFFICES ASSUME NEW r \in Operations, operation'[r].pc = "starting"
                 PROVE  process'[operation'[r].on].state = "starting"
      OBVIOUS
    <3>1. operation'[r] = operation[r] /\ operation[r].on \in Processes
      BY <1>4 DEF ProcessInv, ActiveInv, Active
    <3>2. QED
      BY <1>3, <3>1 DEF ProcessInv, AwaitedInv
  <2>4. \A r \in Operations : operation'[r].pc = "stopping" =>
           listed'[process'[operation'[r].on].name] = operation'[r].on
    <3> SUFFICES ASSUME NEW r \in Operations, operation'[r].pc = "stopping"
                 PROVE  listed'[process'[operation'[r].on].name] = operation'[r].on
      OBVIOUS
    <3>1. CASE r = o
      BY <1>3, <1>4, <3>1
    <3>2. CASE r # o
      <4>1. operation'[r] = operation[r] /\ operation[r].on \in Processes
        BY <1>4, <3>2 DEF ProcessInv, ActiveInv, Active
      <4>2. QED
        BY <1>3, <4>1 DEF ProcessInv, AwaitedInv
    <3>3. QED
      BY <3>1, <3>2
  <2>5. \A q \in Processes : process'[q].state \in {"starting", "running"} =>
           listed'[process'[q].name] = q
    BY <1>3 DEF ProcessInv, AwaitedInv
  <2>6. QED
    BY <2>1, <2>2, <2>3, <2>4, <2>5 DEF AwaitedInv
<1>6. QED
  BY <1>2, <1>5 DEF ProcessInv

LEMMA RestartTimesOutInv ==
    ASSUME ProcessInv, NEW o \in Operations, RestartTimesOut(o)
    PROVE  ProcessInv'
<1> DEFINE p == operation[o].on
<1>1. p \in Processes /\ operation[o].pc = "stopping" /\ Become(o, "done", p)
      /\ UNCHANGED <<listed, process, serial>>
  BY DEF RestartTimesOut, ProcessInv, ActiveInv, Active
<1>2. process[p] \in ProcessObject /\ process' = [process EXCEPT ![p] = process[p]]
  BY <1>1 DEF ProcessInv, ProcessTypeOK
<1> HIDE DEF p
<1>3. QED
  BY <1>1, <1>2, QuietCallInv

\* A restart begins: with a serial client nothing starts, so the old session is waited for.
LEMMA RestartSessionInv ==
    ASSUME ProcessInv, NEW o \in Operations, NEW n \in ProcessNames, RestartSession(o, n)
    PROVE  ProcessInv'
<1> DEFINE p == listed[n]
<1>1. /\ p \in Processes /\ process[p].name = n /\ operation[o].pc = "new"
      /\ process \in [Processes -> ProcessObject] /\ serial' = serial
      /\ serial => \A q \in Operations : ~Active(q)
  BY DEF RestartSession, Free, Active, ProcessInv, ProcessTypeOK, NamedInv
<1>2. PICK new \in ProcessObject :
          /\ Stopped(p) = [process EXCEPT ![p] = new]
          /\ new.name = process[p].name /\ new.state = process[p].state
  BY <1>1, StoppedFacts
<1>3. CASE process' = Stopped(p) /\ Become(o, "stopping", p) /\ UNCHANGED listed
  <2>1. process' = [process EXCEPT ![p] = new] /\ listed[process[p].name] = p
    BY <1>1, <1>2, <1>3
  <2> HIDE DEF p
  <2>2. QED
    BY <1>1, <1>2, <1>3, <2>1, QuietCallInv
<1>4. CASE process[p].state = "starting" /\ \E q \in Processes :
             /\ process[q].state = "unused" /\ process[q].name = n
             /\ process' = [Stopped(p) EXCEPT ![q].state = "starting"]
             /\ listed' = [listed EXCEPT ![n] = q]
             /\ Become(o, "starting", q)
  <2>1. ~serial
    <3>1. serial => \E r \in Operations : operation[r] = [pc |-> "starting", on |-> p]
      BY <1>1, <1>4 DEF ProcessInv, AwaitedInv
    <3>2. QED
      BY <1>1, <3>1 DEF Active
  <2>2. PICK q \in Processes :
             /\ process[q].state = "unused" /\ process[q].name = n
             /\ process' = [Stopped(p) EXCEPT ![q].state = "starting"]
             /\ listed' = [listed EXCEPT ![n] = q]
             /\ Become(o, "starting", q)
    BY <1>4
  <2> DEFINE begun == [process[q] EXCEPT !.state = "starting"]
  <2>3. process[q] \in ProcessObject /\ q # p
    BY <1>1, <1>4, <2>2
  <2>4. begun \in ProcessObject /\ begun.name = n
    BY <2>2, <2>3 DEF ProcessObject
  <2>5. process' = [[process EXCEPT ![p] = new] EXCEPT ![q] = begun]
    BY <1>1, <1>2, <2>2, <2>3
  <2> HIDE DEF begun
  <2>6. /\ process' \in [Processes -> ProcessObject]
        /\ \A r \in Processes : process'[r].name = process[r].name
        /\ listed' \in [ProcessNames -> Processes \cup {NoProcess}]
        /\ \A m \in ProcessNames : \/ listed'[m] \in {listed[m], NoProcess}
                                   \/ process[listed'[m]].name = m
    BY <1>1, <1>2, <2>2, <2>4, <2>5 DEF ProcessInv, ProcessTypeOK
  <2>7. ProcessTypeOK' /\ ActiveInv' /\ NamedInv'
    BY <1>1, <2>2, <2>6, OneCallTypes DEF ProcessInv
  <2>8. AwaitedInv'
    BY <1>1, <2>1 DEF AwaitedInv
  <2>9. QED
    BY <2>7, <2>8 DEF ProcessInv
<1>5. QED
  BY <1>3, <1>4 DEF RestartSession

\* execute returns or throws: with a serial client its session was the listed one.
LEMMA ExecutedInv ==
    ASSUME ProcessInv, NEW o \in Operations, Executed(o)
    PROVE  ProcessInv'
<1> DEFINE p == operation[o].on
<1>1. /\ p \in Processes /\ operation[o].pc = "starting" /\ serial' = serial
      /\ Become(o, "done", p) /\ process[p] \in ProcessObject
      /\ process[p].name \in ProcessNames
  BY DEF Executed, ProcessInv, ActiveInv, Active, ProcessTypeOK, ProcessObject
<1>2. PICK new \in ProcessObject :
          /\ process' = [process EXCEPT ![p] = new] /\ new.name = process[p].name
          /\ \/ new.state = "running" /\ listed' = listed
             \/ /\ new.state = "ended"
                /\ listed' \in {listed, [listed EXCEPT ![process[p].name] = NoProcess]}
  <2> DEFINE running == [[process[p] EXCEPT !.state = "running"] EXCEPT !.pid = TRUE]
             ended == [process[p] EXCEPT !.state = "ended"]
  <2>1. /\ running \in ProcessObject /\ running.name = process[p].name
        /\ running.state = "running"
        /\ ended \in ProcessObject /\ ended.name = process[p].name
        /\ ended.state = "ended"
    BY <1>1 DEF ProcessObject
  <2>2. \/ process' = [process EXCEPT ![p] = running] /\ listed' = listed
        \/ /\ process' = [process EXCEPT ![p] = ended]
           /\ listed' \in {listed, [listed EXCEPT ![process[p].name] = NoProcess]}
    BY <1>1 DEF Executed, ProcessInv, ProcessTypeOK
  <2> HIDE DEF running, ended
  <2>3. QED
    BY <2>1, <2>2
<1> HIDE DEF p
<1>3. /\ process' \in [Processes -> ProcessObject]
      /\ \A q \in Processes : process'[q].name = process[q].name
      /\ listed' \in [ProcessNames -> Processes \cup {NoProcess}]
      /\ \A m \in ProcessNames : listed'[m] \in {listed[m], NoProcess}
  BY <1>1, <1>2 DEF ProcessInv, ProcessTypeOK
<1>4. ProcessTypeOK' /\ ActiveInv' /\ NamedInv'
  BY <1>1, <1>3, OneCallTypes DEF ProcessInv
<1>5. AwaitedInv'
  <2> SUFFICES ASSUME serial PROVE AwaitedInv'
    BY <1>1 DEF AwaitedInv
  <2>1. \A q \in Operations \ {o} : ~Active(q) /\ operation'[q] = operation[q]
    BY <1>1 DEF ProcessInv, AwaitedInv, Become, ProcessTypeOK, Active
  <2>2. operation'[o] = [pc |-> "done", on |-> p]
    BY <1>1 DEF Become, ProcessInv, ProcessTypeOK
  <2>3. \A q \in Operations : operation'[q].pc \notin {"starting", "stopping"}
    BY <2>1, <2>2 DEF Active
  <2>4. process'[p].state # "starting"
    BY <1>1, <1>2 DEF ProcessInv, ProcessTypeOK
  <2>5. \A q \in Processes \ {p} : process'[q] = process[q] /\ process[q].state # "starting"
    <3> SUFFICES ASSUME NEW q \in Processes \ {p}
                 PROVE  process'[q] = process[q] /\ process[q].state # "starting"
      OBVIOUS
    <3>1. process'[q] = process[q]
      BY <1>2 DEF ProcessInv, ProcessTypeOK
    <3>2. process[q].state = "starting" =>
             \E r \in Operations : operation[r] = [pc |-> "starting", on |-> q]
      BY DEF ProcessInv, AwaitedInv
    <3>3. ASSUME NEW r \in Operations, operation[r] = [pc |-> "starting", on |-> q]
          PROVE  FALSE
      <4>1. Active(r)
        BY <3>3 DEF Active
      <4>2. r = o
        BY <2>1, <4>1
      <4>3. QED
        BY <3>3, <4>2 DEF p
    <3>4. QED
      BY <3>1, <3>2, <3>3
  <2>6. \A q \in Processes : process'[q].state \in {"starting", "running"} =>
           listed'[process'[q].name] = q
    <3> SUFFICES ASSUME NEW q \in Processes, process'[q].state \in {"starting", "running"}
                 PROVE  listed'[process'[q].name] = q
      OBVIOUS
    <3>1. process[p].state = "starting" /\ listed[process[p].name] = p
      BY <1>1 DEF ProcessInv, AwaitedInv, p
    <3>2. CASE q = p
      BY <1>1, <1>2, <2>4, <3>1, <3>2 DEF ProcessInv, ProcessTypeOK
    <3>3. CASE q # p
      <4>1. process[q].state = "running" /\ listed[process[q].name] = q
            /\ process'[q] = process[q]
        BY <2>5, <3>3 DEF ProcessInv, AwaitedInv
      <4>2. process[q].name # process[p].name
        BY <3>1, <3>3, <4>1
      <4>3. process[q].name \in ProcessNames /\ listed \in [ProcessNames -> Processes \cup {NoProcess}]
        BY DEF ProcessInv, ProcessTypeOK, ProcessObject
      <4>4. listed'[process[q].name] = listed[process[q].name]
        BY <1>2, <4>2, <4>3
      <4>5. QED
        BY <4>1, <4>4
    <3>4. QED
      BY <3>2, <3>3
  <2>7. \A q \in Processes : process'[q].state # "starting"
    BY <2>4, <2>5
  <2>8. \A q, r \in Operations : Active(q)' /\ Active(r)' => q = r
    BY <2>3 DEF Active
  <2>9. QED
    BY <2>3, <2>6, <2>7, <2>8 DEF AwaitedInv
<1>6. QED
  BY <1>4, <1>5 DEF ProcessInv

------------------------------------------------------------------------------
\* Every step keeps the invariant.
LEMMA ProcessStepInv == ProcessInv /\ [ProcessNext]_processVars => ProcessInv'
<1> SUFFICES ASSUME ProcessInv, [ProcessNext]_processVars PROVE ProcessInv'
  OBVIOUS
<1>1. CASE \E o \in Operations :
             \/ \E n \in ProcessNames : StartSession(o, n) \/ RestartSession(o, n)
             \/ Executed(o) \/ Restarted(o) \/ RestartTimesOut(o)
  BY <1>1, StartSessionInv, RestartSessionInv, ExecutedInv, RestartedInv, RestartTimesOutInv
<1>2. CASE \E p \in Processes : ProcessEnds(p)
  BY <1>2, ProcessEndsInv
<1>3. CASE \E n \in ProcessNames : StopSession(n)
  BY <1>3, StopSessionInv
<1>4. CASE UNCHANGED processVars
  BY <1>4 DEF processVars, ProcessInv, ProcessTypeOK, ActiveInv, NamedInv, AwaitedInv, Active
<1>5. QED
  BY <1>1, <1>2, <1>3, <1>4 DEF ProcessNext

\* The invariant holds throughout.
THEOREM ProcessInvariant == ProcessSpec => []ProcessInv
  BY ProcessInitInv, ProcessStepInv, PTL DEF ProcessSpec

\* Every variable stays in its domain (the Map and records of process-manager.ts 81-99).
THEOREM ProcessTypeCorrect == ProcessSpec => []ProcessTypeOK
<1>1. ProcessInv => ProcessTypeOK
  BY DEF ProcessInv
<1>2. QED
  BY <1>1, ProcessInvariant, PTL

\* A client that makes one call at a time finds every running process under its name,
\* through stops, restarts that time out and starts that fail (process-manager.ts
\* 332-425, 599-648).
THEOREM ReachableCorrect == ProcessSpec => []RunningIsListed
<1>1. ProcessInv => RunningIsListed
  BY DEF ProcessInv, AwaitedInv, RunningIsListed
<1>2. QED
  BY <1>1, ProcessInvariant, PTL

------------------------------------------------------------------------------
(***************************************************************************)
(* The run of the four parts.                                              *)
(***************************************************************************)

\* A caller that awaits makes the calls of any caller, one at a time.
LEMMA AwaitingCalls ==
    ASSUME TypeOK, Awaiting!Next
    PROVE  /\ Next
           /\ \A a, b \in Appends : AppendCall(a) => ~InFlight(b)
<1>c. \A a \in Appends : AppendCall(a) => pc[a] = "idle" /\ pc'[a] # "idle"
  BY DEF AppendCall, TypeOK
<1>1. ASSUME NEW a \in Appends, Awaiting!AppendCall(a)
      PROVE  AppendCall(a) /\ \A b \in Appends : ~InFlight(b)
  BY <1>1 DEF Awaiting!AppendCall, Awaiting!InFlight, AppendCall, InFlight
<1>2. ASSUME NEW a \in Appends, Awaiting!Step(a)
      PROVE  Step(a) /\ \A b \in Appends : ~AppendCall(b)
  <2>1. Step(a)
    BY <1>2
       DEF Awaiting!Step, Awaiting!ReadFile, Awaiting!ReadError,
           Awaiting!FinishInit, Awaiting!InitThrows, Awaiting!Compute,
           Awaiting!WriteLine, Awaiting!WriteError, Awaiting!UpdateHash,
           Awaiting!LastLine, Awaiting!NoLine, Awaiting!BadLine,
           Awaiting!HashLine, Awaiting!Parses, Awaiting!ComputeHash,
           Awaiting!Torn, Step, ReadFile, ReadError, FinishInit, InitThrows,
           Compute, WriteLine, WriteError, UpdateHash, LastLine, NoLine,
           BadLine, HashLine, Parses, ComputeHash, Torn
  <2>2. pc[a] # "idle" /\ \A b \in Appends \ {a} : pc'[b] = pc[b]
    BY <2>1 DEF Step, ReadFile, ReadError, FinishInit, InitThrows, Compute,
                WriteLine, WriteError, UpdateHash, TypeOK
  <2> QED BY <1>c, <2>1, <2>2
<1>3. ASSUME Awaiting!Crash PROVE Crash /\ \A b \in Appends : ~AppendCall(b)
  <2>1. Crash
    BY <1>3 DEF Awaiting!Crash, Awaiting!Torn, Awaiting!InFlight, Crash, Torn,
                InFlight
  <2>2. \A b \in Appends : pc[b] = "idle" => pc'[b] = "idle"
    BY <2>1 DEF Crash, InFlight
  <2> QED BY <1>c, <2>1, <2>2
<1> QED BY <1>1, <1>2, <1>3 DEF Awaiting!Next, Next

\* A behaviour of the run is one of each part, of which the others never move: what is
\* proved of a part holds in the run.
LEMMA PartSpecs == HostSpec => BusSpec /\ ReplSpec /\ ProcessSpec
<1>1. HostInit => BusInit /\ ReplInit /\ ProcessInit
  BY DEF HostInit
<1>2. [HostNext]_hostVars =>
         [BusNext]_busVars /\ [ReplNext]_replVars /\ [ProcessNext]_processVars
  BY DEF HostNext, hostVars
<1> QED BY <1>1, <1>2, PTL DEF HostSpec, BusSpec, ReplSpec, ProcessSpec

\* Callers that await are callers: the run's ledger is one of AuditLedger.
LEMMA LedgerSpec == HostSpec => Spec
<1>1. HostInit => Init /\ TypeOK
  BY TypeInit DEF HostInit
<1>2. TypeOK /\ [HostNext]_hostVars => [Next]_vars /\ TypeOK'
  <2> SUFFICES ASSUME TypeOK, [HostNext]_hostVars PROVE [Next]_vars
    BY TypeStep
  <2>1. Awaiting!Next => Next
    BY AwaitingCalls
  <2> QED BY <2>1 DEF HostNext, hostVars
<1> QED BY <1>1, <1>2, PTL DEF HostSpec, Spec

\* In the run callers that await never make "/audit verify" report a broken chain
\* (ledger.ts 70-95), while behaviours of callers that do not are beside theirs.
THEOREM AwaitedChain == HostSpec => []NoFalseTamperAwaited
<1> DEFINE Inv == part = "awaited" => SerialInv
<1>1. HostInit => Inv
  BY SerialInitially DEF HostInit
<1>2. Inv /\ [HostNext]_hostVars => Inv'
  <2> SUFFICES ASSUME part = "awaited", SerialInv, [HostNext]_hostVars
               PROVE  SerialInv'
    BY DEF HostNext, hostVars
  <2>1. CASE Awaiting!Next
    BY <2>1, AwaitingCalls, SerialStep DEF SerialInv
  <2>2. CASE UNCHANGED vars
    <3>1. \A a \in Appends : ~AppendCall(a)
      BY <2>2 DEF vars, AppendCall, SerialInv, TypeOK
    <3> QED BY <2>2, <3>1, SerialStep
  <2> QED BY <2>1, <2>2 DEF HostNext, hostVars
<1>3. Inv => NoFalseTamperAwaited BY DEF NoFalseTamperAwaited, SerialInv
<1> QED BY <1>1, <1>2, <1>3, PTL DEF HostSpec

\* The variables of the four parts stay in their domains, whatever the policy engine,
\* the sessions, the process manager and the ledger are asked to do.
THEOREM HostTypes == HostSpec => []HostTypeOK
<1>1. BusInv /\ ReplInv /\ ProcessInv /\ TypeOK => HostTypeOK
  BY DEF BusInv, ReplInv, ProcessInv, HostTypeOK
<1> QED BY PartSpecs, LedgerSpec, BusInvariant, ReplInvariant, ProcessInvariant,
           TypeCorrect, <1>1, PTL
=============================================================================
