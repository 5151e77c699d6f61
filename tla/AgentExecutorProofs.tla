------------------------ MODULE AgentExecutorProofs ------------------------
(***************************************************************************)
(* Proofs about the agent executor: its types, that a task never has two   *)
(* main loops, that a task canceled or failed at rest stays so, and that   *)
(* the main loop never waits on a promise nobody will settle.              *)
(***************************************************************************)
EXTENDS AgentExecutor, TLAPS

USE DEF TaskObject, States, CallStatus, OpenStatus

-----------------------------------------------------------------------------
(* The operators on Task objects give Task objects.                         *)

LEMMA NewTaskType ==
    ASSUME NEW s \in States
    PROVE  NewTask(s) \in TaskObject
BY DEF NewTask

LEMMA SetStateType ==
    ASSUME NEW t \in TaskObject, NEW s \in States
    PROVE  SetState(t, s) \in TaskObject
BY DEF SetState

LEMMA UpdateType ==
    ASSUME NEW t \in TaskObject
    PROVE  /\ ToolCallsUpdate(t) \in TaskObject
           /\ ToolCallsUpdate(t).state \in {t.state, "input-required"}
           /\ ToolCallsUpdate(t).call = t.call
           /\ ToolCallsUpdate(t).signal = t.signal
<1> DEFINE pending == (t.pending \ Batch(t)) \cup Open(t)
           reset   == t.pending = {} /\ pending # {}
           resolve == t.pending # {} /\ pending = {}
           asks    == /\ pending \cap InStatus(t, "awaiting_approval") # {}
                      /\ pending \cap InStatus(t, "executing") = {}
                      /\ ~t.skip
           waiting == IF reset \/ resolve THEN {} ELSE t.waiting
           resolved == IF resolve THEN t.resolved \cup t.waiting ELSE t.resolved
           details == t.details \cup InStatus(t, "awaiting_approval")
           state == IF asks THEN "input-required" ELSE t.state
<1>1. pending \in SUBSET Calls BY DEF Batch, Open
<1>2. waiting \in SUBSET Messages /\ resolved \in SUBSET Messages OBVIOUS
<1>3. details \in SUBSET Calls BY DEF InStatus
<1>4. state \in States /\ state \in {t.state, "input-required"} OBVIOUS
<1>5. ToolCallsUpdate(t) = [t EXCEPT !.pending = pending, !.waiting = waiting,
                              !.resolved = resolved, !.details = details,
                              !.state = state]
  BY DEF ToolCallsUpdate
<1> HIDE DEF pending, reset, resolve, asks, waiting, resolved, details, state
<1> DEFINE u == [t EXCEPT !.pending = pending, !.waiting = waiting,
                          !.resolved = resolved, !.details = details, !.state = state]
<1>6. u \in TaskObject BY <1>1, <1>2, <1>3, <1>4
<1>7. u.state = state /\ u.call = t.call /\ u.signal = t.signal
  OBVIOUS
<1>8. ToolCallsUpdate(t) = u BY <1>5
<1> HIDE DEF u
<1> QED BY <1>4, <1>6, <1>7, <1>8

LEMMA NotifyType ==
    ASSUME NEW t \in TaskObject
    PROVE  /\ NotifyCompletion(t) \in TaskObject
           /\ NotifyCompletion(t).state \in {t.state, "input-required"}
<1> DEFINE u == ToolCallsUpdate(t)
           done == u.done \cup {<<c, u.call[c]>> : c \in Batch(u)}
<1>1. u \in TaskObject /\ u.state \in {t.state, "input-required"} BY UpdateType
<1>2. CASE Open(u) # {} BY <1>1, <1>2 DEF NotifyCompletion
<1>3. CASE Open(u) = {}
  <2>1. \A c \in Batch(u) : c \in Calls /\ u.call[c] \in {"success", "cancelled"}
    BY <1>1, <1>3 DEF Batch, Open
  <2>2. done \in SUBSET (Calls \X {"success", "cancelled"})
    BY <1>1, <2>1
  <2> DEFINE none == [c \in Calls |-> "none"]
  <2>3. none \in [Calls -> CallStatus] OBVIOUS
  <2>4. NotifyCompletion(t) = [u EXCEPT !.done = done, !.call = none, !.signal = None]
    BY <1>3 DEF NotifyCompletion
  <2> HIDE DEF u, done, none
  <2>5. [u EXCEPT !.done = done, !.call = none, !.signal = None] \in TaskObject
    BY <1>1, <2>2, <2>3
  <2>6. [u EXCEPT !.done = done, !.call = none, !.signal = None].state = u.state
    BY <1>1
  <2> QED BY <1>1, <2>4, <2>5, <2>6
<1> QED BY <1>2, <1>3

LEMMA SetCall ==
    ASSUME NEW t \in TaskObject, NEW f \in [Calls -> CallStatus]
    PROVE  [t EXCEPT !.call = f] \in TaskObject
OBVIOUS

LEMMA CancelAllType ==
    ASSUME NEW t \in TaskObject
    PROVE  /\ CancelAll(t) \in TaskObject
           /\ CancelAll(t).state \in {t.state, "input-required"}
<1> DEFINE f == [c \in Calls |-> IF t.call[c] \in OpenStatus THEN "cancelled"
                                 ELSE t.call[c]]
           u == [t EXCEPT !.call = f]
<1>1. f \in [Calls -> CallStatus] OBVIOUS
<1>2. u \in TaskObject /\ u.state = t.state
  <2> HIDE DEF f
  <2> QED BY <1>1
<1>3. CancelAll(t) = NotifyCompletion(u) BY DEF CancelAll
<1> HIDE DEF u
<1> QED BY <1>2, <1>3, NotifyType

LEMMA CancelPendingType ==
    ASSUME NEW t \in TaskObject
    PROVE  /\ CancelPendingTools(t) \in TaskObject
           /\ CancelPendingTools(t).state = t.state
           /\ CancelPendingTools(t).call = t.call
<1> DEFINE rejected == IF t.pending # {} THEN t.rejected \cup t.waiting ELSE t.rejected
           unhandled == t.pending # {} /\ t.waiting = {}
<1>1. rejected \in SUBSET Messages /\ unhandled \in BOOLEAN OBVIOUS
<1>2. CancelPendingTools(t) = [t EXCEPT !.pending = {}, !.waiting = {},
                                 !.rejected = rejected, !.unhandled = unhandled]
  BY DEF CancelPendingTools
<1> HIDE DEF rejected, unhandled
<1> QED BY <1>1, <1>2

LEMMA ConfirmedType ==
    ASSUME NEW t \in TaskObject, NEW s \in Answers, Asking \subseteq Calls
    PROVE  Confirmed(t, s) \subseteq TaskObject
<1> DEFINE u == [t EXCEPT !.skip = (s.outcome = "edit")]
           f == [t.call EXCEPT ![s.call] = "executing"]
           v == [u EXCEPT !.call = f]
<1>1. u \in TaskObject /\ u.call = t.call BY DEF Answers
<1>2. f \in [Calls -> CallStatus] BY DEF Answers
<1>3. v \in TaskObject
  <2> HIDE DEF u, f
  <2> QED BY <1>1, <1>2
<1>4. v = [u EXCEPT !.call[s.call] = "executing"] BY <1>1
<1>5. Confirmed(t, s) \subseteq {CancelAll(u), ToolCallsUpdate(u), ToolCallsUpdate(v), u}
  BY <1>4 DEF Confirmed, Answers
<1> HIDE DEF u, v
<1> QED BY <1>1, <1>3, <1>5, CancelAllType, UpdateType

LEMMA AnswerHandledType ==
    ASSUME NEW m \in Messages, NEW t \in TaskObject
    PROVE  AnswerHandled(m, t) \in TaskObject
<1> DEFINE answered == IF says[m].outcome = "editor" THEN {} ELSE {says[m].call}
           details == t.details \ answered
           u == [t EXCEPT !.details = details, !.skip = FALSE]
<1>1. details \in SUBSET Calls OBVIOUS
<1>2. u \in TaskObject
  <2> HIDE DEF details
  <2> QED BY <1>1
<1>3. AnswerHandled(m, t) \in {u, SetState(u, "working")} BY DEF AnswerHandled
<1> HIDE DEF u
<1> QED BY <1>2, <1>3, SetStateType

LEMMA AnswerThrowsType ==
    ASSUME NEW m \in Messages, NEW t \in TaskObject
    PROVE  AnswerThrows(m, t) \in TaskObject
<1> DEFINE u == [t EXCEPT !.skip = FALSE]
           c == says[m].call
           pending == u.pending \ {c}
           resolve == u.pending = {c}
           waiting == IF resolve THEN {} ELSE u.waiting
           resolved == IF resolve THEN u.resolved \cup u.waiting ELSE u.resolved
<1>1. u \in TaskObject OBVIOUS
<1>2. AnswerThrows(m, t) = [u EXCEPT !.pending = pending, !.waiting = waiting,
                                     !.resolved = resolved]
  BY DEF AnswerThrows, ResolveToolCall
<1> HIDE DEF u
<1>3. /\ pending \in SUBSET Calls /\ waiting \in SUBSET Messages
      /\ resolved \in SUBSET Messages
  BY <1>1
<1> HIDE DEF pending, waiting, resolved
<1> QED BY <1>1, <1>2, <1>3

LEMMA AnswerEndsType ==
    ASSUME NEW m \in Messages, NEW t \in TaskObject
    PROVE  AnswerEnds(m, t) \subseteq TaskObject
BY AnswerHandledType, AnswerThrowsType DEF AnswerEnds

-----------------------------------------------------------------------------
(* Where an execution works on an object it has one, and the like: what the *)
(* types of the next state rest on.                                         *)

Working == MainPcs \cup SidePcs \cup {"ready", "savingNew"}

Equipped ==
    \A m \in Messages :
       /\ pc[m] \in Working => on[m] \in Tasks
       /\ pc[m] = "reconstructing" => loaded[m] \in States
       /\ pc[m] \in {"confirm", "sideConfirm"} => says[m] \in Answers
       /\ pc[m] \in {"savingNew", "saving"} => saving[m] \in States

IInv == TypeOK /\ Equipped /\ OneMainLoop

USE DEF MainPcs, SidePcs, PcValues, Working

LEMMA PutType ==
    ASSUME TypeOK, NEW w \in Tasks, NEW t \in TaskObject, Put(w, t)
    PROVE  /\ task' \in [Tasks -> TaskObject]
           /\ task'[w].state = t.state /\ task'[w].call = t.call
           /\ \A v \in Tasks : v # w => task'[v] = task[v]
BY DEF Put, TypeOK

LEMMA DownInv ==
    ASSUME IInv, Down, used' \subseteq Calls,
           cancels' \in 0..MaxCancels, restarts' \in 0..MaxRestarts, env' = env
    PROVE  IInv'
<1> USE DEF IInv
<1>1. NewTask("submitted") \in TaskObject BY NewTaskType
<1>2. task' \in [Tasks -> TaskObject] BY <1>1 DEF Down
<1>3. pc' \in [Messages -> {"new", "done"}] BY DEF Down
<1>a. store' \in States \cup {None} BY DEF Down, Stored, TypeOK
<1>4. TypeOK' BY <1>2, <1>3, <1>a DEF Down, TypeOK
<1>5. Equipped' BY <1>3 DEF Equipped
<1>6. OneMainLoop' BY <1>3 DEF Down, OneMainLoop, Main
<1> QED BY <1>4, <1>5, <1>6

LEMMA FinishInv ==
    ASSUME IInv, NEW m \in Messages, pc[m] \in MainPcs, NEW t \in TaskObject,
           Finish(m, t), UNCHANGED Bounds
    PROVE  IInv'
<1> USE DEF IInv
<1>0. used' \subseteq Calls /\ cancels' \in 0..MaxCancels
      /\ restarts' \in 0..MaxRestarts /\ env' = env
  BY DEF Bounds, TypeOK
<1>1. CASE Exits(t)
  <2>1. Down BY <1>1 DEF Finish
  <2> QED BY <2>1, <1>0, DownInv DEF TypeOK
<1>2. CASE ~Exits(t)
  <2>1. /\ Put(on[m], t) /\ executing' = FALSE /\ Save(m, t.state)
        /\ IF InMemory THEN Leave(m)
           ELSE /\ Goto(m, "saving") /\ UNCHANGED <<on, loaded>>
        /\ UNCHANGED <<cache, says, aborted, cancelSave>>
    BY <1>2 DEF Finish, Snapshot
  <2>2. on[m] \in Tasks /\ t.state \in States BY DEF Equipped
  <2>3. task' \in [Tasks -> TaskObject] BY <2>1, <2>2, PutType
  <2>4. /\ store' \in States \cup {None} /\ saving' \in [Messages -> States \cup {None}]
        /\ ~InMemory => saving' = [saving EXCEPT ![m] = t.state]
        /\ InMemory => saving' = saving
    BY <2>1, <2>2 DEF Save, TypeOK
  <2>5. /\ pc' \in [Messages -> PcValues]
        /\ pc'[m] = IF InMemory THEN "done" ELSE "saving"
        /\ \A n \in Messages \ {m} : pc'[n] = pc[n]
    <3>1. CASE InMemory
      <4>1. pc' = [pc EXCEPT ![m] = "done"] BY <2>1, <3>1 DEF Leave, Goto
      <4>2. pc \in [Messages -> PcValues] /\ "done" \in PcValues BY DEF TypeOK
      <4> QED BY <3>1, <4>1, <4>2 DEF InMemory
    <3>2. CASE ~InMemory
      <4>1. pc' = [pc EXCEPT ![m] = "saving"] BY <2>1, <3>2 DEF Goto
      <4>2. pc \in [Messages -> PcValues] /\ "saving" \in PcValues BY DEF TypeOK
      <4> QED BY <3>2, <4>1, <4>2 DEF InMemory
    <3> QED BY <3>1, <3>2
  <2>6. /\ on' \in [Messages -> Tasks \cup {None}]
        /\ loaded' \in [Messages -> States \cup {None}]
        /\ \A n \in Messages \ {m} : on'[n] = on[n] /\ loaded'[n] = loaded[n]
    BY <2>1 DEF Leave, TypeOK
  <2>10. /\ cache' = cache /\ says' = says /\ aborted' = aborted
         /\ cancelSave' = cancelSave /\ executing' = FALSE
    BY <2>1
  <2>7. TypeOK'
    <3>1. /\ used' = used /\ cancels' = cancels /\ restarts' = restarts
          /\ env' = env
      BY <1>0 DEF Bounds
    <3>2. pc' \in [Messages -> PcValues] BY <2>5
    <3> QED BY <2>3, <2>4, <3>2, <2>6, <2>10, <3>1 DEF TypeOK
  <2>8. Equipped'
    BY <2>1, <2>2, <2>4, <2>5, <2>6 DEF Equipped, TypeOK
  <2>9. OneMainLoop' BY <2>1, <2>5 DEF OneMainLoop, Main
  <2> QED BY <2>7, <2>8, <2>9
<1> QED BY <1>1, <1>2

LEMMA CatchInv ==
    ASSUME IInv, NEW m \in Messages, pc[m] \in MainPcs, Catch(m), UNCHANGED Bounds
    PROVE  IInv'
<1> DEFINE r == [task[on[m]] EXCEPT !.rejected = @ \ {m}]
           t == CancelPendingTools(r)
<1>1. task[on[m]] \in TaskObject BY DEF IInv, Equipped, TypeOK
<1>2. r \in TaskObject BY <1>1
<1>3. t \in TaskObject
  <2> HIDE DEF r
  <2> QED BY <1>2, CancelPendingType
<1>4. PICK u \in {t, SetState(t, "input-required"), SetState(t, "failed")} :
         Finish(m, u)
  BY DEF Catch
<1>5. u \in TaskObject
  <2> HIDE DEF t
  <2> QED BY <1>3, <1>4, SetStateType
<1> QED BY <1>4, <1>5, FinishInv

LEMMA StepInv ==
    ASSUME IInv, NEW m \in Messages, pc[m] \in MainPcs, NEW t \in TaskObject,
           NEW l \in MainPcs \ {"confirm"}, Step(m, t, l), used' \subseteq Calls,
           UNCHANGED <<cancels, restarts, env>>
    PROVE  IInv'
<1> USE DEF IInv
<1>0. cancels' \in 0..MaxCancels /\ restarts' \in 0..MaxRestarts /\ env' = env
  BY DEF TypeOK
<1>1. CASE Exits(t)
  <2>1. Down BY <1>1 DEF Step
  <2> QED BY <2>1, <1>0, DownInv DEF TypeOK
<1>2. CASE ~Exits(t)
  <2>1. /\ Put(on[m], t) /\ Goto(m, l)
        /\ UNCHANGED <<cache, executing, store, on, Request, saving, cancelSave>>
    BY <1>2 DEF Step
  <2>2. on[m] \in Tasks BY DEF Equipped
  <2>3. task' \in [Tasks -> TaskObject] BY <2>1, <2>2, PutType
  <2>5. /\ pc' \in [Messages -> PcValues] /\ pc'[m] = l
        /\ \A n \in Messages \ {m} : pc'[n] = pc[n]
    BY <2>1 DEF Goto, TypeOK
  <2>7. TypeOK' BY <2>1, <2>3, <2>5, <1>0 DEF TypeOK, Request
  <2>8. Equipped' BY <2>1, <2>2, <2>5 DEF Equipped, Request
  <2>9. OneMainLoop' BY <2>1, <2>5 DEF OneMainLoop, Main
  <2> QED BY <2>7, <2>8, <2>9
<1> QED BY <1>1, <1>2

LEMMA RunInv ==
    ASSUME IInv, NEW m \in Messages, pc[m] \in {"received", "ready"},
           NEW w \in Tasks, Run(m, w), Asking \subseteq Calls,
           UNCHANGED <<cache, store, says, aborted, saving, cancelSave, Bounds>>
    PROVE  IInv'
<1> USE DEF IInv
<1> DEFINE t == task[w]  s == says[m]
<1>1. t \in TaskObject BY DEF TypeOK
<1>2. /\ UNCHANGED <<cache, store, says, aborted, saving, cancelSave>>
      /\ UNCHANGED <<used, cancels, restarts, env>>
  BY DEF Bounds
<1>3. CASE Leave(m) /\ UNCHANGED task /\ executing' \in BOOLEAN
           /\ (executing' = executing \/ (executing /\ executing'))
  <2>1. /\ pc' \in [Messages -> PcValues] /\ pc'[m] = "done"
        /\ \A n \in Messages \ {m} : pc'[n] = pc[n]
    BY <1>3 DEF Leave, Goto, TypeOK
  <2>2. TypeOK' BY <1>2, <1>3, <2>1 DEF Leave, TypeOK
  <2>3. Equipped' BY <1>2, <1>3, <2>1 DEF Leave, Equipped, TypeOK
  <2>4. executing' = executing BY <1>3 DEF TypeOK
  <2>5. OneMainLoop' BY <2>1, <2>4 DEF OneMainLoop, Main
  <2> QED BY <2>2, <2>3, <2>5
<1>4. ASSUME executing' = TRUE, on' = [on EXCEPT ![m] = w], UNCHANGED loaded,
             task' \in [Tasks -> TaskObject],
             NEW l \in MainPcs, NEW k \in SidePcs,
             Goto(m, IF ~executing THEN l ELSE k),
             l = "confirm" => s \in Answers, k = "sideConfirm" => s \in Answers
      PROVE  IInv'
  <2>1. /\ pc' \in [Messages -> PcValues]
        /\ pc'[m] = IF ~executing THEN l ELSE k
        /\ \A n \in Messages \ {m} : pc'[n] = pc[n]
    BY <1>4 DEF Goto, TypeOK
  <2>2. TypeOK' BY <1>2, <1>4, <2>1 DEF TypeOK
  <2>3. Equipped' BY <1>2, <1>4, <2>1 DEF Equipped, TypeOK
  <2>4. OneMainLoop'
    <3>1. CASE executing
      <4>1. \A n \in Messages : Main(n)' <=> Main(n) BY <2>1, <3>1 DEF Main
      <4> QED BY <1>4, <3>1, <4>1 DEF OneMainLoop
    <3>2. CASE ~executing
      <4>1. \A n \in Messages : ~Main(n) BY <3>2 DEF OneMainLoop
      <4>2. \A n \in Messages : Main(n)' <=> n = m BY <2>1, <3>2, <4>1 DEF Main
      <4> QED BY <1>4, <4>2 DEF OneMainLoop
    <3> QED BY <3>1, <3>2
  <2> QED BY <2>2, <2>3, <2>4
<1>5. CASE t.state \in Final /\ Leave(m) /\ UNCHANGED <<task, executing>>
  BY <1>3, <1>5 DEF TypeOK
<1>6. CASE /\ t.state \notin Final /\ executing' = TRUE
           /\ on' = [on EXCEPT ![m] = w] /\ UNCHANGED loaded
           /\ s = Text /\ Put(w, SetState(t, "working"))
           /\ Goto(m, IF ~executing THEN "stream" ELSE "side")
  <2>1. SetState(t, "working") \in TaskObject BY <1>1, SetStateType
  <2>2. task' \in [Tasks -> TaskObject] BY <1>6, <2>1, PutType
  <2> QED BY <1>4, <1>6, <2>2
<1>7. CASE /\ t.state \notin Final /\ executing' = TRUE
           /\ on' = [on EXCEPT ![m] = w] /\ UNCHANGED loaded
           /\ s # Text /\ \E u \in Confirmed(t, s) : Put(w, u)
           /\ Goto(m, IF ~executing THEN "confirm" ELSE "sideConfirm")
  <2>1. s \in Answers BY <1>7 DEF TypeOK
  <2>2. Confirmed(t, s) \subseteq TaskObject BY <1>1, <2>1, ConfirmedType
  <2>3. task' \in [Tasks -> TaskObject] BY <1>7, <2>2, PutType
  <2> QED BY <1>4, <1>7, <2>1, <2>3
<1>8. CASE /\ t.state \notin Final /\ executing' = TRUE /\ ~executing
           /\ Goto(m, "answered")
           /\ on' = [on EXCEPT ![m] = w] /\ UNCHANGED <<loaded, task>>
  <2>1. Goto(m, IF ~executing THEN "answered" ELSE "side") BY <1>8
  <2> QED BY <1>4, <1>8, <2>1 DEF TypeOK
<1>9. CASE executing' = TRUE /\ executing /\ Leave(m) /\ UNCHANGED task
  BY <1>3, <1>9
<1> QED BY <1>5, <1>6, <1>7, <1>8, <1>9 DEF Run, HasMainLoop, TypeOK

\* A step that moves execution m outside the main loop, from f to l, and leaves the
\* Task objects alone.
LEMMA MoveInv ==
    ASSUME IInv, NEW m \in Messages, pc[m] \notin MainPcs,
           NEW l \in PcValues \ (MainPcs \cup SidePcs), Goto(m, l),
           task' \in [Tasks -> TaskObject], cache' \in Tasks \cup {None},
           store' \in States \cup {None}, executing' = executing,
           on' \in [Messages -> Tasks \cup {None}],
           loaded' \in [Messages -> States \cup {None}],
           says' \in [Messages -> Answers \cup {Text}],
           saving' \in [Messages -> States \cup {None}],
           \A n \in Messages \ {m} : /\ on'[n] = on[n] /\ loaded'[n] = loaded[n]
                                     /\ says'[n] = says[n] /\ saving'[n] = saving[n],
           l \in {"ready", "savingNew"} => on'[m] \in Tasks,
           l = "reconstructing" => loaded'[m] \in States,
           l \in {"savingNew", "saving"} => saving'[m] \in States,
           UNCHANGED <<aborted, cancelSave, Bounds>>
    PROVE  IInv'
<1> USE DEF IInv
<1>1. /\ pc' \in [Messages -> PcValues] /\ pc'[m] = l
      /\ \A n \in Messages \ {m} : pc'[n] = pc[n]
  BY DEF Goto, TypeOK
<1>2. TypeOK' BY <1>1 DEF TypeOK, Bounds
<1>3. Equipped' BY <1>1 DEF Equipped
<1>4. OneMainLoop' BY <1>1 DEF OneMainLoop, Main
<1> QED BY <1>2, <1>3, <1>4

\* A step that changes only a Task object, or the bounds, the store, the signals.
LEMMA ObjectInv ==
    ASSUME IInv, task' \in [Tasks -> TaskObject],
           UNCHANGED <<cache, executing, pc, on, loaded, says, saving, used, restarts, env>>,
           store' \in States \cup {None}, aborted' \in [Messages -> BOOLEAN],
           cancelSave' \in States \cup {None}, cancels' \in 0..MaxCancels
    PROVE  IInv'
<1> USE DEF IInv
<1>2. TypeOK' BY DEF TypeOK
<1>3. Equipped' BY DEF Equipped
<1>4. OneMainLoop' BY DEF OneMainLoop, Main
<1> QED BY <1>2, <1>3, <1>4

LEMMA TurnInv ==
    ASSUME IInv, NEW m \in Messages, pc[m] \in MainPcs, NEW t \in TaskObject,
           Turn(m, t), UNCHANGED Bounds
    PROVE  IInv'
<1> DEFINE u == [t EXCEPT !.done = {}]
<1>1. u \in TaskObject OBVIOUS
<1>2. /\ SetState(u, "working") \in TaskObject
      /\ SetState(u, "input-required") \in TaskObject
  BY <1>1, SetStateType
<1> HIDE DEF u
<1>3. CASE Catch(m) BY <1>3, CatchInv
<1>4. CASE Step(m, SetState(u, "working"), "stream")
  <2>1. used' \subseteq Calls /\ UNCHANGED <<cancels, restarts, env>>
    BY DEF Bounds, IInv, TypeOK
  <2> QED BY <1>2, <1>4, <2>1, StepInv
<1>5. CASE Finish(m, SetState(u, "input-required"))
  BY <1>2, <1>5, FinishInv
<1> QED BY <1>3, <1>4, <1>5 DEF Turn, u

LEMMA SchedulesInv ==
    ASSUME IInv, NEW m \in Messages, pc[m] \in MainPcs, NEW t \in TaskObject,
           Schedules(m, t)
    PROVE  IInv'
<1>1. PICK asks \in (SUBSET (Calls \ used)) \ {{}} :
        /\ used' = used \cup asks
        /\ Step(m, ToolCallsUpdate([t EXCEPT
                        !.call = [c \in Calls |-> IF c \in asks THEN "scheduled"
                                                  ELSE @[c]],
                        !.signal = m]), "schedule")
  BY DEF Schedules
<1> DEFINE f == [c \in Calls |-> IF c \in asks THEN "scheduled" ELSE t.call[c]]
           u == [t EXCEPT !.call = f, !.signal = m]
<1>2. f \in [Calls -> CallStatus] OBVIOUS
<1>3. u \in TaskObject
  <2> HIDE DEF f
  <2> QED BY <1>2
<1>4. Step(m, ToolCallsUpdate(u), "schedule") BY <1>1
<1>5. ToolCallsUpdate(u) \in TaskObject
  <2> HIDE DEF u
  <2> QED BY <1>3, UpdateType
<1>6. used' \subseteq Calls BY <1>1 DEF IInv, TypeOK
<1>7. UNCHANGED <<cancels, restarts, env>> BY DEF Schedules
<1> HIDE DEF u
<1> QED BY <1>4, <1>5, <1>6, <1>7, StepInv

LEMMA LoopInv ==
    ASSUME IInv, NEW m \in Messages, Settles(m) \/ Streams(m)
    PROVE  IInv'
<1> DEFINE t == task[on[m]]
<1>0. pc[m] \in Working => on[m] \in Tasks /\ t \in TaskObject
  BY DEF IInv, Equipped, TypeOK
<1>b. ASSUME UNCHANGED Bounds PROVE used' \subseteq Calls /\ UNCHANGED <<cancels, restarts, env>>
  BY <1>b DEF Bounds, IInv, TypeOK
<1> HIDE DEF t
<1>1. CASE StreamThrows(m) BY <1>1, CatchInv DEF StreamThrows
<1>2. CASE StreamCancels(m)
  <2>0. pc[m] = "stream" /\ UNCHANGED Bounds BY <1>2 DEF StreamCancels
  <2>1. CancelPendingTools(t) \in TaskObject BY <1>0, <2>0, CancelPendingType
  <2>2. PICK s \in {"input-required", t.state} :
           Step(m, SetState(CancelPendingTools(t), s), "stream")
    BY <1>2 DEF StreamCancels, t
  <2>3. s \in States BY <1>0, <2>0
  <2>4. SetState(CancelPendingTools(t), s) \in TaskObject BY <2>1, <2>3, SetStateType
  <2> QED BY <2>0, <2>2, <2>4, <1>b, StepInv
<1>3. CASE StreamEnds(m)
  <2>1. PICK l \in {"settle", "checkpoint"} : Goto(m, l)
    BY <1>3 DEF StreamEnds
  <2>2. pc[m] = "stream" /\ UNCHANGED <<task, cache, executing, store, on, Request,
          saving, cancelSave, Bounds>>
    BY <1>3 DEF StreamEnds
  <2>3. /\ pc' \in [Messages -> PcValues] /\ pc'[m] = l
        /\ \A n \in Messages \ {m} : pc'[n] = pc[n]
    BY <2>1 DEF Goto, IInv, TypeOK
  <2>4. TypeOK' BY <2>2, <2>3 DEF IInv, TypeOK, Request, Bounds
  <2>5. Equipped' BY <2>2, <2>3 DEF IInv, Equipped, Request
  <2>6. OneMainLoop' BY <2>2, <2>3 DEF IInv, OneMainLoop, Main
  <2> QED BY <2>4, <2>5, <2>6 DEF IInv
<1>4. CASE ScheduleToolCalls(m)
  <2>0. pc[m] = "checkpoint" BY <1>4 DEF ScheduleToolCalls
  <2>1. SetState(t, "working") \in TaskObject BY <1>0, <2>0, SetStateType
  <2>2. \/ Schedules(m, SetState(t, "working"))
        \/ Step(m, SetState(t, "working"), "queued") /\ UNCHANGED Bounds
    BY <1>4 DEF ScheduleToolCalls, t
  <2> QED BY <2>0, <2>1, <2>2, <1>b, SchedulesInv, StepInv
<1>5. CASE Dequeue(m)
  <2>0. pc[m] = "queued" BY <1>5 DEF Dequeue
  <2>1. Schedules(m, t) \/ (Catch(m) /\ UNCHANGED Bounds) BY <1>5 DEF Dequeue, t
  <2> QED BY <1>0, <2>0, <2>1, SchedulesInv, CatchInv
<1>6. CASE Scheduled(m)
  BY <1>0, <1>6, <1>b, StepInv DEF Scheduled, t
<1>7. CASE Answered(m)
  <2>0. pc[m] \in {"confirm", "sideConfirm"} /\ UNCHANGED Bounds BY <1>7 DEF Answered
  <2>a. PICK u \in AnswerEnds(m, t) :
             \/ /\ pc[m] = "confirm"
                /\ Step(m, u, "answered")
             \/ /\ pc[m] = "sideConfirm"
                /\ Put(on[m], u)
                /\ Leave(m)
                /\ UNCHANGED <<cache, executing, store, says, aborted, saving,
                               cancelSave>>
    BY <1>7 DEF Answered, t
  <2>1. u \in TaskObject BY <1>0, <2>0, AnswerEndsType
  <2>2. CASE pc[m] = "confirm" /\ Step(m, u, "answered")
    BY <2>0, <2>1, <2>2, <1>b, StepInv
  <2>3. CASE /\ pc[m] = "sideConfirm" /\ Put(on[m], u) /\ Leave(m)
             /\ UNCHANGED <<cache, executing, store, says, aborted, saving, cancelSave>>
    <3>2. task' \in [Tasks -> TaskObject] BY <1>0, <2>1, <2>3, PutType DEF IInv
    <3> QED BY <2>0, <2>3, <3>2, MoveInv DEF Leave, IInv, TypeOK
  <2> QED BY <2>a, <2>2, <2>3
<1>11. CASE NothingStreamed(m)
  <2>0. pc[m] = "answered" /\ UNCHANGED Bounds BY <1>11 DEF NothingStreamed
  <2>1. Catch(m) \/ Step(m, t, "settle") BY <1>11 DEF NothingStreamed, t
  <2> QED BY <1>0, <1>b, <2>0, <2>1, StepInv, CatchInv
<1>8. CASE SideEnds(m)
  BY <1>8, MoveInv DEF SideEnds, Leave, IInv, TypeOK
<1>9. CASE Settle(m)
  <2>0. pc[m] = "settle" /\ UNCHANGED Bounds BY <1>9 DEF Settle
  <2>1. [t EXCEPT !.waiting = @ \cup {m}] \in TaskObject BY <1>0, <2>0
  <2>2. Turn(m, t) \/ Step(m, [t EXCEPT !.waiting = @ \cup {m}], "wait")
    BY <1>9 DEF Settle, t
  <2> QED BY <1>0, <2>0, <2>1, <2>2, <1>b, TurnInv, StepInv
<1>10. CASE WakeUp(m)
  <2>0. pc[m] = "wait" /\ UNCHANGED Bounds BY <1>10 DEF WakeUp
  <2>1. [t EXCEPT !.resolved = @ \ {m}] \in TaskObject BY <1>0, <2>0
  <2>2. Turn(m, [t EXCEPT !.resolved = @ \ {m}]) \/ Catch(m)
    BY <1>10 DEF WakeUp, t
  <2> QED BY <2>0, <2>1, <2>2, TurnInv, CatchInv
<1> QED BY <1>1, <1>2, <1>3, <1>4, <1>5, <1>6, <1>7, <1>8, <1>9, <1>10, <1>11
      DEF Settles, Streams

LEMMA InitInv == Init /\ AgentAssumption => IInv
<1> SUFFICES ASSUME Init, AgentAssumption PROVE IInv OBVIOUS
<1>1. NewTask("submitted") \in TaskObject BY NewTaskType
<1>2. 0 \in 0..MaxCancels /\ 0 \in 0..MaxRestarts BY DEF AgentAssumption
<1>3. says \in [Messages -> Answers \cup {Text}] BY DEF Init
<1>4. store \in States \cup {None} BY DEF Init, AgentAssumption
<1>5. TypeOK BY <1>1, <1>2, <1>3, <1>4 DEF Init, TypeOK
<1>6. Equipped BY DEF Init, Equipped
<1>7. OneMainLoop BY DEF Init, OneMainLoop, Main
<1> QED BY <1>5, <1>6, <1>7 DEF IInv

LEMMA NextInv == AgentAssumption /\ IInv /\ [Next]_vars => IInv'
<1> SUFFICES ASSUME AgentAssumption, IInv, [Next]_vars PROVE IInv' OBVIOUS
<1> USE DEF IInv
<1>0. Asking \subseteq Calls BY DEF AgentAssumption
<1>1. ASSUME NEW m \in Messages, Arrive(m) PROVE IInv'
  <2>1. pc[m] = "new" /\ Goto(m, "received")
        /\ UNCHANGED <<task, cache, executing, store, on, aborted, saving,
                       cancelSave, Bounds>>
    BY <1>1 DEF Arrive
  <2>2. loaded' = [loaded EXCEPT ![m] = store] BY <1>1 DEF Arrive
  <2>3. PICK s \in Answers \cup {Text} : says' = [says EXCEPT ![m] = s]
    BY <1>1 DEF Arrive
  <2>4. says' \in [Messages -> Answers \cup {Text}]
        /\ \A n \in Messages \ {m} : says'[n] = says[n]
    BY <2>3 DEF TypeOK
  <2>5. loaded' \in [Messages -> States \cup {None}]
        /\ \A n \in Messages \ {m} : loaded'[n] = loaded[n]
    BY <2>2 DEF TypeOK
  <2>6. /\ task' \in [Tasks -> TaskObject] /\ cache' \in Tasks \cup {None}
        /\ store' \in States \cup {None} /\ on' \in [Messages -> Tasks \cup {None}]
        /\ saving' \in [Messages -> States \cup {None}]
    BY <2>1 DEF TypeOK
  <2> QED BY <2>1, <2>4, <2>5, <2>6, MoveInv
<1>2. ASSUME NEW m \in Messages, Execute(m) PROVE IInv'
  <2>1. CASE cache # None /\ Run(m, cache)
    BY <1>0, <1>2, <2>1, RunInv DEF Execute, TypeOK
  <2>2. CASE \E l \in {"reconstructing", "creating"} :
                Goto(m, l) /\ (l = "reconstructing" => loaded[m] # None)
                /\ UNCHANGED <<task, executing, on, loaded>>
    <3>1. PICK l \in {"reconstructing", "creating"} :
              Goto(m, l) /\ (l = "reconstructing" => loaded[m] # None)
              /\ UNCHANGED <<task, executing, on, loaded>>
      BY <2>2
    <3>2. /\ pc[m] \notin MainPcs /\ l \in PcValues \ (MainPcs \cup SidePcs)
          /\ UNCHANGED <<cache, store, says, aborted, saving, cancelSave, Bounds>>
      BY <1>2 DEF Execute, PcValues, MainPcs, SidePcs
    <3>3. /\ task' \in [Tasks -> TaskObject] /\ cache' \in Tasks \cup {None}
          /\ store' \in States \cup {None} /\ on' \in [Messages -> Tasks \cup {None}]
          /\ loaded' \in [Messages -> States \cup {None}]
          /\ says' \in [Messages -> Answers \cup {Text}]
          /\ saving' \in [Messages -> States \cup {None}]
      BY <3>1, <3>2 DEF TypeOK
    <3>4. l = "reconstructing" => loaded'[m] \in States
      BY <3>1 DEF TypeOK
    <3> QED BY <3>1, <3>2, <3>3, <3>4, MoveInv
  <2>3. \/ cache # None /\ Run(m, cache)
        \/ Goto(m, "reconstructing") /\ loaded[m] # None
           /\ UNCHANGED <<task, executing, on, loaded>>
        \/ Goto(m, "creating") /\ UNCHANGED <<task, executing, on, loaded>>
    BY <1>2, Zenon DEF Execute
  <2>4. CASE Goto(m, "reconstructing") /\ loaded[m] # None
             /\ UNCHANGED <<task, executing, on, loaded>>
    BY <2>2, <2>4, Zenon
  <2>5. CASE Goto(m, "creating") /\ UNCHANGED <<task, executing, on, loaded>>
    <3>1. "creating" = "reconstructing" => loaded[m] # None OBVIOUS
    <3> QED BY <2>2, <2>5, <3>1, Zenon
  <2> QED BY <2>1, <2>3, <2>4, <2>5, Zenon
<1>3. ASSUME NEW m \in Messages, Reconstruct(m) PROVE IInv'
  <2>1. PICK w \in Tasks :
          Put(w, Restored(loaded[m])) /\ cache' = w /\ on' = [on EXCEPT ![m] = w]
    BY <1>3 DEF Reconstruct
  <2>2. NewTask(loaded[m]) \in TaskObject
    BY <1>3, NewTaskType DEF Reconstruct, Equipped
  <2>3. task' \in [Tasks -> TaskObject] BY <2>1, <2>2, PutType DEF Restored
  <2>4. /\ pc[m] \notin MainPcs /\ loaded[m] \in States
        /\ "ready" \in PcValues \ (MainPcs \cup SidePcs) /\ Goto(m, "ready")
        /\ executing' = executing /\ UNCHANGED <<aborted, cancelSave, Bounds>>
        /\ loaded' = loaded /\ says' = says /\ saving' = saving /\ store' = store
    BY <1>3 DEF Reconstruct, Request, Equipped, PcValues, MainPcs, SidePcs
  <2>5. /\ on' \in [Messages -> Tasks \cup {None}] /\ on'[m] = w
        /\ \A n \in Messages \ {m} : on'[n] = on[n]
        /\ cache' \in Tasks \cup {None}
    BY <2>1 DEF TypeOK
  <2>6. /\ loaded' \in [Messages -> States \cup {None}]
        /\ says' \in [Messages -> Answers \cup {Text}]
        /\ saving' \in [Messages -> States \cup {None}]
        /\ store' \in States \cup {None}
    BY <2>4 DEF TypeOK
  <2> QED BY <2>3, <2>4, <2>5, <2>6, MoveInv
<1>4. ASSUME NEW m \in Messages, Create(m) PROVE IInv'
  <2>1. PICK w \in Tasks :
          Put(w, NewTask("submitted")) /\ cache' = w /\ on' = [on EXCEPT ![m] = w]
    BY <1>4 DEF Create
  <2>2. NewTask("submitted") \in TaskObject BY NewTaskType
  <2>3. task' \in [Tasks -> TaskObject] BY <2>1, <2>2, PutType
  <2>4. /\ store' \in States \cup {None}
        /\ saving' \in [Messages -> States \cup {None}]
        /\ \A n \in Messages \ {m} : saving'[n] = saving[n]
        /\ ~InMemory => saving'[m] = "submitted"
    BY <1>4 DEF Create, Save, TypeOK
  <2>5. Goto(m, IF InMemory THEN "ready" ELSE "savingNew") BY <1>4 DEF Create
  <2>6. pc[m] = "creating" /\ UNCHANGED <<executing, Request, cancelSave, Bounds>>
    BY <1>4 DEF Create
  <2> QED BY <2>1, <2>3, <2>4, <2>5, <2>6, MoveInv DEF TypeOK, Request
<1>5. ASSUME NEW m \in Messages, HydrateFails(m) PROVE IInv'
  BY <1>5, MoveInv DEF HydrateFails, Leave, TypeOK
<1>6. ASSUME NEW m \in Messages, Resume(m) PROVE IInv'
  BY <1>0, <1>6, RunInv DEF Resume, TypeOK, Equipped
<1>7. ASSUME NEW m \in Messages, SaveEnds(m) PROVE IInv'
  <2>1. store' \in States \cup {None} /\ saving' = [saving EXCEPT ![m] = None]
    BY <1>7 DEF SaveEnds, TypeOK
  <2>2. pc[m] \in {"savingNew", "saving"}
        /\ UNCHANGED <<task, cache, executing, says, aborted, cancelSave, Bounds>>
    BY <1>7 DEF SaveEnds
  <2>3. CASE pc[m] = "savingNew" /\ Goto(m, "ready") /\ UNCHANGED <<on, loaded>>
    BY <2>1, <2>2, <2>3, MoveInv DEF TypeOK, Equipped
  <2>4. CASE Leave(m)
    BY <2>1, <2>2, <2>4, MoveInv DEF Leave, TypeOK
  <2> QED BY <1>7, <2>3, <2>4 DEF SaveEnds
<1>8. ASSUME NEW m \in Messages, Settles(m) \/ Streams(m) PROVE IInv'
  BY <1>8, LoopInv
<1>9. ASSUME NEW m \in Messages, Disconnect(m) PROVE IInv'
  BY <1>9, ObjectInv DEF Disconnect, TypeOK, Bounds
<1>10. ASSUME NEW w \in Tasks, NextCall(w) PROVE IInv'
  <2> DEFINE t == task[w]
  <2>1. t \in TaskObject BY DEF TypeOK
  <2>2. CancelAll(t) \in TaskObject BY <2>1, CancelAllType
  <2>3. ASSUME NEW c \in InStatus(t, "scheduled"), NEW s \in CallStatus
        PROVE  ToolCallsUpdate([t EXCEPT !.call[c] = s]) \in TaskObject
    <3> DEFINE f == [t.call EXCEPT ![c] = s]  u == [t EXCEPT !.call = f]
    <3>1. f \in [Calls -> CallStatus] BY <2>1, <2>3
    <3>2. u \in TaskObject
      <4> HIDE DEF f, t
      <4> QED BY <2>1, <3>1
    <3>3. u = [t EXCEPT !.call[c] = s] BY <2>1
    <3> HIDE DEF u
    <3> QED BY <3>2, <3>3, UpdateType
  <2>4. \E u \in TaskObject : Put(w, u)
    <3>1. CASE Put(w, CancelAll(t)) BY <2>2, <3>1
    <3>2. CASE \E c \in InStatus(t, "scheduled") :
                   Put(w, ToolCallsUpdate([t EXCEPT !.call[c] =
                            IF c \in Asking THEN "awaiting_approval"
                            ELSE "executing"]))
      BY <2>3, <3>2
    <3> QED BY <1>10, <3>1, <3>2 DEF NextCall
  <2>5. task' \in [Tasks -> TaskObject] BY <2>4, PutType
  <2> QED BY <1>10, <2>5, ObjectInv DEF NextCall, Quietly, TypeOK, Request, Bounds
<1>11. ASSUME NEW w \in Tasks, ToolEnds(w) PROVE IInv'
  <2> DEFINE t == task[w]
  <2>1. t \in TaskObject BY DEF TypeOK
  <2>2. CancelAll(t) \in TaskObject BY <2>1, CancelAllType
  <2>3. ASSUME NEW c \in InStatus(t, "executing")
        PROVE  NotifyCompletion([t EXCEPT !.call[c] = "success"]) \in TaskObject
    <3> DEFINE f == [t.call EXCEPT ![c] = "success"]  u == [t EXCEPT !.call = f]
    <3>1. f \in [Calls -> CallStatus] BY <2>1, <2>3
    <3>2. u \in TaskObject
      <4> HIDE DEF f, t
      <4> QED BY <2>1, <3>1
    <3>3. u = [t EXCEPT !.call[c] = "success"] BY <2>1
    <3> HIDE DEF u
    <3> QED BY <3>2, <3>3, NotifyType
  <2>4. \E u \in TaskObject : Put(w, u)
    BY <1>11, <2>2, <2>3 DEF ToolEnds
  <2>5. task' \in [Tasks -> TaskObject] BY <2>4, PutType
  <2> QED BY <1>11, <2>5, ObjectInv DEF ToolEnds, Quietly, TypeOK, Request, Bounds
<1>12. ASSUME CancelTask PROVE IInv'
  <2> DEFINE t == SetState(CancelPendingTools(task[cache]), "canceled")
  <2>1. cache \in Tasks /\ task[cache] \in TaskObject
    BY <1>12 DEF CancelTask, TypeOK
  <2>2. CancelPendingTools(task[cache]) \in TaskObject BY <2>1, CancelPendingType
  <2>3. t \in TaskObject BY <2>2, SetStateType
  <2>4. cancels' \in 0..MaxCancels
    BY <1>12 DEF CancelTask, TypeOK, AgentAssumption
  <2>5. UNCHANGED <<used, restarts, env>> BY <1>12 DEF CancelTask
  <2>6. CASE Down
    BY <2>4, <2>5, <2>6, DownInv DEF TypeOK
  <2>7. CASE /\ Put(cache, t)
             /\ store' \in {store, "canceled"} /\ cancelSave' \in {cancelSave, "canceled"}
             /\ UNCHANGED <<cache, executing, pc, on, Request, saving>>
    <3>1. task' \in [Tasks -> TaskObject] BY <2>1, <2>3, <2>7, PutType
    <3> QED BY <2>4, <2>5, <2>7, <3>1, ObjectInv DEF TypeOK, Request
  <2> QED BY <1>12, <2>6, <2>7 DEF CancelTask
<1>13. ASSUME CancelSaved PROVE IInv'
  BY <1>13, ObjectInv DEF CancelSaved, TypeOK, Request, Bounds
<1>14. ASSUME Restart PROVE IInv'
  <2>1. restarts' \in 0..MaxRestarts BY <1>14 DEF Restart, TypeOK, AgentAssumption
  <2> QED BY <1>14, <2>1, DownInv DEF Restart, TypeOK
<1>15. ASSUME UNCHANGED vars PROVE IInv'
  BY <1>15, ObjectInv DEF vars, TypeOK
<1> QED BY <1>1, <1>2, <1>3, <1>4, <1>5, <1>6, <1>7, <1>8, <1>9, <1>10, <1>11,
           <1>12, <1>13, <1>14, <1>15 DEF Next, Event

\* Throughout, the types are right, an execution that works has its Task object, and
\* executingTasks holds the task exactly while a main loop runs (executor.ts 435-617).
THEOREM Invariance == Spec => []IInv
BY InitInv, NextInv, AgentAssumption, PTL DEF Spec

\* The types are right, whatever the constants.
THEOREM TypeCorrect == Spec => []TypeOK
BY Invariance, PTL DEF IInv

\* However many messages, reconstructions, cancellations and restarts overlap, a task
\* has at most one main loop (executor.ts 445-465, 600).
THEOREM OneMainLoopCorrect == Spec => []OneMainLoop
BY Invariance, PTL DEF IInv

-----------------------------------------------------------------------------
(* A task canceled, or failed, at rest stays so.                            *)

LEMMA NoOpenCalls ==
    ASSUME NEW s \in States
    PROVE  Open(NewTask(s)) = {} /\ NewTask(s).state = s
BY DEF Open, NewTask

\* Replacing an object that is not canceled by one that is not.
LEMMA OtherObjectDead ==
    ASSUME NEW f \in Final, IInv, Dead(f), NEW w \in Tasks, NEW t \in TaskObject, Put(w, t),
           task[w].state # f, t.state # f, Quietly
    PROVE  Dead(f)'
<1>1. /\ task'[w].state # f
      /\ \A v \in Tasks : v # w => task'[v] = task[v]
  BY PutType DEF IInv
<1>2. cache # w BY AgentAssumption DEF AgentAssumption, Dead, IInv, TypeOK
<1>3. \A m \in Messages : pc[m] = "ready" => on[m] \in Tasks /\ on[m] # w
  BY DEF Dead, IInv, Equipped
<1>4. UNCHANGED <<cache, store, pc, on, loaded, cancelSave>>
  BY DEF Quietly, Request
<1>5. cache # None => cache \in Tasks BY DEF IInv, TypeOK
<1> QED BY <1>1, <1>2, <1>3, <1>4, <1>5 DEF Dead, Open

\* The state check ends an execution that finds the task canceled.
LEMMA RunDead ==
    ASSUME NEW f \in Final, IInv, Dead(f), NEW m \in Messages, NEW w \in Tasks,
           task[w].state = f, Run(m, w),
           UNCHANGED <<cache, store, cancelSave>>
    PROVE  Dead(f)'
<1>1. Leave(m) /\ UNCHANGED task BY DEF Run, Final
<1>2. /\ pc'[m] = "done"
      /\ \A n \in Messages \ {m} : pc'[n] = pc[n] /\ on'[n] = on[n]
                                   /\ loaded'[n] = loaded[n]
  BY <1>1 DEF Leave, Goto, IInv, TypeOK
<1> QED BY <1>1, <1>2 DEF Dead, Open

LEMMA DeadStep ==
    ASSUME NEW f \in Final, AgentAssumption, IInv, Dead(f), [Next]_vars
    PROVE  Dead(f)' \/ Lost'
<1>f. f \in States /\ f # "input-required" BY DEF Final
<1>a. \A m \in Messages : pc[m] \in {"new", "done", "received", "reconstructing", "ready"}
  BY DEF Dead
<1>b. f # None BY <1>f DEF AgentAssumption
<1>c. cache # None => cache \in Tasks BY DEF IInv, TypeOK
<1>1. ASSUME NEW m \in Messages, Arrive(m) PROVE Dead(f)'
  <2>1. /\ UNCHANGED <<task, cache, store, on, cancelSave>>
        /\ loaded'[m] = f /\ pc'[m] = "received"
        /\ \A n \in Messages \ {m} : pc'[n] = pc[n] /\ loaded'[n] = loaded[n]
    BY <1>1 DEF Arrive, Goto, Dead, IInv, TypeOK
  <2> QED BY <2>1 DEF Dead, Open
<1>2. ASSUME NEW m \in Messages, Execute(m) PROVE Dead(f)'
  <2>1. CASE cache # None /\ Run(m, cache)
    BY <1>2, <1>c, <2>1, RunDead DEF Execute, Dead
  <2>2. CASE cache = None
    <3>1. loaded[m] = f BY <1>2 DEF Dead, Execute
    <3>2. /\ Goto(m, "reconstructing")
          /\ UNCHANGED <<task, cache, store, on, loaded, cancelSave>>
      BY <1>2, <1>b, <2>2, <3>1 DEF Execute
    <3>3. /\ pc'[m] = "reconstructing"
          /\ \A n \in Messages \ {m} : pc'[n] = pc[n]
      BY <3>2 DEF Goto, IInv, TypeOK
    <3> QED BY <3>1, <3>2, <3>3 DEF Dead, Open
  <2> QED BY <1>2, <2>1, <2>2 DEF Execute
<1>3. ASSUME NEW m \in Messages, Reconstruct(m) PROVE Dead(f)'
  <2>1. PICK w \in Tasks : /\ Free(w) /\ Put(w, Restored(loaded[m])) /\ cache' = w
                           /\ on' = [on EXCEPT ![m] = w]
    BY <1>3 DEF Reconstruct
  <2>2. loaded[m] = f BY <1>3 DEF Reconstruct, Dead
  <2> DEFINE t == NewTask(f)
  <2>3. t \in TaskObject /\ Open(t) = {} /\ t.state = f
    BY <1>f, NewTaskType, NoOpenCalls
  <2> HIDE DEF t
  <2>4. Put(w, t) BY <2>1, <2>2 DEF t, Restored
  <2>5. /\ task'[w].state = f /\ task'[w].call = t.call
        /\ \A v \in Tasks : v # w => task'[v] = task[v]
    BY <2>3, <2>4, PutType DEF IInv
  <2>6. Open(task'[w]) = {} BY <2>3, <2>5 DEF Open
  <2>7. /\ pc'[m] = "ready" /\ on'[m] = w
        /\ \A n \in Messages \ {m} : pc'[n] = pc[n] /\ on'[n] = on[n] /\ on[n] # w
        /\ UNCHANGED <<store, loaded, cancelSave>>
    BY <1>3, <2>1 DEF Reconstruct, Goto, Free, Request, IInv, TypeOK
  <2>8. \A n \in Messages : pc[n] = "ready" => on[n] \in Tasks
    BY DEF IInv, Equipped
  <2>9. \A v \in Tasks : task'[v].state # f \/ Open(task'[v]) = {}
    BY <2>5, <2>6 DEF Dead
  <2> QED BY <2>1, <2>5, <2>7, <2>8, <2>9 DEF Dead, Open
<1>4. ASSUME NEW m \in Messages, HydrateFails(m) PROVE Dead(f)'
  <2>1. /\ pc'[m] = "done" /\ UNCHANGED <<task, cache, store, cancelSave>>
        /\ \A n \in Messages \ {m} : pc'[n] = pc[n] /\ on'[n] = on[n]
                                     /\ loaded'[n] = loaded[n]
    BY <1>4 DEF HydrateFails, Leave, Goto, IInv, TypeOK
  <2> QED BY <2>1 DEF Dead, Open
<1>5. ASSUME NEW m \in Messages, Resume(m) PROVE Dead(f)'
  <2>1. on[m] \in Tasks /\ task[on[m]].state = f
    BY <1>5 DEF Resume, Dead, IInv, Equipped
  <2> QED BY <1>5, <2>1, RunDead DEF Resume
<1>6. ASSUME NEW m \in Messages, Disconnect(m) PROVE Dead(f)'
  BY <1>6 DEF Disconnect, Dead, Open
<1>7. ASSUME NEW w \in Tasks, NextCall(w) PROVE Dead(f)'
  <2> DEFINE t == task[w]
  <2>1. t \in TaskObject /\ t.state # f
    BY <1>7 DEF NextCall, InStatus, Open, Dead, IInv, TypeOK
  <2>2. CancelAll(t) \in TaskObject /\ CancelAll(t).state # f
    BY <1>f, <2>1, CancelAllType
  <2>3. ASSUME NEW c \in InStatus(t, "scheduled"), NEW s \in CallStatus
        PROVE  LET u == ToolCallsUpdate([t EXCEPT !.call[c] = s])
               IN u \in TaskObject /\ u.state # f
    <3> DEFINE g == [t.call EXCEPT ![c] = s]  u == [t EXCEPT !.call = g]
    <3>1. g \in [Calls -> CallStatus] BY <2>1, <2>3
    <3>2. u \in TaskObject /\ u.state = t.state
      <4> HIDE DEF g, t
      <4> QED BY <2>1, <3>1
    <3>3. u = [t EXCEPT !.call[c] = s] BY <2>1
    <3> HIDE DEF u
    <3> QED BY <1>f, <2>1, <3>2, <3>3, UpdateType
  <2>4. \E u \in TaskObject : Put(w, u) /\ u.state # f
    <3>1. \/ Put(w, CancelAll(t))
          \/ \E c \in InStatus(t, "scheduled"), s \in CallStatus :
                Put(w, ToolCallsUpdate([t EXCEPT !.call[c] = s]))
      BY <1>7 DEF NextCall
    <3> HIDE DEF t
    <3>2. CASE Put(w, CancelAll(t)) BY <2>2, <3>2
    <3>3. CASE \E c \in InStatus(t, "scheduled"), s \in CallStatus :
                  Put(w, ToolCallsUpdate([t EXCEPT !.call[c] = s]))
      <4>1. PICK c \in InStatus(t, "scheduled"), s \in CallStatus :
                  Put(w, ToolCallsUpdate([t EXCEPT !.call[c] = s]))
        BY <3>3
      <4> DEFINE u == ToolCallsUpdate([t EXCEPT !.call[c] = s])
      <4>2. u \in TaskObject /\ u.state # f BY <2>3
      <4>3. Put(w, u) BY <4>1
      <4> HIDE DEF u
      <4> QED BY <4>2, <4>3
    <3> QED BY <3>1, <3>2, <3>3
  <2>5. Quietly BY <1>7 DEF NextCall
  <2> QED BY <2>1, <2>4, <2>5, OtherObjectDead
<1>8. ASSUME NEW w \in Tasks, ToolEnds(w) PROVE Dead(f)'
  <2> DEFINE t == task[w]
  <2>1. t \in TaskObject /\ t.state # f
    BY <1>8 DEF ToolEnds, InStatus, Open, Dead, IInv, TypeOK
  <2>2. CancelAll(t) \in TaskObject /\ CancelAll(t).state # f
    BY <1>f, <2>1, CancelAllType
  <2>3. ASSUME NEW c \in InStatus(t, "executing")
        PROVE  LET u == NotifyCompletion([t EXCEPT !.call[c] = "success"])
               IN u \in TaskObject /\ u.state # f
    <3> DEFINE g == [t.call EXCEPT ![c] = "success"]  u == [t EXCEPT !.call = g]
    <3>1. g \in [Calls -> CallStatus] BY <2>1, <2>3
    <3>2. u \in TaskObject /\ u.state = t.state
      <4> HIDE DEF g, t
      <4> QED BY <2>1, <3>1
    <3>3. u = [t EXCEPT !.call[c] = "success"] BY <2>1
    <3> HIDE DEF u
    <3> QED BY <1>f, <2>1, <3>2, <3>3, NotifyType
  <2>4. \E u \in TaskObject : Put(w, u) /\ u.state # f
    BY <1>8, <2>2, <2>3 DEF ToolEnds
  <2>5. Quietly BY <1>8 DEF ToolEnds
  <2> QED BY <2>1, <2>4, <2>5, OtherObjectDead
<1>9. ASSUME CancelSaved PROVE Dead(f)'
  <2>1. store' = f /\ cancelSave' = None
        /\ UNCHANGED <<task, cache, pc, on, loaded>>
    BY <1>9 DEF CancelSaved, Dead, Request
  <2> QED BY <2>1 DEF Dead, Open
<1>10. ASSUME Restart PROVE Dead(f)' \/ Lost'
  <2>1. \A v \in Tasks : Open(task'[v]) = {}
    BY <1>10, NoOpenCalls DEF Restart, Down
  <2>2. cache' = None /\ cancelSave' = None /\ env' = env
        /\ \A m \in Messages : pc'[m] \in {"new", "done"}
    BY <1>10 DEF Restart, Down, IInv, TypeOK
  <2>3. CASE InMemory
    BY <1>10, <2>2, <2>3 DEF Restart, Down, Stored, Lost, InMemory
  <2>4. CASE ~InMemory
    <3>1. store' = f BY <1>10, <2>4 DEF Restart, Down, Stored, Dead
    <3> QED BY <2>1, <2>2, <3>1 DEF Dead, Open
  <2> QED BY <2>3, <2>4
<1>11. ASSUME UNCHANGED vars PROVE Dead(f)'
  BY <1>11 DEF vars, Dead, Open
<1>12. \A m \in Messages : ~Create(m) /\ ~SaveEnds(m)
  BY <1>a DEF Create, SaveEnds
<1>13. \A m \in Messages : ~Settles(m) /\ ~Streams(m)
  BY <1>a DEF Settles, Streams, StreamThrows, StreamCancels, StreamEnds, ScheduleToolCalls,
              Dequeue, Scheduled, Answered, NothingStreamed,
              SideEnds, Settle, WakeUp
<1>14. ~CancelTask BY DEF CancelTask, Dead, Final
<1> QED BY <1>1, <1>2, <1>3, <1>4, <1>5, <1>6, <1>7, <1>8, <1>9, <1>10, <1>11,
           <1>12, <1>13, <1>14 DEF Next, Event

\* Whatever the constants: a task canceled or failed of which nothing runs stays so, in
\* memory and in the store, through messages and cancellations, and through restarts
\* unless the store was the process's own and went with it (executor.ts 133, 204, 437,
\* http/app.ts 254-266).
THEOREM DeadStaysCorrect == Spec => DeadStays
<1>1. ASSUME AgentAssumption, IInv, [Next]_vars
      PROVE  \A f \in Final : Dead(f) => Dead(f)' \/ Lost'
  BY <1>1, DeadStep
<1>2. AgentAssumption /\ IInv /\ [Next]_vars
        => [\A f \in Final : Dead(f) => Dead(f)' \/ Lost']_vars
  BY <1>1
<1> QED BY <1>2, Invariance, AgentAssumption, PTL DEF Spec, DeadStays

-----------------------------------------------------------------------------
(* The promise the main loop waits on.  A Task object is sound when its     *)
(* pending calls are in the scheduler's hands, nobody waits on a promise of *)
(* no call, and one call at a time asks or runs.                            *)

Awaiting(t) == InStatus(t, "awaiting_approval")
Active(t)   == Awaiting(t) \cup InStatus(t, "executing")
Heard(t)    == t.waiting \cup t.resolved \cup t.rejected

Calm(t)   == t.waiting # {} => t.pending # {}
Serial(t) == \A c, d \in Active(t) : c = d
Sound(t)  == t.pending \subseteq Open(t) /\ Calm(t) /\ Serial(t)

LEMMA UpdateFields ==
    ASSUME NEW t \in TaskObject, NEW p, p = (t.pending \ Batch(t)) \cup Open(t)
    PROVE  LET u == ToolCallsUpdate(t)
           IN /\ u.pending = p
              /\ u.waiting = IF \/ t.pending = {} /\ p # {}
                                \/ t.pending # {} /\ p = {}
                             THEN {} ELSE t.waiting
              /\ u.resolved = IF t.pending # {} /\ p = {}
                              THEN t.resolved \cup t.waiting ELSE t.resolved
              /\ u.rejected = t.rejected /\ u.call = t.call
              /\ u.state = t.state \/ Awaiting(t) # {}
<1> DEFINE asks == /\ p \cap InStatus(t, "awaiting_approval") # {}
                   /\ p \cap InStatus(t, "executing") = {}
                   /\ ~t.skip
           waiting == IF \/ t.pending = {} /\ p # {}
                         \/ t.pending # {} /\ p = {}
                      THEN {} ELSE t.waiting
           resolved == IF t.pending # {} /\ p = {}
                       THEN t.resolved \cup t.waiting ELSE t.resolved
           details == t.details \cup InStatus(t, "awaiting_approval")
           state == IF asks THEN "input-required" ELSE t.state
<1>1. ToolCallsUpdate(t) = [t EXCEPT !.pending = p, !.waiting = waiting,
                              !.resolved = resolved, !.details = details,
                              !.state = state]
  BY DEF ToolCallsUpdate
<1>2. state = t.state \/ Awaiting(t) # {} BY DEF Awaiting
<1>3. waiting = IF \/ t.pending = {} /\ p # {}
                   \/ t.pending # {} /\ p = {}
                THEN {} ELSE t.waiting
  OBVIOUS
<1>4. resolved = IF t.pending # {} /\ p = {}
                 THEN t.resolved \cup t.waiting ELSE t.resolved
  OBVIOUS
<1> HIDE DEF asks, waiting, resolved, details, state
<1> DEFINE u == [t EXCEPT !.pending = p, !.waiting = waiting, !.resolved = resolved,
                          !.details = details, !.state = state]
<1>5. /\ u.pending = p /\ u.waiting = waiting /\ u.resolved = resolved
      /\ u.rejected = t.rejected /\ u.call = t.call /\ u.state = state
  OBVIOUS
<1>6. ToolCallsUpdate(t) = u BY <1>1
<1> HIDE DEF u
<1> QED BY <1>2, <1>3, <1>4, <1>5, <1>6

\* An update leaves the object sound, and every waiter with it or released.
LEMMA UpdateSound ==
    ASSUME NEW t \in TaskObject, t.pending \subseteq Batch(t), Calm(t), Serial(t)
    PROVE  LET u == ToolCallsUpdate(t)
           IN /\ Sound(u) /\ Heard(t) \subseteq Heard(u)
              /\ u.call = t.call /\ u.pending = Open(u)
              /\ u.state = t.state \/ Awaiting(u) # {}
<1> DEFINE u == ToolCallsUpdate(t)
<1> DEFINE p == (t.pending \ Batch(t)) \cup Open(t)
<1>2. p = Open(t) OBVIOUS
<1>3. /\ u.pending = p
      /\ u.waiting = IF \/ t.pending = {} /\ p # {}
                        \/ t.pending # {} /\ p = {}
                     THEN {} ELSE t.waiting
      /\ u.resolved = IF t.pending # {} /\ p = {}
                      THEN t.resolved \cup t.waiting ELSE t.resolved
      /\ u.rejected = t.rejected /\ u.call = t.call
      /\ u.state = t.state \/ Awaiting(t) # {}
  BY UpdateFields
<1> HIDE DEF u, p
<1>4. Open(u) = Open(t) /\ Awaiting(u) = Awaiting(t) /\ Active(u) = Active(t)
  BY <1>3 DEF Open, Awaiting, Active, InStatus
<1>5. Calm(u) BY <1>3 DEF Calm
<1>6. Heard(t) \subseteq Heard(u) BY <1>3 DEF Heard, Calm
<1>7. Serial(u) BY <1>4 DEF Serial
<1> QED BY <1>2, <1>3, <1>4, <1>5, <1>6, <1>7 DEF Sound, u

LEMMA NotifySound ==
    ASSUME NEW t \in TaskObject, t.pending \subseteq Batch(t), Calm(t), Serial(t)
    PROVE  LET n == NotifyCompletion(t)
           IN /\ Sound(n) /\ Heard(t) \subseteq Heard(n)
              /\ n.state = t.state \/ Awaiting(n) # {}
              /\ IF Open(t) = {} THEN Batch(n) = {} /\ n.state = t.state
                 ELSE n.call = t.call
<1> DEFINE u == ToolCallsUpdate(t)
           done == u.done \cup {<<c, u.call[c]>> : c \in Batch(u)}
           none == [c \in Calls |-> "none"]
           v == [u EXCEPT !.done = done, !.call = none, !.signal = None]
<1>1. u \in TaskObject BY UpdateType
<1>2. /\ Sound(u) /\ Heard(t) \subseteq Heard(u) /\ u.call = t.call
      /\ u.pending = Open(u)
      /\ u.state = t.state \/ Awaiting(u) # {}
  BY UpdateSound
<1>3. NotifyCompletion(t) = IF Open(u) # {} THEN u ELSE v BY DEF NotifyCompletion
<1>4. none \in [Calls -> CallStatus] /\ \A c \in Calls : none[c] = "none" OBVIOUS
<1> HIDE DEF u, done, none
<1>5. /\ v.pending = u.pending /\ v.waiting = u.waiting /\ v.resolved = u.resolved
      /\ v.rejected = u.rejected /\ v.state = u.state /\ v.call = none
  BY <1>1
<1> HIDE DEF v
<1>6. Open(u) = Open(t) BY <1>2 DEF Open
<1>7. CASE Open(u) # {} BY <1>2, <1>3, <1>6, <1>7
<1>8. CASE Open(u) = {}
  <2>1. Batch(v) = {} /\ Open(v) = {} /\ Active(v) = {}
    BY <1>4, <1>5 DEF Batch, Open, Active, Awaiting, InStatus
  <2>2. v.pending = {} BY <1>2, <1>5, <1>8
  <2>3. Calm(v) BY <1>2, <1>5 DEF Calm, Sound
  <2>4. Serial(v) BY <2>1 DEF Serial
  <2>5. Heard(v) = Heard(u) BY <1>5 DEF Heard
  <2>6. Awaiting(u) \subseteq Open(u) BY DEF Awaiting, Open, InStatus
  <2> QED BY <1>2, <1>3, <1>5, <1>6, <1>8, <2>1, <2>2, <2>3, <2>4, <2>5, <2>6 DEF Sound
<1> QED BY <1>7, <1>8

\* After a cancellation no call is left, and the state is what it was.
LEMMA CancelAllSound ==
    ASSUME NEW t \in TaskObject, Sound(t)
    PROVE  LET n == CancelAll(t)
           IN /\ Sound(n) /\ Heard(t) \subseteq Heard(n)
              /\ Batch(n) = {} /\ n.state = t.state
<1> DEFINE f == [c \in Calls |-> IF t.call[c] \in OpenStatus THEN "cancelled"
                                 ELSE t.call[c]]
           u == [t EXCEPT !.call = f]
<1>1. f \in [Calls -> CallStatus] OBVIOUS
<1>2. \A c \in Calls : f[c] \notin OpenStatus /\ (t.call[c] # "none" => f[c] # "none")
  OBVIOUS
<1>3. CancelAll(t) = NotifyCompletion(u) BY DEF CancelAll
<1> HIDE DEF f
<1>4. u \in TaskObject BY <1>1, SetCall
<1>5. /\ u.call = f /\ u.pending = t.pending /\ u.waiting = t.waiting
      /\ u.resolved = t.resolved /\ u.rejected = t.rejected /\ u.state = t.state
  OBVIOUS
<1> HIDE DEF u
<1>6. Open(u) = {} /\ Active(u) = {}
  BY <1>2, <1>5 DEF Open, Active, Awaiting, InStatus
<1>7. u.pending \subseteq Batch(u) BY <1>2, <1>5 DEF Sound, Open, Batch
<1>8. Calm(u) /\ Serial(u) BY <1>5, <1>6 DEF Sound, Calm, Serial
<1>9. Heard(u) = Heard(t) BY <1>5 DEF Heard
<1> QED BY <1>3, <1>4, <1>5, <1>6, <1>7, <1>8, <1>9, NotifySound

\* An answer ends the batch, lets the call it answers run, alone, or leaves it waiting.
LEMMA ConfirmedSound ==
    ASSUME NEW t \in TaskObject, Sound(t), NEW s \in Answers, Asking \subseteq Calls,
           t.call[s.call] = "awaiting_approval"
    PROVE  \A n \in Confirmed(t, s) : Sound(n) /\ Heard(t) \subseteq Heard(n)
<1> DEFINE u == [t EXCEPT !.skip = (s.outcome = "edit")]
           f == [t.call EXCEPT ![s.call] = "executing"]
           v == [u EXCEPT !.call = f]
<1>0. s.call \in Calls BY DEF Answers
<1>1. /\ u \in TaskObject /\ u.call = t.call /\ u.pending = t.pending
      /\ u.waiting = t.waiting /\ u.resolved = t.resolved /\ u.rejected = t.rejected
  BY DEF Answers
<1>2. f \in [Calls -> CallStatus] BY <1>0
<1>3. \A c \in Calls : f[c] = IF c = s.call THEN "executing" ELSE t.call[c]
  OBVIOUS
<1>4. Confirmed(t, s) \subseteq {CancelAll(u), ToolCallsUpdate(u), ToolCallsUpdate(v), u}
  BY <1>1 DEF Confirmed, Answers
<1> HIDE DEF u
<1>5. Sound(u) /\ Heard(u) = Heard(t)
  BY <1>1 DEF Sound, Open, Calm, Serial, Active, Awaiting, InStatus, Heard
<1>6. Sound(CancelAll(u)) /\ Heard(t) \subseteq Heard(CancelAll(u))
  BY <1>1, <1>5, CancelAllSound
<1>7. Sound(ToolCallsUpdate(v)) /\ Heard(t) \subseteq Heard(ToolCallsUpdate(v))
  <2> HIDE DEF f
  <2>1. v \in TaskObject BY <1>1, <1>2
  <2>2. /\ v.call = f /\ v.pending = u.pending /\ v.waiting = u.waiting
        /\ v.resolved = u.resolved /\ v.rejected = u.rejected
    BY <1>1
  <2> HIDE DEF v
  <2>3. v.pending \subseteq Batch(v)
    BY <1>1, <1>3, <2>2 DEF Sound, Open, Batch
  <2>4. Calm(v) /\ Heard(v) = Heard(t) BY <1>5, <2>2 DEF Sound, Calm, Heard
  <2>5. s.call \in Active(t) BY <1>0 DEF Active, Awaiting, InStatus
  <2>6. \A c \in Active(v) : c \in Active(t)
    BY <1>0, <1>3, <2>2, <2>5 DEF Active, Awaiting, InStatus
  <2>7. Serial(v) BY <2>6 DEF Sound, Serial
  <2> QED BY <2>1, <2>3, <2>4, <2>7, UpdateSound
<1>8. Sound(ToolCallsUpdate(u)) /\ Heard(t) \subseteq Heard(ToolCallsUpdate(u))
  <2>1. u.pending \subseteq Batch(u) BY <1>1, <1>5 DEF Sound, Open, Batch
  <2> QED BY <1>1, <1>5, <2>1, UpdateSound DEF Sound
<1> HIDE DEF v
<1> QED BY <1>4, <1>5, <1>6, <1>7, <1>8

\* A rejected promise releases whoever waits on it.
LEMMA CancelPendingSound ==
    ASSUME NEW t \in TaskObject, Sound(t)
    PROVE  LET n == CancelPendingTools(t)
           IN Sound(n) /\ Heard(t) \subseteq Heard(n)
<1> DEFINE rejected == IF t.pending # {} THEN t.rejected \cup t.waiting ELSE t.rejected
           unhandled == t.pending # {} /\ t.waiting = {}
           n == [t EXCEPT !.pending = {}, !.waiting = {}, !.rejected = rejected,
                          !.unhandled = unhandled]
<1>1. CancelPendingTools(t) = n BY DEF CancelPendingTools
<1>2. t.rejected \cup t.waiting \subseteq rejected BY DEF Sound, Calm
<1> HIDE DEF rejected, unhandled
<1>3. /\ n.pending = {} /\ n.waiting = {} /\ n.rejected = rejected
      /\ n.resolved = t.resolved /\ n.call = t.call
  OBVIOUS
<1> HIDE DEF n
<1>4. Sound(n)
  BY <1>3 DEF Sound, Calm, Serial, Active, Awaiting, InStatus
<1>5. Heard(t) \subseteq Heard(n) BY <1>2, <1>3 DEF Heard
<1> QED BY <1>1, <1>4, <1>5

\* A change of what neither the promise nor the calls depend on.
LEMMA SameSound ==
    ASSUME NEW t, NEW n, Sound(t), n.pending = t.pending, n.waiting = t.waiting,
           n.resolved = t.resolved, n.rejected = t.rejected, n.call = t.call
    PROVE  Sound(n) /\ Heard(n) = Heard(t) /\ Batch(n) = Batch(t) /\ Open(n) = Open(t)
           /\ Awaiting(n) = Awaiting(t) /\ Active(n) = Active(t)
BY DEF Sound, Open, Calm, Serial, Active, Awaiting, InStatus, Heard, Batch

LEMMA SetStateSound ==
    ASSUME NEW t \in TaskObject, Sound(t), NEW s
    PROVE  LET n == SetState(t, s)
           IN /\ Sound(n) /\ Heard(n) = Heard(t) /\ Batch(n) = Batch(t)
              /\ n.call = t.call /\ n.pending = t.pending
<1> DEFINE n == SetState(t, s)
<1>1. /\ n.pending = t.pending /\ n.waiting = t.waiting /\ n.resolved = t.resolved
      /\ n.rejected = t.rejected /\ n.call = t.call
  BY DEF SetState
<1> HIDE DEF n
<1> QED BY <1>1, SameSound DEF n

LEMMA AnswerHandledSound ==
    ASSUME NEW m, NEW t \in TaskObject, Sound(t)
    PROVE  Sound(AnswerHandled(m, t)) /\ Heard(AnswerHandled(m, t)) = Heard(t)
<1> DEFINE answered == IF says[m].outcome = "editor" THEN {} ELSE {says[m].call}
           details == t.details \ answered
           n == AnswerHandled(m, t)
           u == [t EXCEPT !.details = details, !.skip = FALSE]
<1>0. details \in SUBSET Calls OBVIOUS
<1>3. n = IF u.pending # {} /\ u.state # "input-required"
          THEN SetState(u, "working") ELSE u
  BY DEF AnswerHandled
<1> HIDE DEF n, details
<1>1. /\ u.pending = t.pending /\ u.waiting = t.waiting /\ u.resolved = t.resolved
      /\ u.rejected = t.rejected /\ u.call = t.call /\ u.state = t.state
      /\ u \in TaskObject
  BY <1>0
<1> HIDE DEF u
<1>4. Sound(u) /\ Heard(u) = Heard(t) BY <1>1, SameSound
<1>5. LET v == SetState(u, "working")
      IN Sound(v) /\ Heard(v) = Heard(u) /\ v.call = u.call
  BY <1>1, <1>4, SetStateSound
<1> QED BY <1>3, <1>4, <1>5 DEF n

\* A failed answer takes its call from those the task waits for, and the last one
\* releases the waiters.
LEMMA AnswerThrowsSound ==
    ASSUME NEW m, NEW t \in TaskObject, Sound(t)
    PROVE  Sound(AnswerThrows(m, t)) /\ Heard(t) \subseteq Heard(AnswerThrows(m, t))
<1> DEFINE c == says[m].call
           u == [t EXCEPT !.skip = FALSE]
           pending == u.pending \ {c}
           waiting == IF u.pending = {c} THEN {} ELSE u.waiting
           resolved == IF u.pending = {c} THEN u.resolved \cup u.waiting ELSE u.resolved
           n == [u EXCEPT !.pending = pending, !.waiting = waiting, !.resolved = resolved]
<1>1. /\ u.pending = t.pending /\ u.waiting = t.waiting /\ u.resolved = t.resolved
      /\ u.rejected = t.rejected /\ u.call = t.call /\ u \in TaskObject
  OBVIOUS
<1>2. AnswerThrows(m, t) = n BY DEF AnswerThrows, ResolveToolCall
<1> HIDE DEF u, c
<1>3. /\ waiting = IF t.pending = {c} THEN {} ELSE t.waiting
      /\ resolved = IF t.pending = {c} THEN t.resolved \cup t.waiting ELSE t.resolved
      /\ pending = t.pending \ {c}
  BY <1>1
<1> HIDE DEF pending, waiting, resolved
<1>4. /\ n.pending = pending /\ n.waiting = waiting /\ n.resolved = resolved
      /\ n.rejected = t.rejected /\ n.call = t.call
  BY <1>1
<1> HIDE DEF n
<1>5. Calm(n) BY <1>3, <1>4 DEF Sound, Calm
<1>6. Sound(n)
  BY <1>3, <1>4, <1>5 DEF Sound, Open, Serial, Active, Awaiting, InStatus
<1>7. Heard(t) \subseteq Heard(n) BY <1>3, <1>4 DEF Heard
<1> QED BY <1>2, <1>6, <1>7

LEMMA AnswerEndsSound ==
    ASSUME NEW m, NEW t \in TaskObject, Sound(t)
    PROVE  \A n \in AnswerEnds(m, t) : Sound(n) /\ Heard(t) \subseteq Heard(n)
BY AnswerHandledSound, AnswerThrowsSound DEF AnswerEnds

\* A new batch: its calls are pending, none of them asks or runs yet.
LEMMA StartedSound ==
    ASSUME NEW t \in TaskObject, Sound(t), Batch(t) = {},
           NEW u \in TaskObject, NEW asks \in SUBSET Calls,
           u.pending = t.pending, u.waiting = t.waiting,
           u.resolved = t.resolved, u.rejected = t.rejected, u.state = t.state,
           \A c \in Calls : u.call[c] = IF c \in asks THEN "scheduled" ELSE t.call[c]
    PROVE  LET n == ToolCallsUpdate(u)
           IN /\ n \in TaskObject /\ Sound(n) /\ Heard(t) \subseteq Heard(n)
              /\ Active(n) = {} /\ n.state = t.state
<1>2. \A c \in Calls : u.call[c] \in {"none", "scheduled"} BY DEF Batch
<1>5. t.pending = {} BY DEF Sound, Open, Batch
<1>6. Active(u) = {} BY <1>2 DEF Active, Awaiting, InStatus
<1>7. Calm(u) /\ Serial(u) /\ Heard(u) = Heard(t)
  BY <1>6 DEF Sound, Calm, Serial, Heard
<1>8. LET n == ToolCallsUpdate(u)
      IN /\ n \in TaskObject /\ Sound(n) /\ Heard(u) \subseteq Heard(n)
         /\ n.call = u.call
         /\ n.state = u.state \/ Awaiting(n) # {}
  BY <1>5, <1>7, UpdateSound, UpdateType
<1>9. Active(ToolCallsUpdate(u)) = {}
  BY <1>2, <1>8 DEF Active, Awaiting, InStatus
<1> QED BY <1>7, <1>8, <1>9 DEF Active

\* What the scheduler does to an object between two answers: it asks or runs the next
\* call, ends one, or cancels them all.  It happens while no call asks.
Scheduling(t, n) ==
    /\ n \in TaskObject /\ Sound(n) /\ Heard(t) \subseteq Heard(n)
    /\ Awaiting(t) = {}
    /\ n.state = t.state \/ Awaiting(n) # {}
    /\ \/ Batch(n) = {}
       \/ \A c \in Calls : t.call[c] # "none" => n.call[c] # "none"

LEMMA CancelScheduling ==
    ASSUME NEW t \in TaskObject, Sound(t), Awaiting(t) = {}
    PROVE  Scheduling(t, CancelAll(t))
BY CancelAllType, CancelAllSound DEF Scheduling

LEMMA NextCallScheduling ==
    ASSUME NEW t \in TaskObject, Sound(t), Open(t) = InStatus(t, "scheduled"),
           NEW c \in InStatus(t, "scheduled"),
           NEW s \in {"awaiting_approval", "executing"}
    PROVE  Scheduling(t, ToolCallsUpdate([t EXCEPT !.call[c] = s]))
<1> DEFINE f == [t.call EXCEPT ![c] = s]  u == [t EXCEPT !.call = f]
<1>0. c \in Calls /\ t.call[c] = "scheduled" BY DEF InStatus
<1>1. f \in [Calls -> CallStatus] BY <1>0
<1>2. \A d \in Calls : f[d] = IF d = c THEN s ELSE t.call[d] OBVIOUS
<1> HIDE DEF f
<1>3. u \in TaskObject BY <1>1, SetCall
<1>4. /\ u.call = f /\ u.pending = t.pending /\ u.waiting = t.waiting
      /\ u.resolved = t.resolved /\ u.rejected = t.rejected /\ u.state = t.state
  OBVIOUS
<1>5. u = [t EXCEPT !.call[c] = s] BY DEF f
<1> HIDE DEF u
<1>6. Active(t) = {} /\ Awaiting(t) = {} BY DEF Active, Awaiting, InStatus, Open
<1>7. \A d \in Active(u) : d = c
  BY <1>2, <1>4, <1>6 DEF Active, Awaiting, InStatus
<1>8. u.pending \subseteq Batch(u)
  BY <1>2, <1>4 DEF Sound, Open, Batch
<1>9. Calm(u) /\ Serial(u) /\ Heard(u) = Heard(t)
  BY <1>4, <1>7 DEF Sound, Calm, Serial, Heard
<1> DEFINE n == ToolCallsUpdate(u)
<1>10. /\ n \in TaskObject /\ Sound(n) /\ Heard(u) \subseteq Heard(n)
       /\ n.call = u.call
       /\ n.state = u.state \/ Awaiting(n) # {}
  BY <1>3, <1>8, <1>9, UpdateSound, UpdateType
<1> HIDE DEF n
<1>11. \A d \in Calls : t.call[d] # "none" => n.call[d] # "none"
  BY <1>2, <1>4, <1>10
<1>12. Scheduling(t, n)
  BY <1>4, <1>6, <1>9, <1>10, <1>11 DEF Scheduling
<1> QED BY <1>5, <1>12 DEF n

LEMMA ToolEndsScheduling ==
    ASSUME NEW t \in TaskObject, Sound(t), NEW c \in InStatus(t, "executing")
    PROVE  /\ Awaiting(t) = {}
           /\ Scheduling(t, NotifyCompletion([t EXCEPT !.call[c] = "success"]))
<1> DEFINE f == [t.call EXCEPT ![c] = "success"]  u == [t EXCEPT !.call = f]
<1>0. c \in Calls /\ t.call[c] = "executing" BY DEF InStatus
<1>1. f \in [Calls -> CallStatus] BY <1>0
<1>2. \A d \in Calls : f[d] = IF d = c THEN "success" ELSE t.call[d] OBVIOUS
<1> HIDE DEF f
<1>3. u \in TaskObject BY <1>1, SetCall
<1>4. /\ u.call = f /\ u.pending = t.pending /\ u.waiting = t.waiting
      /\ u.resolved = t.resolved /\ u.rejected = t.rejected /\ u.state = t.state
  OBVIOUS
<1>5. u = [t EXCEPT !.call[c] = "success"] BY DEF f
<1> HIDE DEF u
<1>6. \A d \in Active(t) : d = c
  BY <1>0 DEF Sound, Serial, Active, InStatus
<1>a. Awaiting(t) = {} BY <1>0, <1>6 DEF Active, Awaiting, InStatus
<1>7. Active(u) = {}
  BY <1>2, <1>4, <1>6 DEF Active, Awaiting, InStatus
<1>8. u.pending \subseteq Batch(u)
  BY <1>0, <1>2, <1>4 DEF Sound, Open, Batch
<1>9. Calm(u) /\ Serial(u) /\ Heard(u) = Heard(t)
  BY <1>4, <1>7 DEF Sound, Calm, Serial, Heard
<1> DEFINE n == NotifyCompletion(u)
<1>10. /\ n \in TaskObject /\ Sound(n) /\ Heard(u) \subseteq Heard(n)
       /\ n.state = u.state \/ Awaiting(n) # {}
       /\ Batch(n) = {} \/ n.call = u.call
  BY <1>3, <1>8, <1>9, NotifySound, NotifyType
<1> HIDE DEF n
<1>11. \/ Batch(n) = {}
       \/ \A d \in Calls : t.call[d] # "none" => n.call[d] # "none"
  BY <1>2, <1>4, <1>10
<1>12. Scheduling(t, n)
  BY <1>4, <1>9, <1>10, <1>11, <1>a DEF Scheduling
<1> QED BY <1>5, <1>12, <1>a DEF n

\* The steps of a scheduler, as they change its object.
LEMMA SchedulingSteps ==
    ASSUME IInv, NEW w \in Tasks, Sound(task[w]), NextCall(w) \/ ToolEnds(w)
    PROVE  Quietly /\ \E n \in TaskObject : Put(w, n) /\ Scheduling(task[w], n)
<1>1. task[w] \in TaskObject BY DEF IInv, TypeOK
<1> DEFINE t == task[w]
<1> HIDE DEF t
<1>2. CASE NextCall(w)
  <2>1. Open(t) = InStatus(t, "scheduled") BY <1>2 DEF NextCall, t
  <2>2. Awaiting(t) = {} BY <2>1 DEF Awaiting, InStatus, Open
  <2>3. CASE Put(w, CancelAll(t))
    <3>1. Scheduling(t, CancelAll(t)) BY <1>1, <2>2, CancelScheduling DEF t
    <3> QED BY <1>2, <2>3, <3>1 DEF Scheduling, NextCall, t
  <2>4. CASE \E c \in InStatus(t, "scheduled") :
                Put(w, ToolCallsUpdate([t EXCEPT !.call[c] =
                         IF c \in Asking THEN "awaiting_approval" ELSE "executing"]))
    <3>1. PICK c \in InStatus(t, "scheduled"), s \in {"awaiting_approval", "executing"} :
             Put(w, ToolCallsUpdate([t EXCEPT !.call[c] = s]))
      BY <2>4
    <3>2. Scheduling(t, ToolCallsUpdate([t EXCEPT !.call[c] = s]))
      BY <1>1, <2>1, NextCallScheduling DEF t
    <3> QED BY <1>2, <3>1, <3>2 DEF Scheduling, NextCall, t
  <2> QED BY <1>2, <2>3, <2>4 DEF NextCall, t
<1>3. CASE ToolEnds(w)
  <2>1. PICK c \in InStatus(t, "executing") :
           Put(w, IF SignalAborted(t) THEN CancelAll(t)
                  ELSE NotifyCompletion([t EXCEPT !.call[c] = "success"]))
    BY <1>3 DEF ToolEnds, t
  <2>2. /\ Awaiting(t) = {}
        /\ Scheduling(t, NotifyCompletion([t EXCEPT !.call[c] = "success"]))
    BY <1>1, ToolEndsScheduling DEF t
  <2>3. Scheduling(t, CancelAll(t)) BY <1>1, <2>2, CancelScheduling DEF t
  <2> QED BY <1>3, <2>1, <2>2, <2>3 DEF Scheduling, ToolEnds, t
<1> QED BY <1>2, <1>3

\* Every object is sound, and whoever waits is released or waits on the promise of
\* the moment.
Awaited ==
    /\ \A w \in Tasks : Sound(task[w])
    /\ \A m \in Messages : pc[m] = "wait" => m \in Heard(task[on[m]])

WInv == IInv /\ Awaited

LEMMA PutSound ==
    ASSUME TypeOK, NEW w \in Tasks, NEW t \in TaskObject, Put(w, t)
    PROVE  /\ Sound(t) => Sound(task'[w])
           /\ Heard(task'[w]) = Heard(t)
           /\ Batch(task'[w]) = Batch(t) /\ Open(task'[w]) = Open(t)
           /\ Awaiting(task'[w]) = Awaiting(t) /\ Active(task'[w]) = Active(t)
           /\ task'[w].state = t.state /\ task'[w].call = t.call
           /\ \A v \in Tasks : v # w => task'[v] = task[v]
<1> DEFINE n == [t EXCEPT !.unhandled = FALSE]
<1>1. task'[w] = n /\ \A v \in Tasks : v # w => task'[v] = task[v]
  BY DEF Put, TypeOK
<1>2. /\ n.pending = t.pending /\ n.waiting = t.waiting /\ n.resolved = t.resolved
      /\ n.rejected = t.rejected /\ n.call = t.call /\ n.state = t.state
  OBVIOUS
<1> HIDE DEF n
<1> QED
  BY <1>1, <1>2 DEF Sound, Open, Calm, Serial, Active, Awaiting, InStatus, Heard, Batch

\* A step on the object w by the executions in S: the others stay where they are, and
\* a waiter on w is still heard of.
LEMMA PutAwaited ==
    ASSUME WInv, NEW w \in Tasks, NEW t \in TaskObject, Put(w, t), Sound(t),
           NEW S \in SUBSET Messages,
           \A n \in Messages \ S : pc'[n] = pc[n] /\ on'[n] = on[n],
           \A n \in Messages \ S : pc[n] = "wait" /\ on[n] = w => n \in Heard(t),
           \A n \in S : pc'[n] = "wait" => on'[n] = w /\ n \in Heard(t)
    PROVE  Awaited'
<1> USE DEF WInv
<1>1. /\ Sound(task'[w]) /\ Heard(task'[w]) = Heard(t)
      /\ \A v \in Tasks : v # w => task'[v] = task[v]
  BY PutSound DEF IInv
<1>2. \A v \in Tasks : Sound(task'[v]) BY <1>1 DEF Awaited
<1>3. ASSUME NEW n \in Messages, pc'[n] = "wait" PROVE n \in Heard(task'[on'[n]])
  <2>1. CASE n \in S BY <1>1, <1>3, <2>1
  <2>2. CASE n \notin S
    <3>1. pc[n] = "wait" /\ on'[n] = on[n] BY <1>3, <2>2
    <3>2. on[n] \in Tasks BY <3>1 DEF IInv, Equipped
    <3> QED BY <1>1, <2>2, <3>1, <3>2 DEF Awaited
  <2> QED BY <2>1, <2>2
<1> QED BY <1>2, <1>3 DEF Awaited

\* A step that leaves the objects alone and makes nobody wait.
LEMMA SameAwaited ==
    ASSUME WInv, UNCHANGED task,
           \A n \in Messages : pc'[n] = "wait" => pc[n] = "wait" /\ on'[n] = on[n]
    PROVE  Awaited'
BY DEF WInv, Awaited

LEMMA NewTaskSound ==
    ASSUME NEW s
    PROVE  /\ Sound(NewTask(s)) /\ Heard(NewTask(s)) = {} /\ Batch(NewTask(s)) = {}
           /\ Open(NewTask(s)) = {} /\ Awaiting(NewTask(s)) = {}
           /\ NewTask(s).state = s
<1> DEFINE n == NewTask(s)  f == [c \in Calls |-> "none"]
<1>1. n.pending = {} /\ n.waiting = {} /\ n.resolved = {} /\ n.rejected = {}
      /\ n.state = s /\ n.call = f
  BY DEF NewTask
<1>2. \A c \in Calls : f[c] = "none" OBVIOUS
<1> HIDE DEF n, f
<1>3. Batch(n) = {} /\ Open(n) = {} /\ Awaiting(n) = {} /\ Active(n) = {}
  BY <1>1, <1>2 DEF Batch, Open, Awaiting, Active, InStatus
<1>4. Sound(n) /\ Heard(n) = {} BY <1>1, <1>3 DEF Sound, Calm, Serial, Heard
<1> QED BY <1>1, <1>3, <1>4 DEF n

LEMMA DownAwaited ==
    ASSUME Down
    PROVE  Awaited'
<1>1. \A w \in Tasks : task'[w] = NewTask("submitted") BY DEF Down
<1>2. \A m \in Messages : pc'[m] # "wait" BY DEF Down
<1> QED BY <1>1, <1>2, NewTaskSound DEF Awaited

LEMMA FinishAwaited ==
    ASSUME WInv, NEW m \in Messages, pc[m] \in MainPcs, NEW t \in TaskObject, Sound(t),
           Finish(m, t), Heard(task[on[m]]) \ {m} \subseteq Heard(t)
    PROVE  Awaited'
<1>1. CASE Exits(t) BY <1>1, DownAwaited DEF Finish
<1>2. CASE ~Exits(t)
  <2>1. /\ Put(on[m], t)
        /\ IF InMemory THEN Leave(m)
           ELSE /\ Goto(m, "saving") /\ UNCHANGED <<on, loaded>>
    BY <1>2 DEF Finish
  <2>2. on[m] \in Tasks BY DEF WInv, IInv, Equipped
  <2>3. /\ pc'[m] # "wait"
        /\ \A n \in Messages \ {m} : pc'[n] = pc[n] /\ on'[n] = on[n]
    BY <2>1 DEF Leave, Goto, WInv, IInv, TypeOK
  <2>4. \A n \in Messages \ {m} : pc[n] = "wait" /\ on[n] = on[m] => n \in Heard(t)
    BY DEF WInv, Awaited
  <2> DEFINE S == {m}
  <2>5. \A n \in S : pc'[n] = "wait" => on'[n] = on[m] /\ n \in Heard(t)
    BY <2>1, <2>3
  <2>6. S \in SUBSET Messages /\ \A n \in Messages \ S : n \in Messages \ {m} OBVIOUS
  <2> HIDE DEF S
  <2> QED BY <2>1, <2>2, <2>3, <2>4, <2>5, <2>6, PutAwaited
<1> QED BY <1>1, <1>2

\* A step of the main loop.
LEMMA StepAwaited ==
    ASSUME WInv, NEW m \in Messages, pc[m] \in MainPcs, NEW t \in TaskObject, Sound(t),
           NEW l, Step(m, t, l), Heard(task[on[m]]) \ {m} \subseteq Heard(t),
           l = "wait" => m \in Heard(t)
    PROVE  Awaited'
<1>1. CASE Exits(t) BY <1>1, DownAwaited DEF Step
<1>2. CASE ~Exits(t)
  <2>1. Put(on[m], t) /\ Goto(m, l) /\ UNCHANGED on BY <1>2 DEF Step
  <2>2. on[m] \in Tasks BY DEF WInv, IInv, Equipped
  <2>3. /\ pc'[m] = l
        /\ \A n \in Messages \ {m} : pc'[n] = pc[n] /\ on'[n] = on[n]
    BY <2>1 DEF Goto, WInv, IInv, TypeOK
  <2>4. \A n \in Messages \ {m} : pc[n] = "wait" /\ on[n] = on[m] => n \in Heard(t)
    BY DEF WInv, Awaited
  <2> DEFINE S == {m}
  <2>5. \A n \in S : pc'[n] = "wait" => on'[n] = on[m] /\ n \in Heard(t)
    BY <2>1, <2>3
  <2>6. S \in SUBSET Messages /\ \A n \in Messages \ S : n \in Messages \ {m} OBVIOUS
  <2> HIDE DEF S
  <2> QED BY <2>1, <2>2, <2>3, <2>4, <2>5, <2>6, PutAwaited
<1> QED BY <1>1, <1>2

\* The object the catch block leaves: its own rejection is taken, the promise settled.
LEMMA CaughtSound ==
    ASSUME NEW t \in TaskObject, Sound(t), NEW m
    PROVE  LET r == [t EXCEPT !.rejected = @ \ {m}]
               n == CancelPendingTools(r)
           IN /\ n \in TaskObject /\ Sound(n) /\ Heard(t) \ {m} \subseteq Heard(n)
              /\ n.pending = {} /\ n.call = t.call
<1> DEFINE r == [t EXCEPT !.rejected = @ \ {m}]  n == CancelPendingTools(r)
<1>1. /\ r \in TaskObject /\ r.pending = t.pending /\ r.waiting = t.waiting
      /\ r.resolved = t.resolved /\ r.rejected = t.rejected \ {m} /\ r.call = t.call
  OBVIOUS
<1> HIDE DEF r
<1>2. Sound(r)
  BY <1>1 DEF Sound, Open, Calm, Serial, Active, Awaiting, InStatus
<1>3. Heard(t) \ {m} \subseteq Heard(r) BY <1>1 DEF Heard
<1>4. n \in TaskObject /\ Sound(n) /\ Heard(r) \subseteq Heard(n) /\ n.call = r.call
  BY <1>1, <1>2, CancelPendingSound, CancelPendingType
<1>5. n.pending = {} BY <1>1 DEF CancelPendingTools
<1> HIDE DEF n
<1> QED BY <1>1, <1>3, <1>4, <1>5 DEF n, r

LEMMA CatchAwaited ==
    ASSUME WInv, NEW m \in Messages, pc[m] \in MainPcs, Catch(m)
    PROVE  Awaited'
<1> DEFINE o == task[on[m]]
           t == CancelPendingTools([o EXCEPT !.rejected = @ \ {m}])
<1>1. on[m] \in Tasks /\ o \in TaskObject /\ Sound(o)
  BY DEF WInv, IInv, Equipped, TypeOK, Awaited
<1>2. PICK u \in {t, SetState(t, "input-required"), SetState(t, "failed")} :
         Finish(m, u)
  BY DEF Catch
<1> HIDE DEF o
<1>3. t \in TaskObject /\ Sound(t) /\ Heard(o) \ {m} \subseteq Heard(t)
  BY <1>1, CaughtSound
<1> HIDE DEF t
<1>4. u \in TaskObject /\ Sound(u) /\ Heard(u) = Heard(t)
  BY <1>2, <1>3, SetStateSound, SetStateType
<1> QED BY <1>2, <1>3, <1>4, FinishAwaited DEF o

LEMMA TurnAwaited ==
    ASSUME WInv, NEW m \in Messages, pc[m] \in MainPcs, NEW t \in TaskObject, Sound(t),
           Turn(m, t), Heard(task[on[m]]) \ {m} \subseteq Heard(t)
    PROVE  Awaited'
<1> DEFINE u == [t EXCEPT !.done = {}]
<1>1. /\ u \in TaskObject /\ u.pending = t.pending /\ u.waiting = t.waiting
      /\ u.resolved = t.resolved /\ u.rejected = t.rejected /\ u.call = t.call
  OBVIOUS
<1>2. \/ Catch(m) \/ Step(m, SetState(u, "working"), "stream")
      \/ Finish(m, SetState(u, "input-required"))
  BY DEF Turn
<1> HIDE DEF u
<1>3. Sound(u) /\ Heard(u) = Heard(t) BY <1>1, SameSound
<1>4. \A s \in States : /\ SetState(u, s) \in TaskObject /\ Sound(SetState(u, s))
                        /\ Heard(SetState(u, s)) = Heard(t)
  BY <1>1, <1>3, SetStateSound, SetStateType
<1>5. CASE Catch(m) BY <1>5, CatchAwaited
<1>6. CASE Step(m, SetState(u, "working"), "stream")
  BY <1>4, <1>6, StepAwaited
<1>7. CASE Finish(m, SetState(u, "input-required"))
  BY <1>4, <1>7, FinishAwaited
<1> QED BY <1>2, <1>5, <1>6, <1>7

LEMMA SchedulesAwaited ==
    ASSUME WInv, NEW m \in Messages, pc[m] \in MainPcs, NEW t \in TaskObject, Sound(t),
           Batch(t) = {}, Schedules(m, t), Heard(t) = Heard(task[on[m]])
    PROVE  Awaited'
<1>1. PICK asks \in (SUBSET (Calls \ used)) \ {{}} :
        Step(m, ToolCallsUpdate([t EXCEPT
                        !.call = [c \in Calls |-> IF c \in asks THEN "scheduled"
                                                  ELSE @[c]],
                        !.signal = m]), "schedule")
  BY DEF Schedules
<1> DEFINE f == [c \in Calls |-> IF c \in asks THEN "scheduled" ELSE t.call[c]]
           u == [t EXCEPT !.call = f, !.signal = m]
           n == ToolCallsUpdate(u)
<1>2. Step(m, n, "schedule") BY <1>1
<1>3. asks \in SUBSET Calls /\ f \in [Calls -> CallStatus]
      /\ \A c \in Calls : f[c] = IF c \in asks THEN "scheduled" ELSE t.call[c]
  OBVIOUS
<1> HIDE DEF f
<1>4. /\ u \in TaskObject /\ u.pending = t.pending /\ u.waiting = t.waiting
      /\ u.resolved = t.resolved /\ u.rejected = t.rejected /\ u.call = f
      /\ u.state = t.state
  BY <1>3
<1> HIDE DEF u
<1>5. n \in TaskObject /\ Sound(n) /\ Heard(t) \subseteq Heard(n)
  BY <1>3, <1>4, StartedSound
<1> HIDE DEF n
<1> QED BY <1>2, <1>5, StepAwaited

LEMMA LoopAwaited ==
    ASSUME WInv, NEW m \in Messages, Settles(m) \/ Streams(m)
    PROVE  Awaited'
<1> DEFINE t == task[on[m]]
<1>0. pc[m] \in Working => on[m] \in Tasks /\ t \in TaskObject /\ Sound(t)
  BY DEF WInv, IInv, Equipped, TypeOK, Awaited
<1>p. pc \in [Messages -> PcValues] /\ on \in [Messages -> Tasks \cup {None}]
  BY DEF WInv, IInv, TypeOK
<1> HIDE DEF t
<1>1. CASE StreamThrows(m) BY <1>1, CatchAwaited DEF StreamThrows
<1>2. CASE StreamCancels(m)
  <2>0. pc[m] = "stream" BY <1>2 DEF StreamCancels
  <2>1. PICK s \in {"input-required", t.state} :
           Step(m, SetState(CancelPendingTools(t), s), "stream")
    BY <1>2 DEF StreamCancels, t
  <2> DEFINE n == CancelPendingTools(t)
  <2>2. n \in TaskObject /\ Sound(n) /\ Heard(t) \subseteq Heard(n)
    BY <1>0, <2>0, CancelPendingSound, CancelPendingType
  <2> HIDE DEF n
  <2>3. s \in States BY <1>0, <2>0
  <2>4. SetState(n, s) \in TaskObject /\ Sound(SetState(n, s))
        /\ Heard(SetState(n, s)) = Heard(n)
    BY <2>2, <2>3, SetStateSound, SetStateType
  <2> QED BY <2>0, <2>1, <2>2, <2>4, StepAwaited DEF n, t
<1>3. CASE StreamEnds(m)
  BY <1>3, <1>p, SameAwaited DEF StreamEnds, Goto
<1>4. CASE ScheduleToolCalls(m)
  <2>0. pc[m] = "checkpoint" BY <1>4 DEF ScheduleToolCalls
  <2> DEFINE u == SetState(t, "working")
  <2>1. u \in TaskObject /\ Sound(u) /\ Heard(u) = Heard(t) /\ Batch(u) = Batch(t)
    BY <1>0, <2>0, SetStateSound, SetStateType
  <2>2. (Batch(u) = {} /\ Schedules(m, u)) \/ Step(m, u, "queued")
    BY <1>4 DEF ScheduleToolCalls, t
  <2> HIDE DEF u
  <2> QED BY <2>0, <2>1, <2>2, SchedulesAwaited, StepAwaited DEF t
<1>5. CASE Dequeue(m)
  <2>0. pc[m] = "queued" BY <1>5 DEF Dequeue
  <2>1. (Batch(t) = {} /\ Schedules(m, t)) \/ Catch(m) BY <1>5 DEF Dequeue, t
  <2> QED BY <1>0, <2>0, <2>1, SchedulesAwaited, CatchAwaited DEF t
<1>6. CASE Scheduled(m)
  BY <1>0, <1>6, StepAwaited DEF Scheduled, t
<1>7. CASE Answered(m)
  <2>0. pc[m] \in {"confirm", "sideConfirm"} BY <1>7 DEF Answered
  <2>a. PICK u \in AnswerEnds(m, t) :
             \/ pc[m] = "confirm" /\ Step(m, u, "answered")
             \/ pc[m] = "sideConfirm" /\ Put(on[m], u) /\ Leave(m)
    BY <1>7 DEF Answered, t
  <2>1. u \in TaskObject /\ Sound(u) /\ Heard(t) \subseteq Heard(u)
    BY <1>0, <2>0, AnswerEndsSound, AnswerEndsType
  <2>2. CASE pc[m] = "confirm" /\ Step(m, u, "answered")
    BY <2>1, <2>2, StepAwaited DEF t
  <2>3. CASE pc[m] = "sideConfirm" /\ Put(on[m], u) /\ Leave(m)
    <3>2. /\ pc'[m] = "done"
          /\ \A n \in Messages : n # m => pc'[n] = pc[n] /\ on'[n] = on[n]
      BY <1>p, <2>3 DEF Leave, Goto
    <3> DEFINE S == {m}
    <3>3. S \in SUBSET Messages /\ \A n \in Messages \ S : n # m OBVIOUS
    <3>4. \A n \in S : pc'[n] # "wait" BY <3>2
    <3> HIDE DEF S
    <3>5. \A n \in Messages \ S : pc[n] = "wait" /\ on[n] = on[m] => n \in Heard(u)
      BY <2>1 DEF WInv, Awaited, t
    <3>6. on[m] \in Tasks BY <1>0, <2>3
    <3>7. \A n \in Messages \ S : pc'[n] = pc[n] /\ on'[n] = on[n] BY <3>2, <3>3
    <3> QED BY <2>1, <2>3, <3>3, <3>4, <3>5, <3>6, <3>7, PutAwaited
  <2> QED BY <2>a, <2>2, <2>3
<1>11. CASE NothingStreamed(m)
  <2>0. pc[m] = "answered" BY <1>11 DEF NothingStreamed
  <2>1. Catch(m) \/ Step(m, t, "settle") BY <1>11 DEF NothingStreamed, t
  <2> QED BY <1>0, <2>0, <2>1, CatchAwaited, StepAwaited DEF t
<1>8. CASE SideEnds(m)
  BY <1>8, <1>p, SameAwaited DEF SideEnds, Leave, Goto
<1>9. CASE Settle(m)
  <2>0. pc[m] = "settle" BY <1>9 DEF Settle
  <2> DEFINE u == [t EXCEPT !.waiting = @ \cup {m}]
  <2>1. \/ Turn(m, t)
        \/ t.pending # {} /\ Step(m, u, "wait")
    BY <1>9 DEF Settle, t
  <2>2. CASE Turn(m, t) BY <1>0, <2>0, <2>2, TurnAwaited DEF t
  <2>3. CASE t.pending # {} /\ Step(m, u, "wait")
    <3>1. /\ u \in TaskObject /\ u.pending = t.pending /\ u.waiting = t.waiting \cup {m}
          /\ u.resolved = t.resolved /\ u.rejected = t.rejected /\ u.call = t.call
      BY <1>0, <2>0
    <3> HIDE DEF u
    <3>2. Sound(u)
      BY <1>0, <2>0, <2>3, <3>1 DEF Sound, Open, Calm, Serial, Active, Awaiting, InStatus
    <3>3. Heard(t) \subseteq Heard(u) /\ m \in Heard(u) BY <3>1 DEF Heard
    <3> QED BY <2>0, <2>3, <3>1, <3>2, <3>3, StepAwaited DEF t
  <2> QED BY <2>1, <2>2, <2>3
<1>10. CASE WakeUp(m)
  <2>0. pc[m] = "wait" BY <1>10 DEF WakeUp
  <2> DEFINE u == [t EXCEPT !.resolved = @ \ {m}]
  <2>1. Turn(m, u) \/ Catch(m) BY <1>10 DEF WakeUp, t
  <2>2. /\ u \in TaskObject /\ u.pending = t.pending /\ u.waiting = t.waiting
        /\ u.resolved = t.resolved \ {m} /\ u.rejected = t.rejected /\ u.call = t.call
    BY <1>0, <2>0
  <2> HIDE DEF u
  <2>3. Sound(u)
    BY <1>0, <2>0, <2>2 DEF Sound, Open, Calm, Serial, Active, Awaiting, InStatus
  <2>4. Heard(t) \ {m} \subseteq Heard(u) BY <2>2 DEF Heard
  <2> QED BY <2>0, <2>1, <2>2, <2>3, <2>4, TurnAwaited, CatchAwaited DEF t
<1> QED BY <1>1, <1>2, <1>3, <1>4, <1>5, <1>6, <1>7, <1>8, <1>9, <1>10, <1>11
      DEF Settles, Streams

\* What the start of an execution does to the object it works on: nothing, or a change
\* of state, or the answer to the call that asks.
LEMMA RunObject ==
    ASSUME WInv, NEW m \in Messages, pc[m] \in {"received", "ready"}, NEW w \in Tasks,
           Run(m, w), Asking \subseteq Calls
    PROVE  /\ pc'[m] # "wait"
           /\ \A n \in Messages \ {m} : pc'[n] = pc[n] /\ on'[n] = on[n]
           /\ \/ UNCHANGED task
              \/ \E t \in TaskObject :
                    Put(w, t) /\ Sound(t) /\ Heard(task[w]) \subseteq Heard(t)
<1> DEFINE o == task[w]  s == says[m]
<1>1. o \in TaskObject /\ Sound(o) BY DEF WInv, IInv, TypeOK, Awaited
<1>p. /\ pc \in [Messages -> PcValues] /\ on \in [Messages -> Tasks \cup {None}]
      /\ s \in Answers \cup {Text} /\ executing \in BOOLEAN
  BY DEF WInv, IInv, TypeOK
<1>l. ASSUME Leave(m) PROVE pc'[m] = "done" /\ on'[m] = None
             /\ \A n \in Messages \ {m} : pc'[n] = pc[n] /\ on'[n] = on[n]
  BY <1>p, <1>l DEF Leave, Goto
<1>g. ASSUME NEW l, Goto(m, l) PROVE pc'[m] = l
             /\ \A n \in Messages \ {m} : pc'[n] = pc[n]
  BY <1>p, <1>g DEF Goto
<1>5. CASE Leave(m) /\ UNCHANGED <<task, executing>>
  BY <1>l, <1>5
<1>6. CASE /\ executing' = TRUE /\ on' = [on EXCEPT ![m] = w]
           /\ Put(w, SetState(o, "working"))
           /\ Goto(m, IF ~executing THEN "stream" ELSE "side")
  <2> DEFINE t == SetState(o, "working")
  <2>1. t \in TaskObject /\ Sound(t) /\ Heard(t) = Heard(o)
    BY <1>1, SetStateSound, SetStateType
  <2>2. pc'[m] # "wait" /\ \A n \in Messages \ {m} : pc'[n] = pc[n]
    BY <1>6, <1>g
  <2>3. on'[m] = w /\ \A n \in Messages \ {m} : on'[n] = on[n] BY <1>6, <1>p
  <2>4. Put(w, t) BY <1>6
  <2> HIDE DEF t
  <2> QED BY <1>6, <2>1, <2>2, <2>3, <2>4
<1>7. CASE /\ executing' = TRUE /\ on' = [on EXCEPT ![m] = w]
           /\ s # Text /\ o.call[s.call] = "awaiting_approval"
           /\ \E t \in Confirmed(o, s) : Put(w, t)
           /\ Goto(m, IF ~executing THEN "confirm" ELSE "sideConfirm")
  <2>0. s \in Answers BY <1>7, <1>p
  <2>1. PICK t \in Confirmed(o, s) : Put(w, t) BY <1>7
  <2>2. t \in TaskObject /\ Sound(t) /\ Heard(o) \subseteq Heard(t)
    BY <1>1, <1>7, <2>0, ConfirmedSound, ConfirmedType
  <2>3. pc'[m] # "wait" /\ \A n \in Messages \ {m} : pc'[n] = pc[n]
    BY <1>7, <1>g
  <2>4. \A n \in Messages \ {m} : on'[n] = on[n] BY <1>7, <1>p
  <2> QED BY <2>1, <2>2, <2>3, <2>4
<1>8. CASE /\ executing' = TRUE /\ Goto(m, "answered") /\ on' = [on EXCEPT ![m] = w]
           /\ UNCHANGED task
  BY <1>8, <1>g, <1>p
<1>9. CASE /\ executing' = TRUE /\ Leave(m) /\ UNCHANGED task
  BY <1>9, <1>l
<1> QED BY <1>5, <1>6, <1>7, <1>8, <1>9 DEF Run, HasMainLoop

LEMMA RunAwaited ==
    ASSUME WInv, NEW m \in Messages, pc[m] \in {"received", "ready"}, NEW w \in Tasks,
           Run(m, w), Asking \subseteq Calls
    PROVE  Awaited'
<1>1. /\ pc'[m] # "wait"
      /\ \A n \in Messages \ {m} : pc'[n] = pc[n] /\ on'[n] = on[n]
  BY RunObject
<1>2. CASE UNCHANGED task BY <1>1, <1>2, SameAwaited
<1>3. ASSUME NEW t \in TaskObject, Put(w, t), Sound(t), Heard(task[w]) \subseteq Heard(t)
      PROVE  Awaited'
  <2> DEFINE S == {m}
  <2>1. /\ S \in SUBSET Messages /\ \A n \in S : pc'[n] # "wait"
        /\ \A n \in Messages \ S : pc'[n] = pc[n] /\ on'[n] = on[n]
    BY <1>1
  <2> HIDE DEF S
  <2>2. \A n \in Messages \ S : pc[n] = "wait" /\ on[n] = w => n \in Heard(t)
    BY <1>3 DEF WInv, Awaited
  <2> QED BY <1>3, <2>1, <2>2, PutAwaited
<1> QED BY <1>2, <1>3, RunObject

\* A new object takes the place of one nobody refers to.
LEMMA NewObjectAwaited ==
    ASSUME WInv, NEW m \in Messages, NEW w \in Tasks, Free(w), NEW s \in States,
           Put(w, NewTask(s)), on' = [on EXCEPT ![m] = w], NEW l, l # "wait", Goto(m, l)
    PROVE  Awaited'
<1> DEFINE t == NewTask(s)  S == {m}
<1>1. t \in TaskObject /\ Sound(t) BY NewTaskType, NewTaskSound
<1>2. /\ S \in SUBSET Messages /\ \A n \in S : pc'[n] # "wait"
      /\ \A n \in Messages \ S : pc'[n] = pc[n] /\ on'[n] = on[n]
  BY DEF Goto, WInv, IInv, TypeOK
<1>3. \A n \in Messages : on[n] # w BY DEF Free
<1>4. Put(w, t) OBVIOUS
<1> HIDE DEF t, S
<1> QED BY <1>1, <1>2, <1>3, <1>4, PutAwaited

LEMMA AwaitedStep == AgentAssumption /\ WInv /\ [Next]_vars => Awaited'
<1> SUFFICES ASSUME AgentAssumption, WInv, [Next]_vars PROVE Awaited' OBVIOUS
<1>0. Asking \subseteq Calls BY DEF AgentAssumption
<1>p. /\ pc \in [Messages -> PcValues] /\ on \in [Messages -> Tasks \cup {None}]
      /\ cache \in Tasks \cup {None}
  BY DEF WInv, IInv, TypeOK
<1>1. ASSUME NEW m \in Messages, Arrive(m) PROVE Awaited'
  BY <1>1, <1>p, SameAwaited DEF Arrive, Goto
<1>2. ASSUME NEW m \in Messages, Execute(m) PROVE Awaited'
  <2>1. CASE cache # None /\ Run(m, cache)
    BY <1>0, <1>2, <1>p, <2>1, RunAwaited DEF Execute
  <2>2. CASE /\ Goto(m, "reconstructing") \/ Goto(m, "creating")
             /\ UNCHANGED <<task, executing, on, loaded>>
    BY <1>p, <2>2, SameAwaited DEF Goto
  <2> QED BY <1>2, <2>1, <2>2 DEF Execute
<1>3. ASSUME NEW m \in Messages, Reconstruct(m) PROVE Awaited'
  <2>1. loaded[m] \in States BY <1>3 DEF Reconstruct, WInv, IInv, Equipped
  <2> QED BY <1>3, <2>1, NewObjectAwaited DEF Reconstruct, Restored
<1>4. ASSUME NEW m \in Messages, Create(m) PROVE Awaited'
  BY <1>4, NewObjectAwaited DEF Create
<1>5. ASSUME NEW m \in Messages, HydrateFails(m) PROVE Awaited'
  BY <1>5, <1>p, SameAwaited DEF HydrateFails, Leave, Goto
<1>6. ASSUME NEW m \in Messages, Resume(m) PROVE Awaited'
  <2>1. on[m] \in Tasks BY <1>6 DEF Resume, WInv, IInv, Equipped
  <2> QED BY <1>0, <1>6, <2>1, RunAwaited DEF Resume
<1>7. ASSUME NEW m \in Messages, SaveEnds(m) PROVE Awaited'
  BY <1>7, <1>p, SameAwaited DEF SaveEnds, Leave, Goto
<1>8. ASSUME NEW m \in Messages, Settles(m) \/ Streams(m) PROVE Awaited'
  BY <1>8, LoopAwaited
<1>9. ASSUME NEW m \in Messages, Disconnect(m) PROVE Awaited'
  BY <1>9, SameAwaited DEF Disconnect
<1>10. ASSUME NEW w \in Tasks, NextCall(w) \/ ToolEnds(w) PROVE Awaited'
  <2>1. Sound(task[w]) BY DEF WInv, Awaited
  <2>2. Quietly /\ \E n \in TaskObject : Put(w, n) /\ Scheduling(task[w], n)
    BY <1>10, <2>1, SchedulingSteps DEF WInv
  <2>3. PICK t \in TaskObject : Put(w, t) /\ Sound(t) /\ Heard(task[w]) \subseteq Heard(t)
    BY <2>2 DEF Scheduling
  <2>4. UNCHANGED <<pc, on>> BY <2>2 DEF Quietly
  <2> DEFINE S == {}
  <2>5. S \in SUBSET Messages /\ \A n \in S : FALSE OBVIOUS
  <2> HIDE DEF S
  <2>6. \A n \in Messages \ S : pc[n] = "wait" /\ on[n] = w => n \in Heard(t)
    BY <2>3 DEF WInv, Awaited
  <2> QED BY <2>3, <2>4, <2>5, <2>6, PutAwaited
<1>11. ASSUME CancelTask PROVE Awaited'
  <2> DEFINE u == CancelPendingTools(task[cache])  t == SetState(u, "canceled")
  <2>1. cache \in Tasks BY <1>11, <1>p DEF CancelTask
  <2>2. task[cache] \in TaskObject /\ Sound(task[cache])
    BY <2>1 DEF WInv, IInv, TypeOK, Awaited
  <2>3. u \in TaskObject /\ Sound(u) /\ Heard(task[cache]) \subseteq Heard(u)
    BY <2>2, CancelPendingSound, CancelPendingType
  <2> HIDE DEF u
  <2>4. t \in TaskObject /\ Sound(t) /\ Heard(task[cache]) \subseteq Heard(t)
    BY <2>3, SetStateSound, SetStateType
  <2>5. Down \/ (Put(cache, t) /\ UNCHANGED <<pc, on>>) BY <1>11 DEF CancelTask, u
  <2> HIDE DEF t
  <2>6. CASE Down BY <2>6, DownAwaited
  <2>7. CASE Put(cache, t) /\ UNCHANGED <<pc, on>>
    <3> DEFINE S == {}
    <3>5. S \in SUBSET Messages /\ \A n \in S : FALSE OBVIOUS
    <3> HIDE DEF S
    <3>6. \A n \in Messages \ S : pc[n] = "wait" /\ on[n] = cache => n \in Heard(t)
      BY <2>4 DEF WInv, Awaited
    <3> QED BY <2>1, <2>4, <2>7, <3>5, <3>6, PutAwaited
  <2> QED BY <2>5, <2>6, <2>7
<1>12. ASSUME CancelSaved PROVE Awaited'
  BY <1>12, SameAwaited DEF CancelSaved
<1>13. ASSUME Restart PROVE Awaited'
  BY <1>13, DownAwaited DEF Restart
<1>14. ASSUME UNCHANGED vars PROVE Awaited'
  BY <1>14, SameAwaited DEF vars
<1> QED BY <1>1, <1>2, <1>3, <1>4, <1>5, <1>6, <1>7, <1>8, <1>9, <1>10, <1>11,
           <1>12, <1>13, <1>14 DEF Next, Event

LEMMA AwaitedInitially == Init => Awaited
<1> SUFFICES ASSUME Init PROVE Awaited OBVIOUS
<1>1. \A w \in Tasks : task[w] = NewTask("submitted") BY DEF Init
<1>2. \A m \in Messages : pc[m] # "wait" BY DEF Init
<1> QED BY <1>1, <1>2, NewTaskSound DEF Awaited

\* Throughout, every Task object counts as pending only calls its scheduler holds, and
\* knows every execution that waits on it (task.ts 196-251).
THEOREM AwaitedInvariant == Spec => []WInv
<1>1. Init => Awaited BY AwaitedInitially
<1>2. AgentAssumption /\ IInv /\ Awaited /\ [Next]_vars => Awaited'
  BY AwaitedStep DEF WInv
<1>3. IInv /\ Awaited => WInv BY DEF WInv
<1> QED BY <1>1, <1>2, <1>3, Invariance, AgentAssumption, PTL DEF Spec

\* Whatever the constants: the main loop never waits on a promise nobody will settle,
\* though registrations, ends and cancellations replace the promise under it (task.ts
\* 196-251).
THEOREM NoLostWakeupCorrect == Spec => []NoLostWakeup
<1>1. WInv => NoLostWakeup
  <2> SUFFICES ASSUME WInv PROVE NoLostWakeup OBVIOUS
  <2>1. \A w \in Tasks : task[w].pending \subseteq Open(task[w])
    BY DEF WInv, Awaited, Sound
  <2>2. ASSUME NEW m \in Messages, pc[m] = "wait"
        PROVE  LET t == task[on[m]]
               IN m \in t.resolved \cup t.rejected \/ (m \in t.waiting /\ t.pending # {})
    <3>1. on[m] \in Tasks BY <2>2 DEF WInv, IInv, Equipped
    <3>2. m \in Heard(task[on[m]]) /\ Calm(task[on[m]])
      BY <2>2, <3>1 DEF WInv, Awaited, Sound
    <3> QED BY <3>2 DEF Heard, Calm
  <2> QED BY <2>1, <2>2 DEF NoLostWakeup
<1> QED BY <1>1, AwaitedInvariant, PTL

=============================================================================
