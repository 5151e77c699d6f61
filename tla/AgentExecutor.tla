--------------------------- MODULE AgentExecutor ---------------------------
(***************************************************************************)
(* The A2A server's executor for one task id (agent/executor.ts) with the  *)
(* Task objects it creates (agent/task.ts) and the task store.             *)
(*                                                                         *)
(* A message that finds the task idle becomes its main loop: it streams    *)
(* the model's answer, schedules the tools the model asks for, waits for   *)
(* them and sends their results back.  A message that finds the main loop  *)
(* running answers its prompts, or streams an answer nobody reads, and     *)
(* ends.  A cancellation, the client's disconnection and a restart of the  *)
(* server may come at any time.  Every action is what happens between two  *)
(* awaits.  The tool scheduler appears as its client sees it: the calls of *)
(* a batch one at a time, a call that needs approval waiting for it, one   *)
(* report for the batch (module ToolScheduler has its inner steps).        *)
(***************************************************************************)
EXTENDS Naturals, FiniteSets

CONSTANTS
    Tasks,         \* identities of Task objects, those collected being reused
    Messages,      \* calls of execute() for this task id
    Calls,         \* tool calls the model may ask for; bounds a task's turns
    Asking,        \* those that need the user's approval
    Outcomes,      \* how a user answers: "proceed", "cancel", "edit" (with new
                   \* content) or "editor" (modify_with_editor)
    Settings,      \* what surrounds the executor: whether its store is the process's
                   \* own and saves at once ("memory"), or outlives it and saves later
                   \* and in any order ("bucket"); whether two messages may
                   \* reconstruct the task at once; whether an unhandled rejection
                   \* ends the process (http/server.ts); and what an earlier process
                   \* left of the task in the bucket
    MaxCancels, MaxRestarts,
    None

States == {"submitted", "working", "input-required", "canceled", "failed"}

ASSUME AgentAssumption ==
    /\ Asking \subseteq Calls
    /\ Outcomes \subseteq {"proceed", "edit", "editor", "cancel"}
    /\ Settings \subseteq [store : {"memory", "bucket"}, overlap : BOOLEAN,
                            exits : BOOLEAN, stored : States \cup {None}]
    /\ \A s \in Settings : s.store = "memory" => s.stored = None
    /\ MaxCancels \in Nat /\ MaxRestarts \in Nat
    /\ None \notin Tasks \cup Messages \cup Calls
    /\ None \notin States

VARIABLES
    task,        \* the Task objects, each with its scheduler
    cache,       \* tasks: the object this task id stands for, or None
    executing,   \* executingTasks.has(taskId)
    store,       \* the state last saved, or None
    pc,          \* where each execute() is
    on,          \* the Task object it works on
    loaded,      \* the stored state its request carried (requestContext.task)
    says,        \* its message: text, or the answer to a prompt
    aborted,     \* its client is gone
    saving,      \* the state it is saving
    cancelSave,  \* the state cancelTask is saving
    used, cancels, restarts,   \* bounds: calls made, cancellations, restarts
    env          \* the setting; never changes

vars == <<task, cache, executing, store, pc, on, loaded, says, aborted, saving,
          cancelSave, used, cancels, restarts, env>>

Final  == {"canceled", "failed"}

OpenStatus == {"scheduled", "awaiting_approval", "executing"}
CallStatus == OpenStatus \cup {"none", "success", "cancelled"}

Text == [call |-> None, outcome |-> None]
Answers == [call : Asking, outcome : Outcomes]

MainPcs == {"confirm", "answered", "stream", "checkpoint", "queued", "schedule",
            "settle", "wait"}
SidePcs == {"sideConfirm", "side"}
PcValues == {"new", "received", "creating", "reconstructing", "savingNew",
             "ready", "saving", "done"} \cup MainPcs \cup SidePcs

-----------------------------------------------------------------------------
(* One Task object: pending is the domain of pendingToolCalls, waiting the  *)
(* executions that wait on the current toolCompletionPromise, resolved and  *)
(* rejected those whose promise was settled so; call is the scheduler's     *)
(* batch and signal the execution whose abort signal it got.                *)

TaskObject ==
    [state : States, pending : SUBSET Calls, waiting : SUBSET Messages,
     resolved : SUBSET Messages, rejected : SUBSET Messages, unhandled : BOOLEAN,
     details : SUBSET Calls, skip : BOOLEAN,
     done : SUBSET (Calls \X {"success", "cancelled"}),
     call : [Calls -> CallStatus], signal : Messages \cup {None}]

NewTask(state) ==
    [state |-> state, pending |-> {}, waiting |-> {}, resolved |-> {},
     rejected |-> {}, unhandled |-> FALSE, details |-> {}, skip |-> FALSE,
     done |-> {}, call |-> [c \in Calls |-> "none"], signal |-> None]

Open(t)  == {c \in Calls : t.call[c] \in OpenStatus}
Batch(t) == {c \in Calls : t.call[c] # "none"}
InStatus(t, status) == {c \in Calls : t.call[c] = status}

\* The scheduler has nothing more to do until the user answers.
AtRest(t) == Open(t) = {} \/ InStatus(t, "awaiting_approval") # {}

\* _schedulerToolCallsUpdate: pendingToolCalls follows the scheduler's calls; the
\* first one registered makes a new promise, the last one resolved settles it.
ToolCallsUpdate(t) ==
    LET pending == (t.pending \ Batch(t)) \cup Open(t)
        reset   == t.pending = {} /\ pending # {}
        resolve == t.pending # {} /\ pending = {}
        asks    == /\ pending \cap InStatus(t, "awaiting_approval") # {}
                   /\ pending \cap InStatus(t, "executing") = {}
                   /\ ~t.skip
    IN [t EXCEPT
          !.pending  = pending,
          !.waiting  = IF reset \/ resolve THEN {} ELSE @,
          !.resolved = IF resolve THEN @ \cup t.waiting ELSE @,
          !.details  = @ \cup InStatus(t, "awaiting_approval"),
          !.state    = IF asks THEN "input-required" ELSE @]

\* A bug: the batch is reported when its active call ends, whatever is queued.
BugNotifyCompletion(t) ==
    LET u == ToolCallsUpdate(t)
    IN [u EXCEPT !.done = @ \cup {<<c, u.call[c]>> : c \in Batch(u)},
                 !.call = [c \in Calls |-> "none"],
                 !.signal = None]

\* checkAndNotifyCompletion: when no call is left the batch is reported, and
\* _schedulerAllToolCallsComplete keeps the results.
NotifyCompletion(t) ==
    LET u == ToolCallsUpdate(t)
    IN IF Open(u) # {} THEN u
       ELSE [u EXCEPT !.done = @ \cup {<<c, u.call[c]>> : c \in Batch(u)},
                      !.call = [c \in Calls |-> "none"],
                      !.signal = None]

\* Every call of the batch that has not ended is cancelled.
CancelAll(t) ==
    NotifyCompletion([t EXCEPT !.call =
        [c \in Calls |-> IF @[c] \in OpenStatus THEN "cancelled" ELSE @[c]]])

\* A bug: the promise is replaced without being rejected.
BugCancelPendingTools(t) ==
    [t EXCEPT !.pending = {}, !.waiting = {}, !.unhandled = FALSE]

\* cancelPendingTools: rejects the promise and forgets the calls, which stay with
\* the scheduler.  A rejection nobody waits for is an unhandled one.
CancelPendingTools(t) ==
    [t EXCEPT !.pending = {}, !.waiting = {},
              !.rejected = IF t.pending # {} THEN @ \cup t.waiting ELSE @,
              !.unhandled = t.pending # {} /\ t.waiting = {}]

SetState(t, state) == [t EXCEPT !.state = state]

-----------------------------------------------------------------------------
TypeOK ==
    /\ task \in [Tasks -> TaskObject]
    /\ cache \in Tasks \cup {None}
    /\ executing \in BOOLEAN
    /\ store \in States \cup {None}
    /\ pc \in [Messages -> PcValues]
    /\ on \in [Messages -> Tasks \cup {None}]
    /\ loaded \in [Messages -> States \cup {None}]
    /\ says \in [Messages -> Answers \cup {Text}]
    /\ aborted \in [Messages -> BOOLEAN]
    /\ saving \in [Messages -> States \cup {None}]
    /\ cancelSave \in States \cup {None}
    /\ used \subseteq Calls
    /\ cancels \in 0..MaxCancels /\ restarts \in 0..MaxRestarts
    /\ env \in Settings

Init ==
    /\ env \in Settings
    /\ task = [w \in Tasks |-> NewTask("submitted")]
    /\ cache = None /\ executing = FALSE /\ store = env.stored
    /\ pc = [m \in Messages |-> "new"]
    /\ on = [m \in Messages |-> None]
    /\ loaded = [m \in Messages |-> None]
    /\ says = [m \in Messages |-> Text]
    /\ aborted = [m \in Messages |-> FALSE]
    /\ saving = [m \in Messages |-> None]
    /\ cancelSave = None
    /\ used = {} /\ cancels = 0 /\ restarts = 0

InMemory == env.store = "memory"

\* What the next process finds: InMemoryTaskStore is made anew by each of them.
Stored == IF InMemory THEN None ELSE store

\* A process that starts has no task in memory, and its requests are lost.
Down ==
    /\ store' = Stored
    /\ task' = [w \in Tasks |-> NewTask("submitted")]
    /\ cache' = None /\ executing' = FALSE
    /\ pc' = [m \in Messages |-> IF pc[m] = "new" THEN "new" ELSE "done"]
    /\ on' = [m \in Messages |-> None]
    /\ loaded' = [m \in Messages |-> None]
    /\ says' = [m \in Messages |-> Text]
    /\ aborted' = [m \in Messages |-> pc[m] # "new"]
    /\ saving' = [m \in Messages |-> None]
    /\ cancelSave' = None

Exits(t) == t.unhandled /\ env.exits

Put(w, t) == task' = [task EXCEPT ![w] = [t EXCEPT !.unhandled = FALSE]]
Goto(m, l) == pc' = [pc EXCEPT ![m] = l]

\* A Task object nothing refers to any more.
Free(w) ==
    /\ cache # w
    /\ \A m \in Messages : on[m] # w
    /\ Batch(task[w]) = {}

Bounds == <<used, cancels, restarts, env>>
Request == <<loaded, says, aborted>>

-----------------------------------------------------------------------------
(* execute(): the request, and the Task object.                             *)

\* The request handler loads the task and calls execute().  The first message begins
\* the task; the later ones name it, and are refused when it is not stored.  An answer
\* names a call whose prompt was sent, and waits for the end of an earlier answer to
\* the same prompt (see ToolScheduler for answers that overlap).
Arrive(m) ==
    /\ pc[m] = "new"
    /\ store = None => \A n \in Messages : pc[n] = "new"
    /\ \E s \in Answers \cup {Text} :
          /\ s # Text => /\ \E w \in Tasks : s.call \in task[w].details
                         /\ \A n \in Messages : says[n].call = s.call => pc[n] = "done"
          /\ says' = [says EXCEPT ![m] = s]
    /\ loaded' = [loaded EXCEPT ![m] = store]
    /\ Goto(m, "received")
    /\ UNCHANGED <<task, cache, executing, store, on, aborted, saving, cancelSave,
                   Bounds>>

\* The user's answer reaches the scheduler through confirmationDetails.onConfirm:
\* a cancellation, or an aborted signal, cancels the batch; the editor is opened and
\* the call goes on waiting; new content may turn out not to apply, and the call waits
\* too; in all other cases it runs.
Confirmed(t, s) ==
    LET stop == s.outcome = "cancel" \/ (t.signal # None /\ aborted[t.signal])
        u    == [t EXCEPT !.skip = (s.outcome = "edit")]
        runs == ToolCallsUpdate([u EXCEPT !.call[s.call] = "executing"])
    IN IF stop THEN {CancelAll(u)}
       ELSE CASE s.outcome = "editor" -> {ToolCallsUpdate(u)}
              [] s.outcome = "edit"   -> {runs, u}
              [] OTHER                -> {runs}

\* An execution ends; its object is no longer referred to.
Leave(m) ==
    /\ Goto(m, "done")
    /\ on' = [on EXCEPT ![m] = None]
    /\ loaded' = [loaded EXCEPT ![m] = None]

\* A bug: each Task object knows of its own main loop only.
BugHasMainLoop(w) == \E n \in Messages : on[n] = w /\ pc[n] \in MainPcs

\* executingTasks is keyed by the task's id, whichever object the loop works on.
HasMainLoop(w) == executing

\* From the check of the task's state to the first await of acceptUserMessage.
Run(m, w) ==
    LET t == task[w]
        s == says[m]
        main == ~HasMainLoop(w)
    IN \/ /\ t.state \in Final
          /\ Leave(m)
          /\ UNCHANGED <<task, executing>>
       \/ /\ t.state \notin Final
          /\ s # Text => s.call \in t.details
          /\ executing' = TRUE
          /\ on' = [on EXCEPT ![m] = w]
          /\ \/ /\ s = Text
                /\ Put(w, SetState(t, "working"))
                /\ Goto(m, IF main THEN "stream" ELSE "side")
             \/ /\ s # Text /\ t.call[s.call] = "awaiting_approval"
                /\ \E u \in Confirmed(t, s) : Put(w, u)
                /\ Goto(m, IF main THEN "confirm" ELSE "sideConfirm")
          /\ UNCHANGED loaded
       \/ /\ t.state \notin Final                    \* an unknown callId
          /\ s # Text /\ s.call \notin t.details
          /\ executing' = TRUE
          /\ \/ /\ main /\ Goto(m, "answered")
                /\ on' = [on EXCEPT ![m] = w]
                /\ UNCHANGED loaded
             \/ /\ ~main /\ Leave(m)
          /\ UNCHANGED task

\* execute() finds the task in memory, or starts to reconstruct or to create it.
Execute(m) ==
    /\ pc[m] = "received"
    /\ \/ /\ cache # None
          /\ Run(m, cache)
       \/ /\ cache = None /\ loaded[m] # None
          /\ env.overlap \/ \A n \in Messages : pc[n] # "reconstructing"
          /\ Goto(m, "reconstructing")
          /\ UNCHANGED <<task, executing, on, loaded>>
       \/ /\ cache = None /\ loaded[m] = None
          /\ Goto(m, "creating")
          /\ UNCHANGED <<task, executing, on, loaded>>
    /\ UNCHANGED <<cache, store, says, aborted, saving, cancelSave, Bounds>>

\* A bug: the object starts as a new one does.
BugRestored(state) == NewTask("submitted")

\* reconstruct() gives the new object the state the request carried.
Restored(state) == NewTask(state)

\* reconstruct() ends, and its object becomes the task.
Reconstruct(m) ==
    /\ pc[m] = "reconstructing"
    /\ \E w \in Tasks :
          /\ Free(w)
          /\ Put(w, Restored(loaded[m]))
          /\ cache' = w
          /\ on' = [on EXCEPT ![m] = w]
    /\ Goto(m, "ready")
    /\ UNCHANGED <<executing, store, Request, saving, cancelSave, Bounds>>

\* Writing a snapshot of the task: at once, or in flight until it is stored.
Save(m, state) ==
    IF InMemory THEN store' = state /\ UNCHANGED saving
    ELSE saving' = [saving EXCEPT ![m] = state] /\ UNCHANGED store

\* createTask() ends, and the new task is saved.
Create(m) ==
    /\ pc[m] = "creating"
    /\ \E w \in Tasks :
          /\ Free(w)
          /\ Put(w, NewTask("submitted"))
          /\ cache' = w
          /\ on' = [on EXCEPT ![m] = w]
    /\ Save(m, "submitted")
    /\ Goto(m, IF InMemory THEN "ready" ELSE "savingNew")
    /\ UNCHANGED <<executing, Request, cancelSave, Bounds>>

\* Loading the configuration or the client fails: the request is answered "failed".
HydrateFails(m) ==
    /\ pc[m] \in {"reconstructing", "creating"}
    /\ Leave(m)
    /\ UNCHANGED <<task, cache, executing, store, says, aborted, saving, cancelSave,
                   Bounds>>

\* The object is there: the state check and the choice of the loop come after the
\* awaits, on the object this execution made.
Resume(m) ==
    /\ pc[m] = "ready"
    /\ Run(m, on[m])
    /\ UNCHANGED <<cache, store, says, aborted, saving, cancelSave, Bounds>>

\* A save is stored, or fails, which is only logged.
SaveEnds(m) ==
    /\ pc[m] \in {"savingNew", "saving"}
    /\ store' \in {saving[m], store}
    /\ saving' = [saving EXCEPT ![m] = None]
    /\ \/ /\ pc[m] = "savingNew" /\ Goto(m, "ready")
          /\ UNCHANGED <<on, loaded>>
       \/ /\ pc[m] = "saving" /\ Leave(m)
    /\ UNCHANGED <<task, cache, executing, says, aborted, cancelSave, Bounds>>

-----------------------------------------------------------------------------
(* The main loop.                                                           *)

\* toSDKTask: what is saved.
Snapshot(m, t) == t.state

\* The end of execute()'s try: the state, the finally block, the save.
Finish(m, t) ==
    IF Exits(t) THEN Down
    ELSE /\ Put(on[m], t)
         /\ executing' = FALSE
         /\ Save(m, Snapshot(m, t))
         /\ IF InMemory THEN Leave(m)
            ELSE /\ Goto(m, "saving") /\ UNCHANGED <<on, loaded>>
         /\ UNCHANGED <<cache, says, aborted, cancelSave>>

\* The catch block.  An abort leaves a final state alone; any other error replaces
\* every state but "failed".
Catch(m) ==
    LET w == on[m]
        t == CancelPendingTools([task[w] EXCEPT !.rejected = @ \ {m}])
    IN Finish(m, IF aborted[m]
                 THEN IF t.state \in Final THEN t ELSE SetState(t, "input-required")
                 ELSE SetState(t, "failed"))

\* A step of the main loop of m that leaves its task as t and goes to l.
Step(m, t, l) ==
    /\ IF Exits(t) THEN Down
       ELSE /\ Put(on[m], t)
            /\ Goto(m, l)
            /\ UNCHANGED <<cache, executing, store, on, Request, saving, cancelSave>>

\* The client has gone: the next event, or the end of the stream, throws; so does a
\* failing stream.
StreamThrows(m) ==
    /\ pc[m] = "stream"
    /\ Catch(m)
    /\ UNCHANGED Bounds

\* acceptAgentMessage: a UserCancelled or an Error event cancels the pending tools.
StreamCancels(m) ==
    /\ pc[m] = "stream" /\ ~aborted[m]
    /\ \E state \in {"input-required", task[on[m]].state} :
          Step(m, SetState(CancelPendingTools(task[on[m]]), state), "stream")
    /\ UNCHANGED Bounds

\* The stream ends, with tool requests or without.
StreamEnds(m) ==
    /\ pc[m] = "stream" /\ ~aborted[m]
    /\ \/ Goto(m, "settle")
       \/ Calls \ used # {} /\ Goto(m, "checkpoint")
    /\ UNCHANGED <<task, cache, executing, store, on, Request, saving, cancelSave,
                   Bounds>>

\* The requests become the scheduler's batch.
Schedules(m, t) ==
    /\ \E asks \in (SUBSET (Calls \ used)) \ {{}} :
          /\ used' = used \cup asks
          /\ Step(m, ToolCallsUpdate([t EXCEPT
                        !.call = [c \in Calls |-> IF c \in asks THEN "scheduled"
                                                  ELSE @[c]],
                        !.signal = m]), "schedule")
    /\ UNCHANGED <<cancels, restarts, env>>

\* scheduleToolCalls, its checkpoints written: the task works, and the batch starts
\* or waits for the one that runs.
ScheduleToolCalls(m) ==
    /\ pc[m] = "checkpoint"
    /\ LET t == SetState(task[on[m]], "working")
       IN \/ Batch(t) = {} /\ Schedules(m, t)
          \/ Batch(t) # {} /\ Step(m, t, "queued") /\ UNCHANGED Bounds

Dequeue(m) ==
    /\ pc[m] = "queued"
    /\ \/ /\ Batch(task[on[m]]) = {} /\ ~aborted[m]
          /\ Schedules(m, task[on[m]])
       \/ /\ aborted[m]        \* "Tool call cancelled while in queue."
          /\ Catch(m)
          /\ UNCHANGED Bounds

\* schedule() returns when the batch is reported or waits for the user.
Scheduled(m) ==
    /\ pc[m] = "schedule"
    /\ AtRest(task[on[m]])
    /\ Step(m, task[on[m]], "settle")
    /\ UNCHANGED Bounds

\* _resolveToolCall: the last pending call settles the promise.
ResolveToolCall(t, c) ==
    LET resolve == t.pending = {c}
    IN [t EXCEPT !.pending = @ \ {c},
                 !.waiting = IF resolve THEN {} ELSE @,
                 !.resolved = IF resolve THEN @ \cup t.waiting ELSE @]

\* A handled answer: its details go, but for the editor's, which another answer
\* follows; unless the scheduler's next call still needs the user the task works again.
AnswerHandled(m, t) ==
    LET answered == IF says[m].outcome = "editor" THEN {} ELSE {says[m].call}
        u == [t EXCEPT !.details = @ \ answered, !.skip = FALSE]
    IN IF u.pending # {} /\ u.state # "input-required"
       THEN SetState(u, "working") ELSE u

\* onConfirm threw, the editor or the file having failed: the task no longer waits for
\* the call, which the scheduler still has waiting for the user; its details stay.
AnswerThrows(m, t) == ResolveToolCall([t EXCEPT !.skip = FALSE], says[m].call)

\* How _handleToolConfirmationPart may end.
AnswerEnds(m, t) ==
    LET waits == t.call[says[m].call] = "awaiting_approval"
    IN (IF waits /\ says[m].outcome = "edit" THEN {} ELSE {AnswerHandled(m, t)})
       \cup (IF waits /\ says[m].outcome \in {"edit", "editor"}
             THEN {AnswerThrows(m, t)} ELSE {})

Answered(m) ==
    LET t == task[on[m]]
    IN /\ pc[m] \in {"confirm", "sideConfirm"}
       /\ t.call[says[m].call] = "none" \/ AtRest(t)
       /\ \E u \in AnswerEnds(m, t) :
             \/ /\ pc[m] = "confirm"
                /\ Step(m, u, "answered")
             \/ /\ pc[m] = "sideConfirm"
                /\ Put(on[m], u)
                /\ Leave(m)
                /\ UNCHANGED <<cache, executing, store, says, aborted, saving,
                               cancelSave>>
       /\ UNCHANGED Bounds

\* The message had nothing for the model: the stream is empty, and the signal is looked
\* at before the pending tools are.
NothingStreamed(m) ==
    /\ pc[m] = "answered"
    /\ \/ aborted[m] /\ Catch(m)
       \/ ~aborted[m] /\ Step(m, task[on[m]], "settle")
    /\ UNCHANGED Bounds

\* The secondary loop has read the model's answer, and dropped it.
SideEnds(m) ==
    /\ pc[m] = "side"
    /\ Leave(m)
    /\ UNCHANGED <<task, cache, executing, store, says, aborted, saving, cancelSave,
                   Bounds>>

\* The turn goes on with the tools' results, or ends.
Turn(m, t) ==
    LET sendsResults == \E r \in t.done : r[2] # "cancelled"
        u == [t EXCEPT !.done = {}]
    IN \/ aborted[m] /\ Catch(m)
       \/ ~aborted[m] /\ sendsResults /\ Step(m, SetState(u, "working"), "stream")
       \/ ~aborted[m] /\ ~sendsResults /\ Finish(m, SetState(u, "input-required"))

\* waitForPendingTools: nothing to wait for, or the promise of the moment.
Settle(m) ==
    LET t == task[on[m]]
    IN /\ pc[m] = "settle"
       /\ \/ t.pending = {} /\ Turn(m, t)
          \/ t.pending # {} /\ Step(m, [t EXCEPT !.waiting = @ \cup {m}], "wait")
       /\ UNCHANGED Bounds

WakeUp(m) ==
    LET t == task[on[m]]
    IN /\ pc[m] = "wait"
       /\ \/ m \in t.resolved /\ Turn(m, [t EXCEPT !.resolved = @ \ {m}])
          \/ m \in t.rejected /\ Catch(m)
       /\ UNCHANGED Bounds

-----------------------------------------------------------------------------
(* The scheduler of a Task object, cancellation, disconnection, restart.    *)

Quietly == UNCHANGED <<cache, executing, store, pc, on, Request, saving,
                       cancelSave, Bounds>>

SignalAborted(t) == t.signal # None /\ aborted[t.signal]

\* The next call of the batch asks the user, or runs; after an abort all end.
NextCall(w) ==
    LET t == task[w]
    IN /\ InStatus(t, "scheduled") # {}
       /\ Open(t) = InStatus(t, "scheduled")
       /\ \/ SignalAborted(t) /\ Put(w, CancelAll(t))
          \/ /\ ~SignalAborted(t)
             /\ \E c \in InStatus(t, "scheduled") :
                   Put(w, ToolCallsUpdate([t EXCEPT !.call[c] =
                            IF c \in Asking THEN "awaiting_approval"
                            ELSE "executing"]))
       /\ Quietly

\* A tool ends, with a result or an error; after an abort the batch is cancelled.
ToolEnds(w) ==
    LET t == task[w]
    IN /\ \E c \in InStatus(t, "executing") :
             Put(w, IF SignalAborted(t) THEN CancelAll(t)
                    ELSE NotifyCompletion([t EXCEPT !.call[c] = "success"]))
       /\ Quietly

\* cancelTask: tells the pending tools and the state, and saves it.  Neither the
\* scheduler nor the execution's abort signal hears of it.
CancelTask ==
    /\ cache # None /\ cancelSave = None
    /\ cancels < MaxCancels
    /\ task[cache].state \notin Final
    /\ cancels' = cancels + 1
    /\ LET t == SetState(CancelPendingTools(task[cache]), "canceled")
       IN IF Exits(t) THEN Down
          ELSE /\ Put(cache, t)
               /\ \/ InMemory /\ store' = "canceled" /\ UNCHANGED cancelSave
                  \/ ~InMemory /\ cancelSave' = "canceled" /\ UNCHANGED store
               /\ UNCHANGED <<cache, executing, pc, on, Request, saving>>
    /\ UNCHANGED <<used, restarts, env>>

CancelSaved ==
    /\ cancelSave # None
    /\ store' \in {cancelSave, store}
    /\ cancelSave' = None
    /\ UNCHANGED <<task, cache, executing, pc, on, Request, saving, Bounds>>

\* The client closes its connection, even after execute() has returned if its abort
\* signal is the one a batch of tools was given.
Disconnect(m) ==
    /\ pc[m] # "new" /\ ~aborted[m]
    /\ pc[m] # "done" \/ \E w \in Tasks : task[w].signal = m
    /\ aborted' = [aborted EXCEPT ![m] = TRUE]
    /\ UNCHANGED <<task, cache, executing, store, pc, on, loaded, says, saving,
                   cancelSave, Bounds>>

\* The process ends and starts again.
Restart ==
    /\ restarts < MaxRestarts
    /\ restarts' = restarts + 1
    /\ Down
    /\ UNCHANGED <<used, cancels, env>>

\* What follows from a promise that settled, in the turn of the event loop it settled in.
Settles(m) ==
    \/ Dequeue(m) \/ Scheduled(m) \/ Answered(m) \/ NothingStreamed(m)
    \/ Settle(m) \/ WakeUp(m)

\* What a model's stream or a checkpoint's file brings.
Streams(m) ==
    \/ StreamThrows(m) \/ StreamCancels(m) \/ StreamEnds(m)
    \/ ScheduleToolCalls(m) \/ SideEnds(m)

\* What comes from outside: requests, loads, saves, streams and tools.
Event ==
    \/ \E m \in Messages :
          \/ Arrive(m) \/ Execute(m) \/ Reconstruct(m) \/ Create(m)
          \/ HydrateFails(m) \/ Resume(m) \/ SaveEnds(m)
          \/ Streams(m) \/ Disconnect(m)
    \/ \E w \in Tasks : NextCall(w) \/ ToolEnds(w)
    \/ CancelTask \/ CancelSaved \/ Restart

\* The batch of the call it answered is reported: its onConfirm has returned.
AnswerDue(m) ==
    /\ pc[m] \in {"confirm", "sideConfirm"}
    /\ task[on[m]].call[says[m].call] = "none"

\* An answer whose onConfirm has returned is handled before anything else comes from
\* outside: only microtasks lie between (coreToolScheduler.ts 1596-1664, 1292).
Next ==
    \/ \E m \in Messages : Settles(m)
    \/ (\A m \in Messages : ~AnswerDue(m)) /\ Event

Spec == Init /\ [][Next]_vars

\* What an execution does by itself, one of them at each pc.
Progress(m) ==
    \/ Execute(m) \/ Reconstruct(m) \/ Create(m) \/ Resume(m) \/ SaveEnds(m)
    \/ StreamEnds(m) \/ StreamThrows(m) \/ ScheduleToolCalls(m) \/ Dequeue(m)
    \/ Scheduled(m) \/ Answered(m) \/ NothingStreamed(m) \/ SideEnds(m)
    \/ Settle(m) \/ WakeUp(m)

\* Promises settle, streams end, tools end and saves end; nobody has to send, to
\* answer, to cancel or to leave.
Fairness ==
    /\ \A m \in Messages : WF_vars(Progress(m))
    /\ \A w \in Tasks : WF_vars(NextCall(w) \/ ToolEnds(w))

FairSpec == Spec /\ Fairness

-----------------------------------------------------------------------------
(* Properties.                                                              *)

Main(m) == pc[m] \in MainPcs

\* At most one execution runs the task's main loop, whichever object it works on
\* (executor.ts 445-465: the check and the add follow all awaits).
OneMainLoop ==
    /\ \A m, n \in Messages : Main(m) /\ Main(n) => m = n
    /\ executing <=> \E m \in Messages : Main(m)

\* The main loop never waits on a promise nobody will settle: as long as it is not
\* released, it waits on the current promise and every call it waits for is still
\* in the scheduler's hands (task.ts 196-251).
NoLostWakeup ==
    /\ \A m \in Messages : pc[m] = "wait" =>
          LET t == task[on[m]]
          IN m \in t.resolved \cup t.rejected \/ (m \in t.waiting /\ t.pending # {})
    /\ \A w \in Tasks : task[w].pending \subseteq Open(task[w])

\* The task ended as f, that is what is stored, and no save of another state is under
\* way; what still runs carries that state.
Dead(f) ==
    /\ store = f /\ cancelSave \in {None, f}
    /\ cache # None => task[cache].state = f
    /\ \A w \in Tasks : task[w].state # f \/ Open(task[w]) = {}
    /\ \A m \in Messages :
          \/ pc[m] \in {"new", "done"}
          \/ pc[m] \in {"received", "reconstructing"} /\ loaded[m] = f
          \/ pc[m] = "ready" /\ task[on[m]].state = f

\* A task kept by the process alone went with it.
Lost == InMemory /\ store = None /\ cache = None

\* A task that was canceled, or failed, and of which nothing runs stays so, in memory
\* and in the store, whatever messages and cancellations follow; with the bucket also
\* across restarts, where only the stored state can tell (executor.ts 107-138, 437).
DeadStays == [][\A f \in Final : Dead(f) => Dead(f)' \/ Lost']_vars

\* Some prompt waits for the user, of a task that still takes answers.  (A batch whose
\* answer failed stays with the scheduler when its loop has gone on; the next loop's
\* batch is queued behind its prompt, even if the task is then canceled.)
UserAsked ==
    \E w \in Tasks :
       /\ InStatus(task[w], "awaiting_approval") # {}
       /\ \/ task[w].state \notin Final
          \/ \E m \in Messages : pc[m] = "queued" /\ on[m] = w

\* From wherever they are, the messages' executions all end, unless a prompt waits for
\* the user (executor.ts 505-512, task.ts 239-251: a cancellation must release the loop
\* that waits).
EveryMessageEnds ==
    (\E m \in Messages : pc[m] \notin {"new", "done"})
        ~> ((\A m \in Messages : pc[m] \in {"new", "done"}) \/ UserAsked)
=============================================================================
