---------------------------- MODULE ToolScheduler ----------------------------
(***************************************************************************)
(* CoreToolScheduler (packages/core/src/core/coreToolScheduler.ts): the    *)
(* queue of tool-call batches, the single active call, its confirmation,   *)
(* execution, cancellation and the report of a finished batch.             *)
(*                                                                         *)
(* JavaScript runs one synchronous step at a time.  jobs holds the steps   *)
(* that run before the event loop takes another event (its head is the     *)
(* one running); frames holds the async functions suspended at an await.   *)
(* An action either runs the head of jobs, one action per method of the    *)
(* class, or, when jobs is empty, delivers an event: a client call, a      *)
(* user response, an abort, or the settling of what a frame awaits.        *)
(*                                                                         *)
(* A chain of awaits that began in _schedule(r) carries root = r: when it  *)
(* unwinds, the finally clause clears isScheduling and r's promise         *)
(* settles.                                                                *)
(***************************************************************************)
EXTENDS Naturals, Sequences, FiniteSets

CONSTANTS
    Requests,     \* requests given to schedule(); each has its own AbortSignal
    Calls,        \* tool calls
    CallsOf,      \* the calls of each request, in order
    None,         \* no call, no request
    Answers,      \* what the confirmation check of a call can lead to
    Outcomes,     \* what a user can answer to a prompt
    Faults,       \* which of the things that can fail may fail
    CancelModes,  \* how clients cancel: "cancelAll" (CLI), "abort" (A2A server)
    Overlap,      \* TRUE: schedule() may be called before a batch is reported
    Stale,        \* TRUE: a prompt may be answered again after an answer
    Hooks,        \* TRUE: the notification hook runs before a prompt
    MaxResponses  \* bound on the answers per call

AllAnswers == {"none", "auto", "confirm", "pin", "throw"}
AllOutcomes == {"proceed", "inline", "editor", "cancel"}
AllFaults == {"build", "tool", "onConfirm", "editor", "rebuild", "report"}

ASSUME SchedulerAssumption ==
    /\ CallsOf \in [Requests -> Seq(Calls)]
    /\ \A r, q \in Requests :      \* every call has an id of its own
          \A i \in DOMAIN CallsOf[r], j \in DOMAIN CallsOf[q] :
              CallsOf[r][i] = CallsOf[q][j] => r = q /\ i = j
    /\ None \notin Calls \cup Requests
    /\ Answers \subseteq AllAnswers
    /\ Outcomes \subseteq AllOutcomes
    /\ Faults \subseteq AllFaults
    /\ CancelModes \subseteq {"cancelAll", "abort"}
    /\ {Overlap, Stale, Hooks} \subseteq BOOLEAN
    /\ MaxResponses \in Nat

VARIABLES
    active,        \* toolCalls: the active call, or None
    status,        \* the status of each call, "new" before it is scheduled
    queue,         \* toolCallQueue
    completed,     \* completedToolCallsForBatch
    requestQueue,  \* requests waiting for the scheduler
    isFinalizingToolCalls, isScheduling, isCancelling,
    aborted,       \* requests whose signal is aborted
    prompt,        \* confirmationDetails: the signal and PIN need of a prompt
    args,          \* the version of each call's arguments
    promise,       \* the promise schedule() returned for each request
    jobs, frames,
    trail,         \* audit events recorded for each call
    answered,      \* history: how often each prompt was answered
    granted,       \* history: argument versions whose execution was allowed
    ran,           \* history: argument versions each execution started with
    reports        \* history: how often each call was reported (at most 2)

vars == <<active, status, queue, completed, requestQueue,
          isFinalizingToolCalls, isScheduling, isCancelling, aborted, prompt,
          args, promise, jobs, frames, trail, answered, granted, ran, reports>>

Terminal == {"success", "error", "cancelled"}
Statuses == {"new", "validating", "scheduled", "awaiting_approval",
             "executing"} \cup Terminal
Events   == {"requested", "awaiting_approval", "approved", "denied",
             "execution_started", "execution_finished", "execution_failed"}
Promises == {"unsent", "pending", "resolved", "rejected"}
MaxArgs  == 1       \* bound on argument versions
MaxTwins == 1       \* bound on frames with the same data, less one

Job == [fn : {"schedule", "process", "check", "attempt", "cancelAll",
              "unwind"},
        sig : Requests, root : Requests \cup {None}]

\* A suspended function: where it awaits, for which call, with which signal,
\* for which outcome and which arguments the user saw.  n tells apart
\* functions suspended at the same point with the same data.
Frame == [at : {"validate", "notify", "confirm", "editor", "inline", "exec",
                "report"},
          call : Calls \cup {None}, sig : Requests,
          root : Requests \cup {None}, out : Outcomes \cup {None},
          ver : 0..MaxArgs, n : 0..MaxTwins]

Elements(s) == {s[i] : i \in DOMAIN s}

-----------------------------------------------------------------------------
(* Building blocks of the methods below. *)

Idle == jobs = <<>>

Run(fn, sig, root) == [fn |-> fn, sig |-> sig, root |-> root]

\* The running step goes on as another method, or an event starts one.
Continue(job) == jobs' = <<job>> \o Tail(jobs)
Start(job)    == jobs' = <<job>>

\* Fault: no finally clause, so isScheduling stays set.
BugUnwind(root, result) ==
    /\ UNCHANGED isScheduling
    /\ promise' = IF root = None THEN promise
                  ELSE [promise EXCEPT ![root] = result]

\* The chain unwinds to its root: the finally clause of _schedule(root).
Unwind(root, result) ==
    /\ isScheduling' = IF root = None THEN isScheduling ELSE FALSE
    /\ promise' = IF root = None THEN promise
                  ELSE [promise EXCEPT ![root] = result]

End(root) == jobs' = Tail(jobs) /\ Unwind(root, "resolved")

\* The event's handler returns without starting anything.
Return(root) == jobs' = <<>> /\ Unwind(root, "resolved")

Suspended(at, c, sig, root, out, ver, n) ==
    [at |-> at, call |-> c, sig |-> sig, root |-> root, out |-> out,
     ver |-> ver, n |-> n]

\* Suspend the running step: one more frame beside those already there.
Suspend(rest, at, c, sig, root, out, ver) ==
    \E n \in 0..MaxTwins :
        LET f == Suspended(at, c, sig, root, out, ver, n)
        IN  /\ f \notin rest
            /\ \A m \in 0..(n-1) :
                  Suspended(at, c, sig, root, out, ver, m) \in rest
            /\ frames' = rest \cup {f}

\* Fault: a final status can be overwritten.
BugSettable(c) == c # None /\ active = c

\* setStatusInternal: only the active call, and never out of a final status.
Settable(c) == c # None /\ active = c /\ status[c] \notin Terminal
WithStatus(c, new) ==
    IF Settable(c) THEN [status EXCEPT ![c] = new] ELSE status

\* Fault: nothing is recorded for a call whose status is final.
BugAudit(c, event) ==
    trail' = IF active = c /\ status'[c] \notin Terminal
             THEN [trail EXCEPT ![c] = @ \cup {event}] ELSE trail

\* recordAuditEvent for findToolCall(c): nothing unless c is the active call.
Audit(c, event) ==
    trail' = IF active = c THEN [trail EXCEPT ![c] = @ \cup {event}] ELSE trail

\* _cancelAllQueuedCalls: the queue moves to the batch; calls that failed to
\* build keep their error.
CancelQueued(st) ==
    [c \in Calls |-> IF c \in Elements(queue) /\ st[c] # "error"
                     THEN "cancelled" ELSE st[c]]

\* Two is enough to tell that a call was reported again.
CountReports(batch) ==
    [c \in Calls |->
        LET n == reports[c] + Cardinality({i \in DOMAIN batch : batch[i] = c})
        IN  IF n > 2 THEN 2 ELSE n]

isRunning ==
    \/ isFinalizingToolCalls
    \/ active # None /\ status[active] \in {"executing", "awaiting_approval"}

Settled(r) == \A c \in Elements(CallsOf[r]) : reports[c] > 0

-----------------------------------------------------------------------------

Init ==
    /\ active = None
    /\ status = [c \in Calls |-> "new"]
    /\ queue = <<>> /\ completed = <<>> /\ requestQueue = <<>>
    /\ isFinalizingToolCalls = FALSE
    /\ isScheduling = FALSE
    /\ isCancelling = FALSE
    /\ aborted = {}
    /\ prompt = [c \in Calls |-> [sig |-> None, pin |-> FALSE]]
    /\ args = [c \in Calls |-> 0]
    /\ promise = [r \in Requests |-> "unsent"]
    /\ jobs = <<>> /\ frames = {}
    /\ trail = [c \in Calls |-> {}]
    /\ answered = [c \in Calls |-> 0]
    /\ granted = [c \in Calls |-> {}]
    /\ ran = [c \in Calls |-> <<>>]
    /\ reports = [c \in Calls |-> 0]

(***************************************************************************)
(* Client calls.                                                           *)
(***************************************************************************)

\* A client that does not overlap works on one request at a time.
ClientFree(r) ==
    \/ Overlap
    \/ \A q \in Requests \ {r} :
          promise[q] \in {"unsent", "rejected"} \/ Settled(q)

\* schedule(r): queue behind a running batch, else start _schedule at once.
Schedule(r) ==
    /\ Idle
    /\ promise[r] = "unsent"
    /\ ClientFree(r)
    /\ promise' = [promise EXCEPT ![r] = "pending"]
    /\ IF isRunning \/ isScheduling
       THEN requestQueue' = Append(requestQueue, r) /\ UNCHANGED jobs
       ELSE Start(Run("schedule", r, r)) /\ UNCHANGED requestQueue
    /\ UNCHANGED <<active, status, queue, completed, isFinalizingToolCalls,
                   isScheduling, isCancelling, aborted, prompt, args, frames,
                   trail, answered, granted, ran, reports>>

Without(s, i) == SubSeq(s, 1, i - 1) \o SubSeq(s, i + 1, Len(s))

\* Fault: the listener rejects the request and leaves it in the queue.
BugAbortQueued(r) ==
    /\ r \in Elements(requestQueue)
    /\ promise' = [promise EXCEPT ![r] = "rejected"]
    /\ UNCHANGED requestQueue

\* The abort listener of a queued request takes it out and rejects it.
AbortQueued(r) ==
    \E i \in DOMAIN requestQueue :
        /\ requestQueue[i] = r
        /\ requestQueue' = Without(requestQueue, i)
        /\ promise' = [promise EXCEPT ![r] = "rejected"]

AbortSignal(r) ==
    /\ aborted' = aborted \cup {r}
    /\ \/ AbortQueued(r)
       \/ r \notin Elements(requestQueue) /\ UNCHANGED <<requestQueue, promise>>

\* A client may abort a request at any time: before it schedules it (the CLI still
\* streams, the A2A executor prepares the calls), while it runs, and while
\* its report is awaited.  A signal is aborted once.
CanCancel(r) == Idle /\ r \notin aborted

\* The A2A executor aborts the signal when its socket ends.
Abort(r) ==
    /\ "abort" \in CancelModes
    /\ CanCancel(r)
    /\ AbortSignal(r)
    /\ UNCHANGED <<active, status, queue, completed, isFinalizingToolCalls,
                   isScheduling, isCancelling, prompt, args, jobs, frames,
                   trail, answered, granted, ran, reports>>

\* The CLI aborts the signal of the request it works on and calls
\* cancelAll(signal), in one step.  During the report of a batch this can report
\* the batch a second time.
UserCancel(r) ==
    /\ "cancelAll" \in CancelModes
    /\ CanCancel(r)
    /\ ClientFree(r)
    /\ AbortSignal(r)
    /\ Start(Run("cancelAll", r, None))
    /\ UNCHANGED <<active, status, queue, completed, isFinalizingToolCalls,
                   isScheduling, isCancelling, prompt, args, frames, trail,
                   answered, granted, ran, reports>>

(***************************************************************************)
(* The methods of the scheduler: each runs when it is the head of jobs.    *)
(***************************************************************************)

Running(fn) == jobs # <<>> /\ Head(jobs).fn = fn
Me == Head(jobs)

\* _schedule while a call is active: the promise rejects.
ScheduleThrows ==
    /\ Running("schedule")
    /\ isRunning
    /\ isCancelling' = FALSE
    /\ jobs' = Tail(jobs)
    /\ Unwind(Me.root, "rejected")
    /\ UNCHANGED <<active, status, queue, completed, requestQueue,
                   isFinalizingToolCalls, aborted, prompt, args, frames, trail,
                   answered, granted, ran, reports>>

\* _schedule: a new batch starts.  Unknown tools and invalid parameters make
\* calls that are errors from the start.
ScheduleBatch ==
    /\ Running("schedule")
    /\ ~isRunning
    /\ isScheduling' = TRUE
    /\ isCancelling' = FALSE
    /\ completed' = <<>>
    /\ LET mine == Elements(CallsOf[Me.sig])
       IN  \E bad \in SUBSET mine :
               /\ bad = {} \/ "build" \in Faults
               /\ status' = [c \in Calls |->
                                IF c \notin mine THEN status[c]
                                ELSE IF c \in bad THEN "error"
                                ELSE "validating"]
    /\ queue' = queue \o CallsOf[Me.sig]
    /\ Continue(Run("process", Me.sig, Me.root))
    /\ UNCHANGED <<active, requestQueue, isFinalizingToolCalls, aborted, prompt,
                   args, promise, frames, trail, answered, granted, ran,
                   reports>>

\* _processNextInQueue with a call still active, or with nothing to do.
ProcessNothing ==
    /\ Running("process")
    /\ active # None \/ queue = <<>>
    /\ End(Me.root)
    /\ UNCHANGED <<active, status, queue, completed, requestQueue,
                   isFinalizingToolCalls, isCancelling, aborted, prompt, args,
                   frames, trail, answered, granted, ran, reports>>

\* Fault: the cancelled calls are not taken off the queue.
BugProcessAborted ==
    /\ Running("process")
    /\ active = None /\ queue # <<>>
    /\ Me.sig \in aborted
    /\ completed' = completed \o queue
    /\ status' = CancelQueued(status)
    /\ Continue(Run("check", Me.sig, Me.root))
    /\ UNCHANGED <<active, queue, requestQueue, isFinalizingToolCalls,
                   isScheduling, isCancelling, aborted, prompt, args, promise,
                   frames, trail, answered, granted, ran, reports>>

\* _processNextInQueue after an abort between two calls.
ProcessAborted ==
    /\ Running("process")
    /\ active = None /\ queue # <<>>
    /\ Me.sig \in aborted
    /\ completed' = completed \o queue
    /\ status' = CancelQueued(status)
    /\ queue' = <<>>
    /\ Continue(Run("check", Me.sig, Me.root))
    /\ UNCHANGED <<active, requestQueue, isFinalizingToolCalls, isScheduling,
                   isCancelling, aborted, prompt, args, promise, frames, trail,
                   answered, granted, ran, reports>>

\* _processNextInQueue: the next call becomes the single active one.  One that
\* failed to build is complete already; the others are asked whether they need
\* a confirmation.
ProcessNext ==
    /\ Running("process")
    /\ active = None /\ queue # <<>>
    /\ Me.sig \notin aborted
    /\ LET c == Head(queue)
       IN  /\ active' = c
           /\ IF status[c] = "error"
              THEN /\ Continue(Run("check", Me.sig, Me.root))
                   /\ UNCHANGED frames
              ELSE /\ Suspend(frames, "validate", c, Me.sig, Me.root, None, 0)
                   /\ jobs' = Tail(jobs)
    /\ queue' = Tail(queue)
    /\ UNCHANGED <<status, completed, requestQueue, isFinalizingToolCalls,
                   isScheduling, isCancelling, aborted, prompt, args, promise,
                   trail, answered, granted, ran, reports>>

\* Fault: a call that is not final starts, whatever it waits for.
BugCanStart == active # None /\ status[active] \notin Terminal

CanStart == active # None /\ status[active] = "scheduled"

\* attemptExecutionOfScheduledCalls: the active call starts if it is scheduled.
AttemptStart ==
    /\ Running("attempt")
    /\ CanStart
    /\ status' = [status EXCEPT ![active] = "executing"]
    /\ Audit(active, "execution_started")
    /\ ran' = [ran EXCEPT ![active] = Append(@, args[active])]
    /\ Suspend(frames, "exec", active, Me.sig, Me.root, None, args[active])
    /\ jobs' = Tail(jobs)
    /\ UNCHANGED <<active, queue, completed, requestQueue,
                   isFinalizingToolCalls, isScheduling, isCancelling, aborted,
                   prompt, args, promise, answered, granted, reports>>

AttemptNothing ==
    /\ Running("attempt")
    /\ ~CanStart
    /\ End(Me.root)
    /\ UNCHANGED <<active, status, queue, completed, requestQueue,
                   isFinalizingToolCalls, isCancelling, aborted, prompt, args,
                   frames, trail, answered, granted, ran, reports>>

\* cancelAll while a cancellation is under way.
CancelAllAgain ==
    /\ Running("cancelAll")
    /\ isCancelling
    /\ jobs' = Tail(jobs)
    /\ UNCHANGED <<active, status, queue, completed, requestQueue,
                   isFinalizingToolCalls, isScheduling, isCancelling, aborted,
                   prompt, args, promise, frames, trail, answered, granted, ran,
                   reports>>

\* cancelAll: the active call and the queued ones are cancelled and the batch
\* is finalised.
CancelAll ==
    /\ Running("cancelAll")
    /\ ~isCancelling
    /\ isCancelling' = TRUE
    /\ status' = CancelQueued(WithStatus(active, "cancelled"))
    /\ completed' = completed \o queue
    /\ queue' = <<>>
    /\ Continue(Run("check", Me.sig, None))
    /\ UNCHANGED <<active, requestQueue, isFinalizingToolCalls, isScheduling,
                   aborted, prompt, args, promise, frames, trail, answered,
                   granted, ran, reports>>

(* checkAndNotifyCompletion, split by what it finds. *)

Busy == active # None /\ status[active] \notin Terminal

\* Faults: the finished call is put in front; an empty slot is pushed too.
BugBatchFront == IF active = None THEN completed ELSE <<active>> \o completed
BugBatchEmpty == Append(completed, active)

Batch == IF active = None THEN completed ELSE Append(completed, active)
WholeBatch == IF Me.sig \in aborted THEN Batch \o queue ELSE Batch

\* Fault: a failed call ends the batch.
BugBatchOver ==
    \/ queue = <<>> \/ Me.sig \in aborted
    \/ active # None /\ status[active] = "error"

BatchOver == queue = <<>> \/ Me.sig \in aborted

\* The active call is not finished: the scheduler stays busy.
CheckBusy ==
    /\ Running("check")
    /\ Busy
    /\ End(Me.root)
    /\ UNCHANGED <<active, status, queue, completed, requestQueue,
                   isFinalizingToolCalls, isCancelling, aborted, prompt, args,
                   frames, trail, answered, granted, ran, reports>>

\* The finished call joins the batch and the next one is processed.
CheckNext ==
    /\ Running("check")
    /\ ~Busy /\ ~BatchOver
    /\ completed' = Batch
    /\ active' = None
    /\ Continue(Run("process", Me.sig, Me.root))
    /\ UNCHANGED <<status, queue, requestQueue, isFinalizingToolCalls,
                   isScheduling, isCancelling, aborted, prompt, args, promise,
                   frames, trail, answered, granted, ran, reports>>

\* Nothing to report and nothing cancelled.
CheckNothing ==
    /\ Running("check")
    /\ ~Busy /\ BatchOver
    /\ WholeBatch = <<>> /\ Me.sig \notin aborted
    /\ End(Me.root)
    /\ UNCHANGED <<active, status, queue, completed, requestQueue,
                   isFinalizingToolCalls, isCancelling, aborted, prompt, args,
                   frames, trail, answered, granted, ran, reports>>

\* The batch is over: it is handed to onAllToolCallsComplete.
CheckReport ==
    /\ Running("check")
    /\ ~Busy /\ BatchOver
    /\ WholeBatch # <<>> \/ Me.sig \in aborted
    /\ completed' = WholeBatch
    /\ status' = IF Me.sig \in aborted THEN CancelQueued(status) ELSE status
    /\ queue' = <<>>
    /\ active' = None
    /\ isFinalizingToolCalls' = TRUE
    /\ reports' = CountReports(WholeBatch)
    /\ Suspend(frames, "report", None, Me.sig, Me.root, None, 0)
    /\ jobs' = Tail(jobs)
    /\ UNCHANGED <<requestQueue, isScheduling, isCancelling, aborted, prompt,
                   args, promise, trail, answered, granted, ran>>

\* The chain whose report started the next request unwinds after it.
UnwindJob ==
    /\ Running("unwind")
    /\ End(Me.root)
    /\ UNCHANGED <<active, status, queue, completed, requestQueue,
                   isFinalizingToolCalls, isCancelling, aborted, prompt, args,
                   frames, trail, answered, granted, ran, reports>>

(***************************************************************************)
(* Awaited results: f is the suspended function that goes on.              *)
(***************************************************************************)

\* The confirmation check says that f.call may run without asking.
ValidateFree(f) ==
    /\ Idle
    /\ f.at = "validate"
    /\ Answers \cap {"none", "auto"} # {}
    /\ frames' = frames \ {f}
    /\ status' = WithStatus(f.call, "scheduled")
    /\ granted' = IF Settable(f.call)
                  THEN [granted EXCEPT ![f.call] = @ \cup {args[f.call]}]
                  ELSE granted
    /\ Audit(f.call, "requested")
    /\ Start(Run("attempt", f.sig, f.root))
    /\ UNCHANGED <<active, queue, completed, requestQueue,
                   isFinalizingToolCalls, isScheduling, isCancelling, aborted,
                   prompt, args, promise, answered, ran, reports>>

\* The check throws (a policy denial, an abort), or a prompt is needed and the
\* session is not interactive: "throw" stands for that answer too.
ValidateThrows(f) ==
    /\ Idle
    /\ f.at = "validate"
    /\ \/ "throw" \in Answers
       \/ f.sig \in aborted
    /\ frames' = frames \ {f}
    /\ status' = WithStatus(f.call,
                            IF f.sig \in aborted THEN "cancelled" ELSE "error")
    /\ Start(Run("check", f.sig, f.root))
    /\ UNCHANGED <<active, queue, completed, requestQueue,
                   isFinalizingToolCalls, isScheduling, isCancelling, aborted,
                   prompt, args, promise, trail, answered, granted, ran,
                   reports>>

\* The prompt of call c is shown: its onConfirm closes over the signal.
ShowPrompt(f, pin) ==
    /\ prompt' = [prompt EXCEPT ![f.call] = [sig |-> f.sig, pin |-> pin]]
    /\ status' = WithStatus(f.call, "awaiting_approval")
    /\ Audit(f.call, "awaiting_approval")
    /\ Start(Run("attempt", f.sig, f.root))

\* A confirmation is needed, with or without a PIN.
ValidatePrompt(f, pin) ==
    /\ Idle
    /\ f.at = "validate"
    /\ ~Hooks
    /\ (IF pin THEN "pin" ELSE "confirm") \in Answers
    /\ frames' = frames \ {f}
    /\ ShowPrompt(f, pin)
    /\ UNCHANGED <<active, queue, completed, requestQueue,
                   isFinalizingToolCalls, isScheduling, isCancelling, aborted,
                   args, promise, answered, granted, ran, reports>>

\* The notification hook is fired before the prompt is shown.  The PIN need
\* travels in ver.
ValidateHook(f, pin) ==
    /\ Idle
    /\ f.at = "validate"
    /\ Hooks
    /\ (IF pin THEN "pin" ELSE "confirm") \in Answers
    /\ Suspend(frames \ {f}, "notify", f.call, f.sig, f.root, None,
               IF pin THEN 1 ELSE 0)
    /\ UNCHANGED <<active, status, queue, completed, requestQueue,
                   isFinalizingToolCalls, isScheduling, isCancelling, aborted,
                   prompt, args, promise, jobs, trail, answered, granted, ran,
                   reports>>

HookDone(f) ==
    /\ Idle
    /\ f.at = "notify"
    /\ frames' = frames \ {f}
    /\ ShowPrompt(f, f.ver = 1)
    /\ UNCHANGED <<active, queue, completed, requestQueue,
                   isFinalizingToolCalls, isScheduling, isCancelling, aborted,
                   args, promise, answered, granted, ran, reports>>

Prompted(c) == prompt[c].sig # None

\* Fault: the status of the call is not looked at.
BugWaiting(c) == active = c

Waiting(c) == active = c /\ status[c] = "awaiting_approval"
Answering(c) ==
    \E f \in frames : f.call = c /\ f.at \in {"confirm", "editor", "inline"}

\* The user interface, the IDE or an approval-mode change answers a prompt;
\* with Stale, also while or after an earlier answer is handled.  The last
\* answer that the bound allows does not ask for another one.
CanAnswer(c, o) ==
    /\ Idle
    /\ Prompted(c)
    /\ answered[c] + (IF o = "editor" THEN 1 ELSE 0) < MaxResponses
    /\ Stale \/ (Waiting(c) /\ ~Answering(c))

\* handleConfirmationResponse for a call that waits: onConfirm is awaited.
Respond(c, o) ==
    /\ CanAnswer(c, o)
    /\ Waiting(c)
    /\ answered' = [answered EXCEPT ![c] = @ + 1]
    /\ Suspend(frames, "confirm", c, prompt[c].sig, None, o, args[c])
    /\ UNCHANGED <<active, status, queue, completed, requestQueue,
                   isFinalizingToolCalls, isScheduling, isCancelling, aborted,
                   prompt, args, promise, jobs, trail, granted, ran, reports>>

\* The same with a missing or wrong PIN: the call fails.
RespondBadPin(c, o) ==
    /\ CanAnswer(c, o)
    /\ Waiting(c)
    /\ prompt[c].pin /\ o # "cancel"
    /\ answered' = [answered EXCEPT ![c] = @ + 1]
    /\ status' = WithStatus(c, "error")
    /\ Start(Run("check", prompt[c].sig, None))
    /\ UNCHANGED <<active, queue, completed, requestQueue,
                   isFinalizingToolCalls, isScheduling, isCancelling, aborted,
                   prompt, args, promise, frames, trail, granted, ran, reports>>

\* A late answer, when the call no longer waits: neither the PIN nor onConfirm
\* is consulted.  An editor answer throws and is dropped.
RespondLate(c, o) ==
    /\ CanAnswer(c, o)
    /\ ~Waiting(c)
    /\ answered' = [answered EXCEPT ![c] = @ + 1]
    /\ \/ /\ o = "cancel" \/ prompt[c].sig \in aborted
          /\ Start(Run("cancelAll", prompt[c].sig, None))
          /\ UNCHANGED status
       \/ /\ o = "editor" /\ prompt[c].sig \notin aborted
          /\ UNCHANGED <<status, jobs>>
       \/ /\ o \notin {"cancel", "editor"} /\ prompt[c].sig \notin aborted
          /\ status' = WithStatus(c, "scheduled")
          /\ Start(Run("attempt", prompt[c].sig, None))
    /\ UNCHANGED <<active, queue, completed, requestQueue,
                   isFinalizingToolCalls, isScheduling, isCancelling, aborted,
                   prompt, args, promise, frames, trail, granted, ran, reports>>

\* onConfirm throws.
ConfirmThrows(f) ==
    /\ Idle
    /\ f.at = "confirm"
    /\ "onConfirm" \in Faults
    /\ frames' = frames \ {f}
    /\ status' = WithStatus(f.call, "error")
    /\ Start(Run("check", f.sig, None))
    /\ UNCHANGED <<active, queue, completed, requestQueue,
                   isFinalizingToolCalls, isScheduling, isCancelling, aborted,
                   prompt, args, promise, trail, answered, granted, ran,
                   reports>>

\* onConfirm is done: the answer and its audit record.
Confirmed(f, event) ==
    /\ Idle
    /\ f.at = "confirm"
    /\ trail' = [trail EXCEPT ![f.call] = @ \cup {event}]

\* ... and it cancels, or the signal was aborted meanwhile.
ConfirmCancel(f) ==
    /\ Confirmed(f, IF f.out = "cancel" THEN "denied" ELSE "approved")
    /\ f.out = "cancel" \/ f.sig \in aborted
    /\ frames' = frames \ {f}
    /\ Start(Run("cancelAll", f.sig, None))
    /\ UNCHANGED <<active, status, queue, completed, requestQueue,
                   isFinalizingToolCalls, isScheduling, isCancelling, aborted,
                   prompt, args, promise, answered, granted, ran, reports>>

\* ... and it lets the call run as the user saw it.
ConfirmProceed(f) ==
    /\ Confirmed(f, "approved")
    /\ f.out = "proceed" /\ f.sig \notin aborted
    /\ frames' = frames \ {f}
    /\ granted' = [granted EXCEPT ![f.call] = @ \cup {f.ver}]
    /\ status' = WithStatus(f.call, "scheduled")
    /\ Start(Run("attempt", f.sig, None))
    /\ UNCHANGED <<active, queue, completed, requestQueue,
                   isFinalizingToolCalls, isScheduling, isCancelling, aborted,
                   prompt, args, promise, answered, ran, reports>>

\* ... and it carries new content, or opens the editor.  The current content of
\* the file, or the editor, is awaited.
ConfirmModify(f) ==
    /\ Confirmed(f, "approved")
    /\ f.out \in {"inline", "editor"} /\ f.sig \notin aborted
    /\ Suspend(frames \ {f}, f.out, f.call, f.sig, None, f.out, f.ver)
    /\ status' = IF f.out = "editor"
                 THEN WithStatus(f.call, "awaiting_approval") ELSE status
    /\ UNCHANGED <<active, queue, completed, requestQueue,
                   isFinalizingToolCalls, isScheduling, isCancelling, aborted,
                   prompt, args, promise, jobs, answered, granted, ran,
                   reports>>

\* setArgsInternal builds the invocation anew from the modified arguments.
NewArgs(c) ==
    args' = IF active = c /\ status[c] # "error" /\ args[c] < MaxArgs
            THEN [args EXCEPT ![c] = @ + 1] ELSE args

\* The editor closed: the call waits for an answer to its new arguments.
EditorDone(f) ==
    /\ Idle
    /\ f.at = "editor"
    /\ frames' = frames \ {f}
    /\ NewArgs(f.call)
    /\ status' = WithStatus(f.call, "awaiting_approval")
    /\ Start(Run("attempt", f.sig, None))
    /\ UNCHANGED <<active, queue, completed, requestQueue,
                   isFinalizingToolCalls, isScheduling, isCancelling, aborted,
                   prompt, promise, trail, answered, granted, ran, reports>>

\* The editor could not be run, or the file not be read: the handler rejects, the
\* prompt stays.
EditorFails(f) ==
    /\ Idle
    /\ f.at \in {"editor", "inline"}
    /\ "editor" \in Faults
    /\ frames' = frames \ {f}
    /\ UNCHANGED <<active, status, queue, completed, requestQueue,
                   isFinalizingToolCalls, isScheduling, isCancelling, aborted,
                   prompt, args, promise, jobs, trail, answered, granted, ran,
                   reports>>

\* _applyInlineModify done: the call runs with the content the user gave.
InlineDone(f) ==
    /\ Idle
    /\ f.at = "inline"
    /\ frames' = frames \ {f}
    /\ NewArgs(f.call)
    /\ granted' = [granted EXCEPT ![f.call] = @ \cup {args'[f.call]}]
    /\ status' = WithStatus(f.call, "scheduled")
    /\ Start(Run("attempt", f.sig, None))
    /\ UNCHANGED <<active, queue, completed, requestQueue,
                   isFinalizingToolCalls, isScheduling, isCancelling, aborted,
                   prompt, promise, trail, answered, ran, reports>>

\* The modified arguments do not build: setArgsInternal makes the call an error
\* and the later status changes do nothing.
ModifyInvalid(f) ==
    /\ Idle
    /\ f.at \in {"editor", "inline"}
    /\ "rebuild" \in Faults
    /\ frames' = frames \ {f}
    /\ status' = IF active = f.call THEN [status EXCEPT ![f.call] = "error"]
                 ELSE status
    /\ Start(Run("attempt", f.sig, None))
    /\ UNCHANGED <<active, queue, completed, requestQueue,
                   isFinalizingToolCalls, isScheduling, isCancelling, aborted,
                   prompt, args, promise, trail, answered, granted, ran,
                   reports>>

\* The tool's promise settles.  After an abort every result is a cancellation,
\* audited only when the tool threw; "saved" is a success whose long output was
\* awaited to be saved, after which the signal is not looked at again.
ExecDone(f, result) ==
    /\ Idle
    /\ f.at = "exec"
    /\ result \in {"success", "saved"} \/ "tool" \in Faults
    /\ frames' = frames \ {f}
    /\ LET cancelled == f.sig \in aborted /\ result # "saved"
           worked == result \in {"success", "saved"}
           final == IF cancelled THEN "cancelled"
                    ELSE IF worked THEN "success" ELSE "error"
           event == IF worked THEN "execution_finished" ELSE "execution_failed"
       IN  /\ status' = WithStatus(f.call, final)
           /\ IF cancelled /\ result # "throw" THEN UNCHANGED trail
              ELSE Audit(f.call, event)
    /\ Start(Run("check", f.sig, f.root))
    /\ UNCHANGED <<active, queue, completed, requestQueue,
                   isFinalizingToolCalls, isScheduling, isCancelling, aborted,
                   prompt, args, promise, answered, granted, ran, reports>>

\* Fault: the requests that wait are forgotten.
BugStartNext(f) == Return(f.root) /\ UNCHANGED requestQueue

\* The next queued request starts; the chain that reported unwinds behind it.
StartNext(f) ==
    IF requestQueue = <<>>
    THEN Return(f.root) /\ UNCHANGED requestQueue
    ELSE LET next == Head(requestQueue)
         IN  /\ jobs' = <<Run("schedule", next, next),
                          Run("unwind", f.sig, f.root)>>
             /\ requestQueue' = Tail(requestQueue)
             /\ UNCHANGED <<isScheduling, promise>>

\* onAllToolCallsComplete resolved: the batch is cleared.
ReportDone(f) ==
    /\ Idle
    /\ f.at = "report"
    /\ frames' = frames \ {f}
    /\ completed' = <<>>
    /\ isFinalizingToolCalls' = FALSE
    /\ isCancelling' = FALSE
    /\ StartNext(f)
    /\ UNCHANGED <<active, status, queue, aborted, prompt, args, trail,
                   answered, granted, ran, reports>>

\* onAllToolCallsComplete threw: nothing after it runs.
ReportThrows(f) ==
    /\ Idle
    /\ f.at = "report"
    /\ "report" \in Faults
    /\ frames' = frames \ {f}
    /\ Unwind(f.root, "rejected")
    /\ UNCHANGED <<active, status, queue, completed, requestQueue,
                   isFinalizingToolCalls, isCancelling, aborted, prompt, args,
                   jobs, trail, answered, granted, ran, reports>>

-----------------------------------------------------------------------------

Method ==
    \/ ScheduleThrows \/ ScheduleBatch
    \/ ProcessNothing \/ ProcessAborted \/ ProcessNext
    \/ AttemptStart \/ AttemptNothing
    \/ CancelAllAgain \/ CancelAll
    \/ CheckBusy \/ CheckNext \/ CheckNothing \/ CheckReport
    \/ UnwindJob

Resume(f) ==
    \/ ValidateFree(f) \/ ValidateThrows(f)
    \/ \E pin \in BOOLEAN : ValidatePrompt(f, pin) \/ ValidateHook(f, pin)
    \/ HookDone(f)
    \/ ConfirmThrows(f) \/ ConfirmCancel(f) \/ ConfirmProceed(f)
    \/ ConfirmModify(f)
    \/ EditorDone(f) \/ EditorFails(f) \/ InlineDone(f) \/ ModifyInvalid(f)
    \/ \E result \in {"success", "saved", "failure", "throw"} : ExecDone(f, result)
    \/ ReportDone(f) \/ ReportThrows(f)

Answer(c) ==
    \E o \in Outcomes : Respond(c, o) \/ RespondBadPin(c, o) \/ RespondLate(c, o)

Next ==
    \/ Method
    \/ \E f \in frames : Resume(f)
    \/ \E c \in Calls : Answer(c)
    \/ \E r \in Requests : Schedule(r) \/ Abort(r) \/ UserCancel(r)

Spec == Init /\ [][Next]_vars

\* The event loop runs every step it was given, every awaited promise settles
\* (tools, hooks and editors end), and the user answers a prompt in the end.
\* Nothing obliges a client to schedule, abort or cancel.
FairSpec ==
    /\ Spec
    /\ WF_vars(Method)
    /\ WF_vars(\E f \in frames : Resume(f))
    /\ WF_vars(\E c \in Calls : Waiting(c) /\ Answer(c))

-----------------------------------------------------------------------------

\* Every variable stays in its domain.
TypeOK ==
    /\ active \in Calls \cup {None}
    /\ status \in [Calls -> Statuses]
    /\ queue \in Seq(Calls) /\ completed \in Seq(Calls)
    /\ requestQueue \in Seq(Requests)
    /\ isFinalizingToolCalls \in BOOLEAN
    /\ isScheduling \in BOOLEAN
    /\ isCancelling \in BOOLEAN
    /\ aborted \in SUBSET Requests
    /\ prompt \in [Calls -> [sig : Requests \cup {None}, pin : BOOLEAN]]
    /\ args \in [Calls -> 0..MaxArgs]
    /\ promise \in [Requests -> Promises]
    /\ jobs \in Seq(Job)
    /\ frames \in SUBSET Frame
    /\ trail \in [Calls -> SUBSET Events]
    /\ answered \in [Calls -> Nat]
    /\ granted \in [Calls -> SUBSET (0..MaxArgs)]
    /\ ran \in [Calls -> Seq(0..MaxArgs)]
    /\ reports \in [Calls -> 0..2]

\* No call runs unless its check let it run freely, or an answer that was not
\* a cancellation, with the right PIN, passed onConfirm: however answers,
\* aborts, cancellations and batches interleave.
ApprovalGate == \A c \in Calls : ran[c] # <<>> => granted[c] # {}

\* A final status stays: a call that has one, or that was reported, is never
\* started (again) and its result is never replaced.
FinalIsFinal ==
    [][\A c \in Calls :
          status[c] \in Terminal \/ reports[c] > 0 =>
              status'[c] = status[c] /\ ran'[c] = ran[c]]_vars

\* Two tools never run at the same time.
OneToolRuns == Cardinality({f \in frames : f.at = "exec"}) <= 1

\* No call runs twice.
RunsOnce == \A c \in Calls : Len(ran[c]) <= 1

\* A call runs with arguments that the user, or the check, agreed to.
RunsGrantedArgs ==
    \A c \in Calls : \A i \in 1..Len(ran[c]) : ran[c][i] \in granted[c]

\* A call runs under the signal of the request it came with.
RunsUnderOwnSignal ==
    \A f \in frames : f.at = "exec" => f.call \in Elements(CallsOf[f.sig])

\* No call is reported to the client twice.
ReportedOnce == \A c \in Calls : reports[c] <= 1

\* A batch holds calls of one request, none of them twice, and those that ran
\* ran in the request's order.  (Cancelled calls may come before them.)
Position(r, c) == CHOOSE n \in DOMAIN CallsOf[r] : CallsOf[r][n] = c
BatchOf(r, batch) ==
    /\ Elements(batch) \subseteq Elements(CallsOf[r])
    /\ \A i, j \in DOMAIN batch :
          i < j => /\ batch[i] # batch[j]
                   /\ ran[batch[i]] # <<>> /\ ran[batch[j]] # <<>>
                        => Position(r, batch[i]) < Position(r, batch[j])
BatchOfOneRequest ==
    completed # <<>> => \E r \in Requests : BatchOf(r, completed)

\* A request that is rejected leaves nothing behind, so that its client may
\* schedule it again: none of its calls was taken on.  (Unless the report
\* handler threw.)
RejectedUntouched ==
    "report" \notin Faults =>
        \A r \in Requests :
            promise[r] = "rejected" =>
                \A c \in Elements(CallsOf[r]) : status[c] = "new"

\* When nothing is under way, nothing is left behind: no request waits, no flag
\* is set, and every call of every request that was not rejected is reported.
NothingLeftBehind ==
    Idle /\ frames = {} /\ active = None =>
        /\ requestQueue = <<>> /\ queue = <<>> /\ completed = <<>>
        /\ ~isFinalizingToolCalls /\ ~isScheduling
        /\ \A r \in Requests :
              promise[r] \notin {"unsent", "rejected"} => Settled(r)

\* Every execution leaves its outcome in the audit trail, unless its request was
\* cancelled: the dropped call is not active any more when its tool ends.
OutcomeAudited ==
    \A r \in Requests \ aborted : \A c \in Elements(CallsOf[r]) :
        /\ "execution_started" \in trail[c]
        /\ \A f \in frames : ~(f.at = "exec" /\ f.call = c)
        => trail[c] \cap {"execution_finished", "execution_failed"} # {}

\* Every scheduled request is settled and all its calls are reported.
EveryRequestReported ==
    \A r \in Requests :
        promise[r] = "pending" ~> promise[r] = "rejected"
                                  \/ (promise[r] = "resolved" /\ Settled(r))

-----------------------------------------------------------------------------
(***************************************************************************)
(* The client's view: where each call is, as ToolBatch tells it.           *)
(***************************************************************************)
Executing(c) == \E f \in frames : f.at = "exec" /\ f.call = c

CallPhase(c) ==
    IF reports[c] > 0 THEN "reported"
    ELSE IF Executing(c) THEN "running"
    ELSE IF status[c] \in Terminal THEN "ended"
    ELSE IF \E r \in Requests : promise[r] # "unsent"
                              /\ c \in Elements(CallsOf[r]) THEN "accepted"
    ELSE "idle"

Client == INSTANCE ToolBatch WITH phase <- [c \in Calls |-> CallPhase(c)]

\* The scheduler keeps the promise of ToolBatch: a request's calls run one at a
\* time and in order, and it is reported as a whole and once.
ClientPromise == Client!Spec
=============================================================================
