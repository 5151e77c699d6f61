--------------------------- MODULE ToolSchedulerInv ---------------------------
(***************************************************************************)
(* The inductive invariant of ToolScheduler, which ToolSchedulerProofs     *)
(* proves and the runs check.                                              *)
(***************************************************************************)
EXTENDS ToolScheduler, Functions

\* None of the calls of request r was taken on.
Fresh(r) == \A c \in Elements(CallsOf[r]) : status[c] = "new"

\* The running step is the start of request r.
Starting(r) == jobs # <<>> /\ Head(jobs).fn = "schedule" /\ Head(jobs).sig = r

\* Behind the running step only chains wait to unwind.
UnwindsBehind(js) == \A i \in DOMAIN js : i > 1 => js[i].fn = "unwind"

\* A request is waiting, or starting, or neither; until it has started its
\* calls are new, and so they stay when it is rejected.
RequestInv ==
    /\ UnwindsBehind(jobs)
    /\ jobs # <<>> /\ Head(jobs).fn = "schedule" =>
          Head(jobs).root = Head(jobs).sig
    /\ IsInjective(requestQueue)
    /\ \A r \in Requests :
          /\ Starting(r) => r \notin Elements(requestQueue)
          /\ Starting(r) \/ r \in Elements(requestQueue) =>
                promise[r] # "unsent"
                /\ (promise[r] = "rejected" => "report" \in Faults)
          /\ \/ Starting(r) \/ r \in Elements(requestQueue)
             \/ promise[r] = "unsent"
             \/ promise[r] = "rejected" /\ "report" \notin Faults
             => Fresh(r)

\* A call that was taken on is in one place, queued or active or suspended, and
\* its status fits that place.
PlaceInv ==
    /\ IsInjective(queue)
    /\ active \notin Elements(queue)
    /\ active # None => status[active] # "new"
    /\ \A c \in Elements(queue) : status[c] \in {"validating", "error"}
    /\ \A c \in Calls :
          status[c] = "validating" => c = active \/ c \in Elements(queue)
    /\ \A f \in frames : f.at # "report" =>
          /\ f.call \in Calls
          /\ status[f.call] # "new"
          /\ f.call \notin Elements(queue)

\* A call that may start, or started, was granted; one with a prompt has been
\* through its check.
GateInv ==
    \A c \in Calls :
        /\ status[c] \in {"scheduled", "executing"} => granted[c] # {}
        /\ ran[c] # <<>> => granted[c] # {}
        /\ prompt[c].sig # None => status[c] \notin {"new", "validating"}

\* What is in the batch, or was reported, is final; an active call that has
\* succeeded or was cancelled is collected by the step that is running.
FinalInv ==
    /\ \A c \in Elements(completed) : status[c] \in Terminal
    /\ \A c \in Calls : reports[c] > 0 => status[c] \in Terminal
    /\ active # None /\ status[active] \in {"success", "cancelled"} =>
          jobs # <<>> /\ Head(jobs).fn = "check"

IInv == RequestInv /\ PlaceInv /\ GateInv /\ FinalInv
-----------------------------------------------------------------------------
(***************************************************************************)
(* The stronger invariant of a scheduler that is given one batch at a      *)
(* time, is cancelled by signal, and whose prompts are answered once: one  *)
(* chain of control works off the calls of one request.                    *)
(***************************************************************************)

\* How the A2A server uses the scheduler: the main loop of a task waits for one
\* batch before it schedules the next, never schedules an empty one (task.ts:616),
\* and cancels by aborting the signal; its client answers a prompt once.
OneAtATime ==
    /\ ~Overlap /\ ~Stale
    /\ CancelModes \subseteq {"abort"}
    /\ \A r \in Requests : CallsOf[r] # <<>>

\* The scheduler has accepted request r and not reported it; the request goes once
\* its calls were taken on.
Unsettled(r) == promise[r] \notin {"unsent", "rejected"} /\ ~Settled(r)
Going(r) == Unsettled(r) /\ ~Fresh(r)

\* The running step is that of a method, not the end of a chain.
Stepping == jobs # <<>> /\ Me.fn # "unwind"

\* One request at most is unsettled; it is starting, waits in the queue, or goes.
OneUnsettled ==
    /\ \A r, q \in Requests : Unsettled(r) /\ Unsettled(q) => r = q
    /\ \A r \in Requests :
          Unsettled(r) => Starting(r) \/ r \in Elements(requestQueue) \/ Going(r)
    /\ \A r \in Elements(requestQueue) : Unsettled(r)

\* A chain belongs to the request it began with.  What reports, or unwinds behind
\* the next request, is over; an answer begins a chain of its own.
ChainInv ==
    /\ \A job \in Elements(jobs) :
          /\ job.root \in {None, job.sig}
          /\ job.fn = "unwind" => Settled(job.sig)
          /\ job.fn = "cancelAll" => job.root = None
    /\ \A f \in frames :
          /\ f.root \in {None, f.sig}
          /\ f.at = "report" => Settled(f.sig)
          /\ f.at \in {"confirm", "editor", "inline"} => f.root = None
    /\ isScheduling => \/ \E job \in Elements(jobs) : job.root # None
                       \/ \E f \in frames : f.root # None

\* One method runs or one function is suspended, for the request that goes.
ControlInv ==
    /\ \A f, g \in frames : f = g
    /\ Stepping => frames = {} /\ Unsettled(Me.sig)
    /\ Stepping /\ Me.fn # "schedule" => Going(Me.sig)
    /\ \A f \in frames : f.at # "report" => Going(f.sig) /\ active = f.call
    /\ \A r \in Requests : Going(r) => Stepping \/ frames # {} \/ active # None

\* What a method finds when it runs.
MethodInv ==
    /\ Running("process") => active = None /\ queue # <<>>
    /\ Running("attempt") =>
          active # None /\ status[active] \in {"scheduled", "awaiting_approval", "error"}
    /\ Running("cancelAll") => active # None /\ status[active] = "awaiting_approval"
    /\ Running("check") => ~Busy
    /\ isCancelling => isFinalizingToolCalls \/ (Running("check") /\ queue = <<>>)

\* What a suspended function awaits for its call, and what is under way for a call.
AwaitInv ==
    /\ \A f \in frames :
          /\ f.at \in {"validate", "notify"} => status[f.call] = "validating"
          /\ f.at \in {"confirm", "editor", "inline"} =>
                status[f.call] = "awaiting_approval" /\ f.ver = args[f.call]
          /\ f.at = "exec" => status[f.call] = "executing"
    /\ \A c \in Calls :
          /\ status[c] \in {"scheduled", "awaiting_approval", "executing"} => c = active
          /\ status[c] = "scheduled" => Running("attempt") /\ args[c] \in granted[c]
          /\ status[c] = "executing" => Executing(c)

\* While a batch is finalised nothing else is under way, and only then may a request
\* wait.
FinalizingInv ==
    /\ \A f \in frames : f.at = "report" => isFinalizingToolCalls
    /\ isFinalizingToolCalls =>
          /\ ~Stepping /\ active = None /\ queue = <<>>
          /\ \A f \in frames : f.at = "report"
          /\ "report" \notin Faults => frames # {}
          /\ \A r \in Requests : ~Going(r)
    /\ requestQueue # <<>> => isFinalizingToolCalls

\* The calls of the request that goes are done, active or queued: in its order, or,
\* when a cancellation closes the batch, those that ran before those dropped.
InTurn(r) ==
    \E k \in 0..Len(CallsOf[r]) :
        /\ queue = SubSeq(CallsOf[r], k + 1, Len(CallsOf[r]))
        /\ active # None => k > 0 /\ active = CallsOf[r][k]
        /\ Elements(completed) =
              {CallsOf[r][j] : j \in 1..(IF active = None THEN k ELSE k - 1)}
Closing == Running("check") /\ queue = <<>> /\ (active # None => ran[active] = <<>>)

PlacesOf(r) ==
    /\ \A c \in Elements(CallsOf[r]) : reports[c] = 0
    /\ Elements(CallsOf[r]) =
          Elements(completed) \cup Elements(queue) \cup ({active} \ {None})
    /\ InTurn(r) \/ Closing

BatchInv ==
    /\ active # None \/ queue # <<>> \/ (completed # <<>> /\ ~isFinalizingToolCalls) =>
          \E r \in Requests : Going(r)
    /\ \A c \in Elements(completed) : c # active /\ c \notin Elements(queue)
    /\ \A r \in Requests : Going(r) => PlacesOf(r)
    /\ BatchOfOneRequest

\* A call that waits has not run; no call runs twice, or otherwise than agreed; its
\* prompt belongs to its request.
RanInv ==
    /\ \A c \in Calls :
          \/ status[c] \in {"new", "validating", "scheduled", "awaiting_approval"}
          \/ c \in Elements(queue)
          => ran[c] = <<>>
    /\ \A c \in Calls : prompt[c].sig # None => c \in Elements(CallsOf[prompt[c].sig])
    /\ RunsOnce /\ RunsGrantedArgs /\ OutcomeAudited /\ ReportedOnce

SerialInv ==
    /\ OneUnsettled /\ ChainInv /\ ControlInv /\ MethodInv /\ AwaitInv
    /\ FinalizingInv /\ BatchInv /\ RanInv
=============================================================================
