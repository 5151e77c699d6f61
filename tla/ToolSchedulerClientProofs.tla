---------------------- MODULE ToolSchedulerClientProofs ----------------------
(***************************************************************************)
(* Proof that ToolScheduler, given one batch at a time, implements         *)
(* ToolBatch: every step maps to an action of ToolBatch, or to none.       *)
(***************************************************************************)
EXTENDS ToolSchedulerSerialProofs

\* The view of the client, and what it depends on.
View == [c \in Calls |-> CallPhase(c)]

Sent(c) == \E r \in Requests : promise[r] # "unsent" /\ c \in Elements(CallsOf[r])

PhaseOf(n, s, sent) ==
    IF n > 0 THEN "reported"
    ELSE IF s = "executing" THEN "running"
    ELSE IF s \in Terminal THEN "ended"
    ELSE IF sent THEN "accepted" ELSE "idle"

\* No promise is given or taken back.
SameSent == \A r \in Requests : promise'[r] = "unsent" <=> promise[r] = "unsent"

\* A step of the client's view.
Simulates == Client!Next \/ UNCHANGED View

\* A call runs exactly while its status says so.
LEMMA PhaseNow ==
    ASSUME SerialInv, NEW c \in Calls
    PROVE  CallPhase(c) = PhaseOf(reports[c], status[c], Sent(c))
<1>1. Executing(c) <=> status[c] = "executing"
  BY DEF SerialInv, AwaitInv, Executing
<1> QED BY <1>1 DEF CallPhase, PhaseOf, Sent

LEMMA PhaseThen ==
    ASSUME SerialInv', NEW c \in Calls
    PROVE  CallPhase(c)' = PhaseOf(reports'[c], status'[c], Sent(c)')
<1>1. Executing(c)' <=> status'[c] = "executing"
  BY DEF SerialInv, AwaitInv, Executing
<1> QED BY <1>1 DEF CallPhase, PhaseOf, Sent

\* A call is where it was while neither its reports nor its status tell otherwise.
LEMMA PhaseKept ==
    ASSUME SerialInv, SerialInv', SameSent, NEW c \in Calls,
           reports'[c] = reports[c],
           \/ status'[c] = status[c]
           \/ {status[c], status'[c]} \cap (Terminal \cup {"executing"}) = {}
    PROVE  CallPhase(c)' = CallPhase(c)
<1>1. Sent(c)' <=> Sent(c) BY DEF SameSent, Sent
<1> QED BY <1>1, PhaseNow, PhaseThen DEF PhaseOf

\* Requests other than the scheduled one are sent as before.
LEMMA Stutters ==
    ASSUME SerialInv, SerialInv', SameSent, UNCHANGED <<reports, status>>
    PROVE  Simulates
<1>1. \A c \in Calls : CallPhase(c)' = CallPhase(c) BY PhaseKept
<1> QED BY <1>1 DEF Simulates, View

\* A chain belongs to a request that was sent, and so its end changes nothing.
LEMMA ChainsSent ==
    ASSUME OneAtATime, TypeOK, IInv, SerialInv
    PROVE  /\ jobs # <<>> => Me.sig \in Requests /\ promise[Me.sig] # "unsent"
                             /\ Me.root \in {None, Me.sig}
           /\ \A f \in frames : /\ f.sig \in Requests /\ promise[f.sig] # "unsent"
                                /\ f.root \in {None, f.sig}
<1>1. \A r \in Requests : Settled(r) \/ Unsettled(r) => promise[r] # "unsent"
  <2> SUFFICES ASSUME NEW r \in Requests, Settled(r), promise[r] = "unsent"
               PROVE  FALSE
    BY DEF Unsettled
  <2>1. Fresh(r) BY DEF IInv, RequestInv
  <2>2. 1 \in DOMAIN CallsOf[r] BY SchedulerAssumption DEF OneAtATime
  <2>3. CallsOf[r][1] \in Elements(CallsOf[r]) BY <2>2 DEF Elements
  <2>4. CallsOf[r][1] \in Calls /\ reports[CallsOf[r][1]] > 0
    BY <2>3, CallsOfType DEF Settled
  <2> QED BY <2>1, <2>3, <2>4 DEF Fresh, IInv, FinalInv, Terminal
<1>2. ASSUME jobs # <<>>
      PROVE  Me.sig \in Requests /\ promise[Me.sig] # "unsent"
             /\ Me.root \in {None, Me.sig}
  <2>1. Me \in Elements(jobs) /\ Me.sig \in Requests BY <1>2, MeIn
  <2>2. Settled(Me.sig) \/ Unsettled(Me.sig)
    BY <1>2, <2>1 DEF SerialInv, ChainInv, ControlInv, Stepping
  <2> QED BY <1>1, <2>1, <2>2 DEF SerialInv, ChainInv
<1>3. ASSUME NEW f \in frames
      PROVE  /\ f.sig \in Requests /\ promise[f.sig] # "unsent"
             /\ f.root \in {None, f.sig}
  <2>1. f.sig \in Requests BY FrameFields
  <2>2. Settled(f.sig) \/ Unsettled(f.sig)
    BY DEF SerialInv, ChainInv, ControlInv, Going
  <2> QED BY <1>1, <2>1, <2>2 DEF SerialInv, ChainInv
<1> QED BY <1>2, <1>3

LEMMA UnwindSent ==
    ASSUME TypeOK, NEW root, NEW result \in {"resolved", "rejected"},
           Unwind(root, result), NEW sig \in Requests, root \in {None, sig},
           promise[sig] # "unsent"
    PROVE  SameSent
  BY DEF Unwind, SameSent, TypeOK

-----------------------------------------------------------------------------
(***************************************************************************)
(* The actions of ToolBatch, told by what happens to each call.            *)
(***************************************************************************)
LEMMA AcceptView ==
    ASSUME NEW r \in Requests,
           \A c \in Elements(CallsOf[r]) :
               CallPhase(c) = "idle" /\ CallPhase(c)' = "accepted",
           \A c \in Calls \ Elements(CallsOf[r]) : CallPhase(c)' = CallPhase(c)
    PROVE  Simulates
<1>1. Client!CallsIn(r) = Elements(CallsOf[r]) BY DEF Client!CallsIn, Elements
<1>2. Elements(CallsOf[r]) \subseteq Calls BY CallsOfType
<1>3. Client!Accept(r) BY <1>1, <1>2 DEF Client!Accept
<1> QED BY <1>3 DEF Simulates, Client!Next

LEMMA BeginView ==
    ASSUME NEW r \in Requests, NEW k \in DOMAIN CallsOf[r],
           CallPhase(CallsOf[r][k]) = "accepted",
           CallPhase(CallsOf[r][k])' = "running",
           \A c \in Calls : CallPhase(c) # "running",
           \A j \in 1..(k - 1) : CallPhase(CallsOf[r][j]) = "ended",
           \A c \in Calls \ {CallsOf[r][k]} : CallPhase(c)' = CallPhase(c)
    PROVE  Simulates
<1>1. /\ k \in Nat /\ CallsOf[r][k] \in Calls
      /\ \A j \in 1..(k - 1) : CallsOf[r][j] \in Calls
  BY SchedulerAssumption
<1>2. Client!Begin(r, k) BY <1>1 DEF Client!Begin
<1> QED BY <1>2 DEF Simulates, Client!Next

LEMMA FinishView ==
    ASSUME NEW d \in Calls, CallPhase(d) \in {"accepted", "running"},
           CallPhase(d)' = "ended",
           \A c \in Calls \ {d} : CallPhase(c)' = CallPhase(c)
    PROVE  Simulates
<1>1. Client!Finish(d) BY DEF Client!Finish
<1> QED BY <1>1 DEF Simulates, Client!Next

LEMMA ReportView ==
    ASSUME NEW r \in Requests,
           \A c \in Elements(CallsOf[r]) :
               CallPhase(c) \in {"accepted", "ended"} /\ CallPhase(c)' = "reported",
           \A c \in Calls \ Elements(CallsOf[r]) : CallPhase(c)' = CallPhase(c)
    PROVE  Simulates
<1>1. Client!CallsIn(r) = Elements(CallsOf[r]) BY DEF Client!CallsIn, Elements
<1>2. Elements(CallsOf[r]) \subseteq Calls BY CallsOfType
<1>3. Client!Report(r) BY <1>1, <1>2 DEF Client!Report
<1> QED BY <1>3 DEF Simulates, Client!Next

LEMMA DropView ==
    ASSUME NEW r \in Requests, NEW calls \in SUBSET Elements(CallsOf[r]),
           \A c \in calls :
               CallPhase(c) \in {"accepted", "ended"} /\ CallPhase(c)' = "ended",
           \A c \in Calls \ calls : CallPhase(c)' = CallPhase(c)
    PROVE  Simulates
<1>1. Client!CallsIn(r) = Elements(CallsOf[r]) BY DEF Client!CallsIn, Elements
<1>2. Elements(CallsOf[r]) \subseteq Calls BY CallsOfType
<1>3. Client!Drop(r, calls) BY <1>2 DEF Client!Drop
<1> QED BY <1>1, <1>3 DEF Simulates, Client!Next

-----------------------------------------------------------------------------
(***************************************************************************)
(* The steps of the scheduler.                                             *)
(***************************************************************************)
\* A request goes: its calls were sent and none is reported.
LEMMA GoingSent ==
    ASSUME TypeOK, IInv, SerialInv, NEW r \in Requests, Going(r)
    PROVE  /\ Elements(CallsOf[r]) \subseteq Calls
           /\ \A c \in Elements(CallsOf[r]) : Sent(c) /\ reports[c] = 0
  BY CallsOfType, BatchMine DEF PlacesOf, Going, Unsettled, Sent

\* A call that is not final was not reported.
LEMMA NotFinal ==
    ASSUME TypeOK, IInv, NEW c \in Calls, status[c] \notin Terminal
    PROVE  reports[c] = 0
<1>1. reports[c] \in 0..2 BY DEF TypeOK
<1> QED BY <1>1 DEF IInv, FinalInv

LEMMA ScheduleView ==
    ASSUME TypeOK, IInv, SerialInv, SerialInv', NEW r \in Requests, Schedule(r)
    PROVE  Simulates
<1>1. /\ promise[r] = "unsent" /\ promise' = [promise EXCEPT ![r] = "pending"]
      /\ UNCHANGED <<status, reports>>
  BY DEF Schedule
<1>2. promise'[r] = "pending" /\ \A q \in Requests \ {r} : promise'[q] = promise[q]
  BY <1>1 DEF TypeOK
<1>3. Fresh(r) BY <1>1 DEF IInv, RequestInv
<1>4. ASSUME NEW c \in Elements(CallsOf[r])
      PROVE  CallPhase(c) = "idle" /\ CallPhase(c)' = "accepted"
  <2>1. c \in Calls /\ (\A q \in Requests : c \in Elements(CallsOf[q]) => q = r)
    BY CallsOfType
  <2>2. status[c] = "new" BY <1>3 DEF Fresh
  <2>3. reports[c] = 0 BY <2>1, <2>2, NotFinal DEF Terminal
  <2>4. ~Sent(c) /\ Sent(c)' BY <1>1, <1>2, <2>1 DEF Sent
  <2> QED BY <1>1, <2>1, <2>2, <2>3, <2>4, PhaseNow, PhaseThen
          DEF PhaseOf, Terminal
<1>5. ASSUME NEW c \in Calls \ Elements(CallsOf[r])
      PROVE  CallPhase(c)' = CallPhase(c)
  <2>1. Sent(c)' <=> Sent(c) BY <1>2 DEF Sent
  <2> QED BY <1>1, <2>1, PhaseNow, PhaseThen DEF PhaseOf
<1> QED BY <1>4, <1>5, AcceptView

LEMMA AbortView ==
    ASSUME TypeOK, SerialInv, SerialInv', NEW r \in Requests, Abort(r)
    PROVE  Simulates
<1>1. UNCHANGED <<status, reports>> /\ AbortSignal(r) BY DEF Abort
<1>2. CASE AbortQueued(r)
  <2>1. /\ promise' = [promise EXCEPT ![r] = "rejected"]
        /\ r \in Elements(requestQueue)
    BY <1>2 DEF AbortQueued, Elements
  <2>2. promise[r] # "unsent" BY <2>1 DEF SerialInv, OneUnsettled, Unsettled
  <2>3. SameSent BY <2>1, <2>2 DEF SameSent, TypeOK
  <2> QED BY <1>1, <2>3, Stutters
<1>3. CASE UNCHANGED promise
  <2>1. SameSent BY <1>3 DEF SameSent
  <2> QED BY <1>1, <2>1, Stutters
<1> QED BY <1>1, <1>2, <1>3 DEF AbortSignal

\* Calls that cannot be built end at once, the others stay accepted.
LEMMA ScheduleBatchView ==
    ASSUME TypeOK, IInv, SerialInv, SerialInv', ScheduleBatch
    PROVE  Simulates
<1>0. PICK r \in Requests : r = Me.sig BY SteppingNow DEF ScheduleBatch
<1>1. /\ Unsettled(r) /\ Fresh(r) /\ UNCHANGED <<promise, reports>>
  <2>1. Running("schedule") /\ UNCHANGED <<promise, reports>> BY DEF ScheduleBatch
  <2>2. Starting(r) /\ Unsettled(r)
    BY <1>0, <2>1, SteppingNow DEF Starting, Running, Me
  <2>3. Fresh(r) BY <2>2 DEF IInv, RequestInv
  <2> QED BY <2>1, <2>2, <2>3
<1>2. PICK bad \in SUBSET Elements(CallsOf[r]) :
         status' = [c \in Calls |-> IF c \notin Elements(CallsOf[r]) THEN status[c]
                                    ELSE IF c \in bad THEN "error"
                                    ELSE "validating"]
  BY <1>0 DEF ScheduleBatch
<1>3. SameSent BY <1>1 DEF SameSent
<1>4. ASSUME NEW c \in Calls PROVE Sent(c)' <=> Sent(c) BY <1>1 DEF Sent
<1>5. ASSUME NEW c \in bad
      PROVE  CallPhase(c) = "accepted" /\ CallPhase(c)' = "ended"
  <2>1. c \in Calls /\ status[c] = "new" BY <1>1, CallsOfType DEF Fresh
  <2>2. reports[c] = 0 BY <2>1, NotFinal DEF Terminal
  <2>3. Sent(c) BY <1>1 DEF Sent, Unsettled
  <2>4. status'[c] = "error" BY <1>2, <2>1
  <2> QED BY <1>1, <2>1, <2>2, <2>3, <2>4, PhaseNow, PhaseThen
          DEF PhaseOf, Terminal
<1>6. ASSUME NEW c \in Calls \ bad PROVE CallPhase(c)' = CallPhase(c)
  <2>1. CASE c \notin Elements(CallsOf[r]) BY <1>1, <1>2, <1>3, <2>1, PhaseKept
  <2>2. CASE c \in Elements(CallsOf[r])
    <3>1. status[c] = "new" /\ status'[c] = "validating"
      BY <1>1, <1>2, <2>2 DEF Fresh
    <3>2. {status[c], status'[c]} \cap (Terminal \cup {"executing"}) = {}
      BY <3>1 DEF Terminal
    <3> QED BY <1>1, <1>3, <3>2, PhaseKept
  <2> QED BY <2>1, <2>2
<1> QED BY <1>5, <1>6, DropView

\* A cancellation: the queued calls end, and so does the active one if it waits for
\* an answer.
LEMMA CancelView ==
    ASSUME TypeOK, IInv, SerialInv, SerialInv', ProcessAborted \/ CancelAll
    PROVE  Simulates
<1>1. PICK fn \in {"process", "cancelAll"} : Running(fn)
  BY DEF ProcessAborted, CancelAll
<1>2. PICK r \in Requests : r = Me.sig /\ Going(r) BY <1>1, SteppingNow
<1>3. /\ Elements(queue) \subseteq Elements(CallsOf[r])
      /\ Elements(CallsOf[r]) \subseteq Calls
      /\ \A c \in Elements(CallsOf[r]) : Sent(c) /\ reports[c] = 0
      /\ active # None => active \in Elements(CallsOf[r]) /\ active \in Calls
                          /\ active \notin Elements(queue)
      /\ UNCHANGED <<promise, reports>>
  BY <1>2, BatchMine, GoingOnly, GoingSent DEF ProcessAborted, CancelAll
<1>4. SameSent /\ \A c \in Calls : Sent(c)' <=> Sent(c)
  BY <1>3 DEF SameSent, Sent
<1>5. PICK dropped \in SUBSET Elements(CallsOf[r]) :
         /\ \A c \in dropped : status[c] \in {"validating", "awaiting_approval", "error"}
                               /\ status'[c] \in {"cancelled", "error"}
         /\ \A c \in Calls \ dropped : status'[c] = status[c]
  <2>1. CASE ProcessAborted
    <3>1. status' = CancelQueued(status) BY <2>1 DEF ProcessAborted
    <3>2. /\ \A c \in Elements(queue) : status[c] \in {"validating", "error"}
                                        /\ status'[c] \in {"cancelled", "error"}
          /\ \A c \in Calls \ Elements(queue) : status'[c] = status[c]
      BY <1>3, <3>1, CancelQueuedAt
    <3> QED BY <1>3, <3>2
  <2>2. CASE CancelAll
    <3>1. /\ active # None /\ status[active] = "awaiting_approval"
          /\ status' = CancelQueued(WithStatus(active, "cancelled"))
      BY <2>2 DEF CancelAll, SerialInv, MethodInv
    <3>2. /\ active \in Elements(CallsOf[r]) /\ active \in Calls
          /\ active \notin Elements(queue)
      BY <1>3, <3>1
    <3>3. \A c \in Calls : WithStatus(active, "cancelled")[c] =
                              IF c = active THEN "cancelled" ELSE status[c]
      BY <3>1, <3>2, WithStatusAt DEF Terminal
    <3>4. \A d \in Elements(queue) : WithStatus(active, "cancelled")[d] = status[d]
      BY <1>3, <3>2, <3>3
    <3>5. /\ \A c \in Elements(queue) : status[c] \in {"validating", "error"}
                                        /\ status'[c] \in {"cancelled", "error"}
          /\ \A c \in Calls \ Elements(queue) :
                status'[c] = WithStatus(active, "cancelled")[c]
      BY <1>3, <3>1, <3>4, CancelQueuedAt
    <3> DEFINE D == Elements(queue) \cup {active}
    <3>6. /\ D \in SUBSET Elements(CallsOf[r])
          /\ \A c \in D : status[c] \in {"validating", "awaiting_approval", "error"}
                          /\ status'[c] \in {"cancelled", "error"}
          /\ \A c \in Calls \ D : status'[c] = status[c]
      BY <1>3, <3>1, <3>2, <3>3, <3>5
    <3> QED BY <3>6
  <2> QED BY <2>1, <2>2
<1>6. ASSUME NEW c \in dropped
      PROVE  CallPhase(c) \in {"accepted", "ended"} /\ CallPhase(c)' = "ended"
  <2>1. /\ c \in Calls /\ Sent(c) /\ reports[c] = 0 /\ reports'[c] = 0
        /\ status[c] # "executing" /\ status'[c] \in Terminal \ {"executing"}
    BY <1>3, <1>5 DEF Terminal
  <2> QED BY <2>1, PhaseNow, PhaseThen DEF PhaseOf
<1>7. ASSUME NEW c \in Calls \ dropped PROVE CallPhase(c)' = CallPhase(c)
  BY <1>3, <1>4, <1>5, PhaseKept
<1> QED BY <1>6, <1>7, DropView

\* The calls before the next one have ended.
LEMMA AttemptStartView ==
    ASSUME TypeOK, IInv, SerialInv, SerialInv', AttemptStart
    PROVE  Simulates
<1>1. Running("attempt") /\ CanStart /\ UNCHANGED <<promise, reports>>
  BY DEF AttemptStart
<1>2. PICK r \in Requests : r = Me.sig /\ Going(r) /\ frames = {}
  BY <1>1, SteppingNow
<1>3. active # None /\ status[active] = "scheduled" BY <1>1 DEF CanStart
<1>4. active \in Calls /\ active \in Elements(CallsOf[r]) BY <1>2, <1>3, GoingOnly
<1>5. status'[active] = "executing"
      /\ \A c \in Calls \ {active} : status'[c] = status[c]
  BY <1>4 DEF AttemptStart, TypeOK
<1>6. /\ Elements(CallsOf[r]) \subseteq Calls
      /\ \A c \in Elements(CallsOf[r]) : Sent(c) /\ reports[c] = 0
  BY <1>2, GoingSent
<1>7. SameSent /\ \A c \in Calls : Sent(c)' <=> Sent(c)
  BY <1>1 DEF SameSent, Sent
<1>8. PICK k \in 0..Len(CallsOf[r]) :
         /\ k > 0 /\ active = CallsOf[r][k]
         /\ Elements(completed) = {CallsOf[r][j] : j \in 1..(k - 1)}
  <2>1. ~Closing BY <1>1 DEF Closing, Running
  <2>2. InTurn(r) BY <1>2, <2>1, BatchMine DEF PlacesOf
  <2> QED BY <1>3, <2>2 DEF InTurn
<1>9. k \in DOMAIN CallsOf[r] BY <1>8, CallsOfType
<1>10. PICK d \in Calls :
          /\ d = CallsOf[r][k] /\ d = active
          /\ CallPhase(d) = "accepted" /\ CallPhase(d)' = "running"
  <2>1. PICK d \in Calls : d = active BY <1>4
  <2>2. Sent(d) /\ reports[d] = 0 /\ reports'[d] = 0 BY <1>1, <1>4, <1>6, <2>1
  <2>3. status[d] = "scheduled" /\ status'[d] = "executing" BY <1>3, <1>5, <2>1
  <2>4. CallPhase(d) = "accepted" BY <2>2, <2>3, PhaseNow DEF PhaseOf, Terminal
  <2>5. CallPhase(d)' = "running" BY <2>2, <2>3, PhaseThen DEF PhaseOf
  <2> QED BY <1>8, <2>1, <2>4, <2>5
<1>11. ASSUME NEW c \in Calls PROVE CallPhase(c) # "running"
  <2>1. ~Executing(c) BY <1>2 DEF Executing
  <2> QED BY <2>1 DEF CallPhase
<1>12. ASSUME NEW j \in 1..(k - 1) PROVE CallPhase(CallsOf[r][j]) = "ended"
  <2> DEFINE c == CallsOf[r][j]
  <2>1. c \in Elements(completed) BY <1>8
  <2>2. j \in DOMAIN CallsOf[r] BY <1>9, CallsOfType
  <2>3. c \in Elements(CallsOf[r]) BY <2>2 DEF Elements
  <2>4. status[c] \in Terminal \ {"executing"}
    BY <2>1 DEF IInv, FinalInv, Terminal
  <2> HIDE DEF c
  <2>5. CallPhase(c) = "ended" BY <1>6, <2>3, <2>4, PhaseNow DEF PhaseOf
  <2> QED BY <2>5 DEF c
<1>13. ASSUME NEW c \in Calls \ {d} PROVE CallPhase(c)' = CallPhase(c)
  BY <1>1, <1>5, <1>7, <1>10, PhaseKept
<1> QED BY <1>9, <1>10, <1>11, <1>12, <1>13, BeginView

\* A batch that is over is reported as a whole.
LEMMA CheckReportView ==
    ASSUME TypeOK, TypeOK', IInv, SerialInv, SerialInv', CheckReport
    PROVE  Simulates
<1>1. PICK r \in Requests :
         /\ Going(r)
         /\ \A c \in Elements(CallsOf[r]) : reports[c] = 0 /\ reports'[c] = 1
         /\ \A c \in Calls \ Elements(CallsOf[r]) : reports'[c] = reports[c]
  BY SerialCheckReport
<1>2. /\ ~Busy /\ status' \in {status, CancelQueued(status)} /\ UNCHANGED promise
  BY DEF CheckReport
<1>3. /\ Elements(CallsOf[r]) \subseteq Calls
      /\ \A c \in Elements(CallsOf[r]) : Sent(c)
      /\ Elements(queue) \subseteq Elements(CallsOf[r])
  BY <1>1, GoingSent, BatchMine
<1>4. ASSUME NEW c \in Elements(CallsOf[r])
      PROVE  CallPhase(c) \in {"accepted", "ended"} /\ CallPhase(c)' = "reported"
  <2>1. c \in Calls BY <1>3
  <2>2. status[c] # "executing"
    BY <1>2, <2>1, SchedulerAssumption DEF SerialInv, AwaitInv, Busy, Terminal
  <2>3. reports[c] = 0 /\ reports'[c] = 1 /\ Sent(c) BY <1>1, <1>3
  <2>4. reports'[c] > 0 BY <2>3
  <2> QED BY <2>1, <2>2, <2>3, <2>4, PhaseNow, PhaseThen DEF PhaseOf
<1>5. ASSUME NEW c \in Calls \ Elements(CallsOf[r])
      PROVE  CallPhase(c)' = CallPhase(c)
  <2>1. status'[c] = status[c]
    <3>1. CancelQueued(status)[c] = status[c] BY <1>3 DEF CancelQueued
    <3> QED BY <1>2, <3>1
  <2>2. SameSent BY <1>2 DEF SameSent
  <2> QED BY <1>1, <2>1, <2>2, PhaseKept
<1> QED BY <1>4, <1>5, ReportView

\* Steps that leave the calls as they are, and may end a chain.
LEMMA EndsView ==
    ASSUME OneAtATime, TypeOK, IInv, SerialInv, SerialInv',
           \/ ProcessNext \/ CheckNext \/ AttemptNothing \/ UnwindJob
           \/ \E f \in frames : ReportDone(f) \/ ReportThrows(f)
    PROVE  Simulates
<1>1. CASE ProcessNext \/ CheckNext
  <2>1. UNCHANGED <<promise, reports, status>> BY <1>1 DEF ProcessNext, CheckNext
  <2> QED BY <2>1, Stutters DEF SameSent
<1>2. CASE AttemptNothing \/ UnwindJob
  <2>1. /\ jobs # <<>> /\ Unwind(Me.root, "resolved")
        /\ UNCHANGED <<reports, status>>
    BY <1>2 DEF AttemptNothing, UnwindJob, End, Running
  <2>2. SameSent BY <2>1, ChainsSent, UnwindSent
  <2> QED BY <2>1, <2>2, Stutters
<1>3. ASSUME NEW f \in frames, ReportDone(f) \/ ReportThrows(f)
      PROVE  Simulates
  <2>1. /\ UNCHANGED <<reports, status>>
        /\ \/ Unwind(f.root, "resolved")
           \/ Unwind(f.root, "rejected")
           \/ UNCHANGED promise
    BY <1>3 DEF ReportDone, ReportThrows, StartNext, Return
  <2>2. SameSent
    <3>1. CASE UNCHANGED promise BY <3>1 DEF SameSent
    <3> QED BY <2>1, <3>1, ChainsSent, UnwindSent
  <2> QED BY <2>1, <2>2, Stutters
<1> QED BY <1>1, <1>2, <1>3

\* An awaited result or an answer may end the active call.
LEMMA HandledView ==
    ASSUME TypeOK, IInv, SerialInv, SerialInv', Handled, UNCHANGED promise,
           status[active] # "executing" \/ status'[active] \in Terminal,
           active # None
    PROVE  Simulates
<1>1. SameSent /\ \A c \in Calls : Sent(c)' <=> Sent(c) BY DEF SameSent, Sent
<1>2. UNCHANGED reports /\ \A c \in Calls : StatusMoves(c) BY DEF Handled
<1>3. PICK d \in Calls : d = active BY DEF TypeOK
<1>4. ASSUME NEW c \in Calls \ {d} PROVE CallPhase(c)' = CallPhase(c)
  <2>1. status'[c] = status[c] BY <1>2, <1>3 DEF StatusMoves
  <2> QED BY <1>1, <1>2, <2>1, PhaseKept
<1>5. CASE status'[d] \notin Terminal \/ status[d] \in Terminal
  <2>1. \/ status'[d] = status[d]
        \/ {status[d], status'[d]} \cap (Terminal \cup {"executing"}) = {}
    BY <1>2, <1>3, <1>5 DEF StatusMoves
  <2>2. CallPhase(d)' = CallPhase(d) BY <1>1, <1>2, <2>1, PhaseKept
  <2> QED BY <1>4, <2>2 DEF Simulates, View
<1>6. CASE status'[d] \in Terminal /\ status[d] \notin Terminal
  <2>1. reports[d] = 0 /\ reports'[d] = 0 BY <1>2, <1>6, NotFinal
  <2>2. PICK r \in Requests : Going(r) BY DEF SerialInv, BatchInv
  <2>3. Sent(d) BY <1>3, <2>2, GoingOnly, GoingSent
  <2>4. CallPhase(d) \in {"accepted", "running"}
    BY <1>6, <2>1, <2>3, PhaseNow DEF PhaseOf
  <2>5. CallPhase(d)' = "ended"
    BY <1>6, <2>1, PhaseThen DEF PhaseOf, Terminal
  <2> QED BY <1>4, <2>4, <2>5, FinishView
<1> QED BY <1>5, <1>6

LEMMA ResumeView ==
    ASSUME OneAtATime, TypeOK, IInv, SerialInv, SerialInv',
           NEW f \in frames, Resume(f)
    PROVE  Simulates
<1>1. CASE ReportDone(f) \/ ReportThrows(f) BY <1>1, EndsView
<1>2. CASE ~ReportDone(f) /\ ~ReportThrows(f)
  <2>1. Handled BY <1>2, HandledSteps
  <2>2. UNCHANGED promise /\ Idle /\ f.at # "report"
    BY <1>2 DEF Resume, ValidateFree, ValidateThrows, ValidatePrompt, ValidateHook,
       HookDone, ConfirmThrows, ConfirmCancel, ConfirmProceed, ConfirmModify,
       EditorDone, EditorFails, InlineDone, ModifyInvalid, ExecDone, Confirmed
  <2>3. active # None /\ active \in Calls /\ f.call = active
        /\ (f.at # "exec" => status[active] \in {"validating", "awaiting_approval"})
    <3>1. f.at \in {"validate", "notify", "confirm", "editor", "inline", "exec"}
      BY <2>2 DEF TypeOK, Frame
    <3> QED BY <2>2, <3>1, Resumed
  <2>4. f.at = "exec" => status'[active] \in Terminal
    <3> SUFFICES ASSUME f.at = "exec" PROVE status'[active] \in Terminal OBVIOUS
    <3>1. status[active] = "executing" BY <2>2, Resumed
    <3>2. PICK result \in {"success", "saved", "failure", "throw"} : ExecDone(f, result)
      BY <1>2 DEF Resume, ValidateFree, ValidateThrows, ValidatePrompt, ValidateHook,
         HookDone, ConfirmThrows, ConfirmCancel, ConfirmProceed, ConfirmModify,
         EditorDone, EditorFails, InlineDone, ModifyInvalid, Confirmed
    <3>3. \E s \in Terminal : status' = WithStatus(active, s)
      BY <2>3, <3>2 DEF ExecDone, Terminal
    <3>4. PICK s \in Terminal : status' = WithStatus(active, s) BY <3>3
    <3> QED BY <2>3, <3>1, <3>4, WithStatusAt DEF Terminal
  <2> QED BY <2>1, <2>2, <2>3, <2>4, HandledView
<1> QED BY <1>1, <1>2

LEMMA AnswerView ==
    ASSUME OneAtATime, TypeOK, IInv, SerialInv, SerialInv',
           NEW c \in Calls, Answer(c)
    PROVE  Simulates
<1>1. Handled BY HandledSteps
<1>2. PICK o : CanAnswer(c, o) /\ UNCHANGED promise
  BY DEF Answer, Respond, RespondBadPin, RespondLate
<1>3. active # None /\ status[active] = "awaiting_approval"
  BY <1>2, Answered DEF Waiting
<1> QED BY <1>1, <1>2, <1>3, HandledView

\* Every step of the scheduler is a step of ToolBatch, or none.
LEMMA StepView ==
    ASSUME OneAtATime, TypeOK, IInv, SerialInv, [Next]_vars
    PROVE  Simulates
<1>1. TypeOK' /\ SerialInv' BY SerialStep
<1>2. CASE Method
  <2>1. CASE \/ ProcessNext \/ CheckNext \/ AttemptNothing \/ UnwindJob
    BY <1>1, <2>1, EndsView
  <2>2. CASE ScheduleBatch BY <1>1, <2>2, ScheduleBatchView
  <2>3. CASE ProcessAborted \/ CancelAll BY <1>1, <2>3, CancelView
  <2>4. CASE AttemptStart BY <1>1, <2>4, AttemptStartView
  <2>5. CASE CheckReport BY <1>1, <2>5, CheckReportView
  <2> QED BY <1>2, <2>1, <2>2, <2>3, <2>4, <2>5, NeverSerial DEF Method
<1>3. ASSUME NEW f \in frames, Resume(f) PROVE Simulates
  BY <1>1, <1>3, ResumeView
<1>4. ASSUME NEW c \in Calls, Answer(c) PROVE Simulates
  BY <1>1, <1>4, AnswerView
<1>5. ASSUME NEW r \in Requests, Schedule(r) \/ Abort(r) \/ UserCancel(r)
      PROVE  Simulates
  BY <1>1, <1>5, ScheduleView, AbortView, NeverSerial
<1>6. CASE UNCHANGED vars
  <2>1. SameSent /\ UNCHANGED <<reports, status>> BY <1>6 DEF vars, SameSent
  <2> QED BY <1>1, <2>1, Stutters
<1>7. CASE Next BY <1>2, <1>3, <1>4, <1>5, <1>7 DEF Next
<1> QED BY <1>6, <1>7

LEMMA InitView ==
    ASSUME Init
    PROVE  Client!Init
<1>1. ASSUME NEW c \in Calls PROVE CallPhase(c) = "idle"
  BY DEF Init, CallPhase, Executing, Terminal
<1> QED BY <1>1 DEF Client!Init

\* One batch at a time, the scheduler keeps the promise of ToolBatch: the calls of a
\* request run one at a time and in order, or end without running, and the request is
\* reported as a whole, once (what task.ts and useGeminiStream.ts rely on when they wait
\* for onAllToolCallsComplete).
THEOREM Promise == OneAtATime => (Spec => ClientPromise)
<1> SUFFICES ASSUME OneAtATime PROVE Spec => ClientPromise OBVIOUS
<1>1. Init => Client!Init BY InitView
<1>2. (TypeOK /\ IInv /\ SerialInv) /\ [Next]_vars =>
         [Client!Next]_([c \in Calls |-> CallPhase(c)])
  BY StepView DEF Simulates, View
<1> QED BY SerialInvariant, <1>1, <1>2, PTL DEF Spec, ClientPromise, Client!Spec
=============================================================================
