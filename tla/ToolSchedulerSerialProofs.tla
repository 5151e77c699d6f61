---------------------- MODULE ToolSchedulerSerialProofs ----------------------
(***************************************************************************)
(* Proofs about a ToolScheduler that is given one batch at a time          *)
(* (OneAtATime), for any requests, calls, answers and faults: every step   *)
(* keeps SerialInv, from which follow the properties of a batch and the    *)
(* promise to the client, ToolBatch.                                       *)
(***************************************************************************)
EXTENDS ToolSchedulerProofs

(***************************************************************************)
(* Requests and their calls.                                               *)
(***************************************************************************)
\* The calls of a request are calls, and they are its own.
LEMMA CallsOfType ==
    ASSUME NEW r \in Requests
    PROVE  /\ CallsOf[r] \in Seq(Calls)
           /\ Elements(CallsOf[r]) \subseteq Calls
           /\ \A q \in Requests, c \in Elements(CallsOf[r]) :
                 c \in Elements(CallsOf[q]) => q = r
<1>1. CallsOf[r] \in Seq(Calls) BY SchedulerAssumption
<1>2. Elements(CallsOf[r]) \subseteq Calls BY <1>1 DEF Elements
<1>3. \A q \in Requests, c \in Elements(CallsOf[r]) :
         c \in Elements(CallsOf[q]) => q = r
  BY SchedulerAssumption DEF Elements
<1> QED BY <1>1, <1>2, <1>3

\* Requests are as they were while nothing is reported and no promise, and no
\* call, leaves its first state.
LEMMA RequestsSame ==
    ASSUME UNCHANGED <<promise, reports>>,
           \A c \in Calls : status'[c] = "new" <=> status[c] = "new"
    PROVE  \A q \in Requests :
              /\ Settled(q)' <=> Settled(q)
              /\ Unsettled(q)' <=> Unsettled(q)
              /\ Fresh(q)' <=> Fresh(q)
              /\ Going(q)' <=> Going(q)
<1> TAKE q \in Requests
<1>1. Settled(q)' <=> Settled(q) BY DEF Settled
<1>2. Unsettled(q)' <=> Unsettled(q) BY <1>1 DEF Unsettled
<1>3. Fresh(q)' <=> Fresh(q) BY CallsOfType DEF Fresh
<1> QED BY <1>1, <1>2, <1>3 DEF Going

\* Settling the promise of a chain makes no request unsettled, and settles none.
LEMMA UnwindSame ==
    ASSUME TypeOK, NEW root, NEW result \in {"resolved", "rejected"},
           Unwind(root, result), UNCHANGED reports,
           NEW sig \in Requests, root \in {None, sig},
           Settled(sig) \/ (Unsettled(sig) /\ result = "resolved")
    PROVE  \A q \in Requests : Unsettled(q)' <=> Unsettled(q)
<1> TAKE q \in Requests
<1>1. \A p \in Requests : Settled(p)' <=> Settled(p) BY DEF Settled
<1>2. q # root \/ root = None => promise'[q] = promise[q]
  BY DEF Unwind, TypeOK
<1>3. root # None => promise'[root] = result
  BY SchedulerAssumption DEF Unwind, TypeOK
<1> QED BY <1>1, <1>2, <1>3, SchedulerAssumption DEF Unsettled

\* The head of jobs is one of them.
LEMMA MeIn ==
    ASSUME TypeOK, jobs # <<>>
    PROVE  /\ Me \in Job /\ Me \in Elements(jobs)
           /\ Me.sig \in Requests /\ Me.root \in Requests \cup {None}
           /\ Elements(jobs) = Elements(Tail(jobs)) \cup {Me}
<1>1. jobs \in Seq(Job) BY DEF TypeOK
<1>2. /\ Me \in Job /\ Me \in Elements(jobs)
      /\ Elements(jobs) = Elements(Tail(jobs)) \cup {Me}
  BY <1>1, HeadTail DEF Me
<1> QED BY <1>2 DEF Job

\* The fields of the jobs.
LEMMA JobFields ==
    ASSUME TypeOK, NEW job \in Elements(jobs)
    PROVE  job.sig \in Requests /\ job.root \in Requests \cup {None}
<1>1. job \in Job BY DEF TypeOK, Elements
<1> QED BY <1>1 DEF Job

\* What may be behind the running step is the end of a chain.
LEMMA BehindMe ==
    ASSUME TypeOK, IInv, jobs # <<>>
    PROVE  /\ \A job \in Elements(Tail(jobs)) : job.fn = "unwind"
           /\ Tail(jobs) # <<>> => Head(Tail(jobs)).fn = "unwind"
<1>1. jobs \in Seq(Job) /\ UnwindsBehind(jobs) BY DEF TypeOK, IInv, RequestInv
<1>2. /\ Len(jobs) \in Nat /\ DOMAIN jobs = 1..Len(jobs)
      /\ DOMAIN Tail(jobs) = 1..(Len(jobs) - 1)
      /\ \A i \in 1..(Len(jobs) - 1) : Tail(jobs)[i] = jobs[i + 1]
      /\ Tail(jobs) # <<>> => Head(Tail(jobs)) = Tail(jobs)[1]
                              /\ 1 \in 1..(Len(jobs) - 1)
  BY <1>1
<1>3. \A i \in 1..(Len(jobs) - 1) : i + 1 \in 1..Len(jobs) /\ i + 1 > 1
  BY <1>2
<1>4. \A i \in 1..(Len(jobs) - 1) : Tail(jobs)[i].fn = "unwind"
  BY <1>1, <1>2, <1>3 DEF UnwindsBehind
<1> QED BY <1>2, <1>4 DEF Elements

\* The elements of a sequence of one.
LEMMA ElementsOne ==
    ASSUME NEW x
    PROVE  Elements(<<x>>) = {x} /\ Head(<<x>>) = x /\ <<x>> # <<>>
  BY DEF Elements

\* The jobs after a step goes on as another.
LEMMA ContinueElements ==
    ASSUME TypeOK, jobs # <<>>, NEW job \in Job, Continue(job)
    PROVE  /\ jobs' # <<>> /\ Me' = job
           /\ Elements(jobs)' = Elements(Tail(jobs)) \cup {job}
<1>1. Tail(jobs) \in Seq(Job) /\ <<job>> \in Seq(Job)
      /\ jobs' = <<job>> \o Tail(jobs)
  BY DEF TypeOK, Continue
<1>2. jobs' # <<>> /\ Head(jobs') = job BY <1>1
<1>3. Elements(<<job>> \o Tail(jobs)) = Elements(<<job>>) \cup Elements(Tail(jobs))
  BY <1>1, Joined
<1> QED BY <1>1, <1>2, <1>3, ElementsOne DEF Me

\* A batch whose calls do not start stays in order.
LEMMA BatchSame ==
    ASSUME BatchOfOneRequest, completed' = completed,
           \A i \in DOMAIN completed : ran'[completed[i]] = ran[completed[i]]
    PROVE  BatchOfOneRequest'
<1>1. \A r : BatchOf(r, completed) => BatchOf(r, completed)' BY DEF BatchOf, Position
<1> QED BY <1>1 DEF BatchOfOneRequest

\* Where a call is in its request.
LEMMA PositionAt ==
    ASSUME NEW r \in Requests, NEW k \in DOMAIN CallsOf[r]
    PROVE  Position(r, CallsOf[r][k]) = k
<1>1. \A n \in DOMAIN CallsOf[r] : CallsOf[r][n] = CallsOf[r][k] => n = k
  BY SchedulerAssumption
<1> QED BY <1>1 DEF Position

\* Calls that have not run may join the batch in any order.
LEMMA BatchJoined ==
    ASSUME NEW r \in Requests, NEW s \in Seq(Calls), BatchOf(r, s),
           NEW t \in Seq(Calls), Elements(t) \subseteq Elements(CallsOf[r]),
           IsInjective(t), Elements(s) \cap Elements(t) = {},
           \A c \in Elements(t) : ran[c] = <<>>
    PROVE  BatchOf(r, s \o t)
<1> DEFINE m == Len(s)
           n == Len(t)
           u == s \o t
<1>1. /\ m \in Nat /\ n \in Nat
      /\ DOMAIN s = 1..m /\ DOMAIN t = 1..n /\ DOMAIN u = 1..(m + n)
      /\ \A i \in 1..m : u[i] = s[i]
      /\ \A i \in (m + 1)..(m + n) : u[i] = t[i - m]
  OBVIOUS
<1>2. Elements(u) \subseteq Elements(CallsOf[r]) BY Joined DEF BatchOf
<1> HIDE DEF m, n, u
<1>3. ASSUME NEW i \in 1..(m + n), NEW j \in 1..(m + n), i < j
      PROVE  /\ u[i] # u[j]
             /\ ran[u[i]] # <<>> /\ ran[u[j]] # <<>> =>
                   Position(r, u[i]) < Position(r, u[j])
  <2>1. CASE j <= m
    <3>1. i \in 1..m /\ j \in 1..m BY <1>1, <1>3, <2>1
    <3> QED BY <1>1, <1>3, <3>1 DEF BatchOf
  <2>2. CASE j > m
    <3>1. j \in (m + 1)..(m + n) /\ j - m \in 1..n BY <1>1, <2>2
    <3>2. u[j] = t[j - m] /\ u[j] \in Elements(t)
      BY <1>1, <3>1 DEF Elements
    <3>3. ran[u[j]] = <<>> BY <3>2
    <3>4. CASE i <= m
      <4>1. i \in 1..m BY <1>1, <3>4
      <4>2. u[i] \in Elements(s) BY <1>1, <4>1 DEF Elements
      <4> QED BY <3>2, <3>3, <4>2
    <3>5. CASE i > m
      <4>1. i \in (m + 1)..(m + n) /\ i - m \in 1..n BY <1>1, <3>5
      <4>2. u[i] = t[i - m] /\ i - m # j - m BY <1>1, <1>3, <3>1, <4>1
      <4>3. t[i - m] # t[j - m] BY <1>1, <3>1, <4>1, <4>2 DEF IsInjective
      <4> QED BY <3>2, <3>3, <4>2, <4>3
    <3> QED BY <1>1, <3>4, <3>5
  <2> QED BY <1>1, <2>1, <2>2
<1> QED BY <1>1, <1>2, <1>3 DEF BatchOf, u

\* The call whose turn it is joins the batch behind those before it.
LEMMA BatchAppended ==
    ASSUME NEW r \in Requests, NEW s \in Seq(Calls), BatchOf(r, s),
           NEW k \in DOMAIN CallsOf[r],
           \A c \in Elements(s) : \E j \in 1..(k - 1) : c = CallsOf[r][j]
    PROVE  BatchOf(r, Append(s, CallsOf[r][k]))
<1> DEFINE m == Len(s)
           c == CallsOf[r][k]
           u == Append(s, c)
<1>0. CallsOf[r] \in Seq(Calls) /\ c \in Calls /\ k \in Nat
      /\ \A j \in 1..(k - 1) : j \in DOMAIN CallsOf[r] /\ j < k
  BY CallsOfType
<1>1. /\ m \in Nat /\ DOMAIN s = 1..m /\ DOMAIN u = 1..(m + 1)
      /\ \A i \in 1..m : u[i] = s[i]
      /\ u[m + 1] = c
  BY <1>0
<1>2. Elements(u) \subseteq Elements(CallsOf[r])
  <2>1. c \in Elements(CallsOf[r]) BY DEF Elements
  <2> QED BY <1>0, <2>1, Appended DEF BatchOf
<1> HIDE DEF m, c, u
<1>3. ASSUME NEW d \in Elements(s)
      PROVE  d # c /\ Position(r, d) < Position(r, c)
  <2>1. PICK j \in 1..(k - 1) : d = CallsOf[r][j] OBVIOUS
  <2>2. Position(r, d) = j /\ Position(r, c) = k
    BY <1>0, <2>1, PositionAt DEF c
  <2> QED BY <1>0, <2>2
<1>4. ASSUME NEW i \in 1..(m + 1), NEW j \in 1..(m + 1), i < j
      PROVE  /\ u[i] # u[j]
             /\ ran[u[i]] # <<>> /\ ran[u[j]] # <<>> =>
                   Position(r, u[i]) < Position(r, u[j])
  <2>1. i \in 1..m /\ u[i] = s[i] /\ u[i] \in Elements(s)
    <3>1. i \in 1..m BY <1>1, <1>4
    <3> QED BY <1>1, <3>1 DEF Elements
  <2>2. CASE j = m + 1 BY <1>1, <1>3, <2>1, <2>2
  <2>3. CASE j # m + 1
    <3>1. j \in 1..m /\ u[j] = s[j] BY <1>1, <2>3
    <3> QED BY <1>1, <1>4, <2>1, <3>1 DEF BatchOf
  <2> QED BY <2>2, <2>3
<1> QED BY <1>1, <1>2, <1>4 DEF BatchOf, u, c

\* What is left of a sequence when its next element is taken.
LEMMA RestOf ==
    ASSUME NEW S, NEW s \in Seq(S), NEW k \in 0..Len(s),
           SubSeq(s, k + 1, Len(s)) # <<>>
    PROVE  /\ k + 1 \in 1..Len(s)
           /\ Head(SubSeq(s, k + 1, Len(s))) = s[k + 1]
           /\ Tail(SubSeq(s, k + 1, Len(s))) = SubSeq(s, k + 2, Len(s))
  OBVIOUS

-----------------------------------------------------------------------------
(***************************************************************************)
(* The steps about the active call: the handlers of what it awaits, the    *)
(* answers to its prompt, and its start.                                   *)
(***************************************************************************)
\* Such a step leaves at most one job for request r before those that unwind ...
LocalJobs(r) ==
    \/ jobs' = <<>> \/ (jobs # <<>> /\ jobs' = Tail(jobs))
    \/ \E job \in Job :
          /\ jobs' = <<job>> /\ frames' = {}
          /\ job.fn \in {"attempt", "cancelAll", "check"}
          /\ job.sig = r /\ job.root \in {None, r}
          /\ job.fn = "cancelAll" => job.root = None

\* ... or one suspended function.
LocalFrames(r) ==
    \/ frames' = {}
    \/ \E f \in Frame :
          /\ frames' = {f}
          /\ f.at # "report" /\ f.call = active /\ f.sig = r
          /\ f.root \in {None, r}
          /\ f.at \in {"confirm", "editor", "inline"} => f.root = None

\* What the step leaves fits the status of the active call.
ActiveFits ==
    /\ Running("attempt") =>
          status[active] \in {"scheduled", "awaiting_approval", "error"}
    /\ Running("cancelAll") => status[active] = "awaiting_approval"
    /\ Running("check") => status[active] \in Terminal
    /\ \A f \in frames :
          /\ f.at \in {"validate", "notify"} => status[active] = "validating"
          /\ f.at \in {"confirm", "editor", "inline"} =>
                status[active] = "awaiting_approval" /\ f.ver = args[active]
          /\ f.at = "exec" => status[active] = "executing"
    /\ status[active] # "new"
    /\ status[active] = "scheduled" =>
          Running("attempt") /\ args[active] \in granted[active]
    /\ status[active] = "executing" => Executing(active)

\* The trail of a call grows, and tells the outcome of what started.
AuditMoves ==
    \A c \in Calls :
        /\ trail[c] \subseteq trail'[c]
        /\ "execution_started" \in trail'[c] =>
              \/ Executing(c)'
              \/ trail'[c] \cap {"execution_finished", "execution_failed"} # {}
              \/ \E r \in aborted : c \in Elements(CallsOf[r])
              \/ "execution_started" \in trail[c] /\ ~Executing(c)

\* The active call runs at most once, with arguments that were agreed to.
RanMoves ==
    /\ status'[active] \in {"validating", "scheduled", "awaiting_approval"} =>
          ran'[active] = <<>>
    /\ Len(ran'[active]) <= 1
    /\ \A i \in 1..Len(ran'[active]) : ran'[active][i] \in granted'[active]
    /\ \A c \in Calls : granted[c] \subseteq granted'[c]

Local(r) ==
    /\ UNCHANGED <<active, queue, completed, requestQueue, isFinalizingToolCalls,
                   isCancelling, aborted, reports>>
    /\ ~Running("check")
    /\ \A q \in Requests : Unsettled(q)' <=> Unsettled(q)
    /\ \A c \in Calls : c # active => status'[c] = status[c] /\ ran'[c] = ran[c]
    /\ \A c \in Calls : \/ prompt'[c] = prompt[c]
                        \/ c = active /\ prompt'[c].sig = r
    /\ isScheduling' => \/ \E job \in Elements(jobs)' : job.root # None
                        \/ \E f \in frames' : f.root # None
    /\ LocalJobs(r) /\ LocalFrames(r)
    /\ ActiveFits' /\ AuditMoves /\ RanMoves

\* While a call of a request is active nothing is finalised, and no other request is
\* there.
LEMMA GoingOnly ==
    ASSUME TypeOK, IInv, SerialInv, NEW r \in Requests, Going(r), active # None
    PROVE  /\ active \in Calls /\ active \in Elements(CallsOf[r])
           /\ active \notin Elements(completed) \cup Elements(queue)
           /\ ~isFinalizingToolCalls /\ requestQueue = <<>>
           /\ \A q \in Requests : Unsettled(q) => q = r
           /\ isCancelling => Running("check")
<1>1. active \in Calls BY DEF TypeOK
<1>2. active \in Elements(CallsOf[r]) BY DEF SerialInv, BatchInv, PlacesOf
<1>3. active \notin Elements(completed) \cup Elements(queue)
  BY DEF SerialInv, BatchInv, IInv, PlaceInv
<1>4. ~isFinalizingToolCalls /\ requestQueue = <<>>
  BY DEF SerialInv, FinalizingInv
<1>5. \A q \in Requests : Unsettled(q) => q = r
  BY DEF SerialInv, OneUnsettled, Going
<1>6. isCancelling => Running("check") BY <1>4 DEF SerialInv, MethodInv
<1> QED BY <1>1, <1>2, <1>3, <1>4, <1>5, <1>6

\* Nothing new comes behind the running step.
LEMMA LocalElements ==
    ASSUME TypeOK, IInv, NEW r \in Requests, LocalJobs(r)
    PROVE  /\ \A job \in Elements(jobs)' :
                 \/ job \in Elements(jobs)
                 \/ /\ job.sig = r /\ job.root \in {None, r} /\ job.fn # "unwind"
                    /\ job.fn = "cancelAll" => job.root = None
           /\ Stepping' => /\ jobs' # <<>> /\ frames' = {} /\ Me'.sig = r
                           /\ Me'.fn \in {"attempt", "cancelAll", "check"}
<1>1. CASE jobs' = <<>>
  BY <1>1, ElementsEmpty DEF Stepping
<1>2. CASE jobs # <<>> /\ jobs' = Tail(jobs)
  BY <1>2, MeIn, BehindMe DEF Stepping, Me
<1>3. ASSUME NEW job \in Job,
             /\ jobs' = <<job>> /\ frames' = {}
             /\ job.fn \in {"attempt", "cancelAll", "check"}
             /\ job.sig = r /\ job.root \in {None, r}
             /\ job.fn = "cancelAll" => job.root = None
      PROVE  /\ \A j \in Elements(jobs)' : j = job
             /\ jobs' # <<>> /\ frames' = {} /\ Me'.sig = r
             /\ Me'.fn \in {"attempt", "cancelAll", "check"}
  BY <1>3, ElementsOne DEF Me
<1> QED BY <1>1, <1>2, <1>3 DEF LocalJobs

\* Such a step keeps the invariant.
LEMMA LocalKeeps ==
    ASSUME TypeOK, TypeOK', IInv, IInv', SerialInv,
           NEW r \in Requests, Going(r), active # None, Local(r)
    PROVE  SerialInv'
<1> USE SchedulerAssumption
<1>1. /\ active \in Calls /\ active \in Elements(CallsOf[r])
      /\ active \notin Elements(completed) \cup Elements(queue)
      /\ ~isFinalizingToolCalls /\ requestQueue = <<>> /\ ~isCancelling
      /\ \A q \in Requests : Unsettled(q) => q = r
  BY GoingOnly DEF Local
<1>2. /\ UNCHANGED <<active, queue, completed, requestQueue,
                     isFinalizingToolCalls, isCancelling, aborted, reports>>
      /\ \A q \in Requests : Unsettled(q)' <=> Unsettled(q)
      /\ \A c \in Calls : c # active => status'[c] = status[c] /\ ran'[c] = ran[c]
      /\ status'[active] # "new"
      /\ ActiveFits'
  BY DEF Local, ActiveFits
<1>3. Going(r)' BY <1>1, <1>2 DEF Going, Fresh
<1>4. /\ \A job \in Elements(jobs)' :
            \/ job \in Elements(jobs)
            \/ /\ job.sig = r /\ job.root \in {None, r} /\ job.fn # "unwind"
               /\ job.fn = "cancelAll" => job.root = None
      /\ Stepping' => /\ jobs' # <<>> /\ frames' = {} /\ Me'.sig = r
                      /\ Me'.fn \in {"attempt", "cancelAll", "check"}
  BY LocalElements DEF Local
<1>5. /\ \A f, g \in frames' : f = g
      /\ \A f \in frames' :
            /\ f.at # "report" /\ f.call = active /\ f.sig = r
            /\ f.root \in {None, r}
            /\ f.at \in {"confirm", "editor", "inline"} => f.root = None
  BY DEF Local, LocalFrames
<1>6. OneUnsettled'
  BY <1>1, <1>2, <1>3, ElementsEmpty DEF SerialInv, OneUnsettled
<1>7. ChainInv'
  <2>1. \A q \in Requests : Settled(q)' <=> Settled(q) BY <1>2 DEF Settled
  <2>2. \A job \in Elements(jobs) : job.sig \in Requests BY JobFields
  <2> QED BY <1>4, <1>5, <2>1, <2>2 DEF Local, SerialInv, ChainInv
<1>8. ControlInv'
  BY <1>2, <1>3, <1>4, <1>5 DEF ControlInv, Going
<1>9. MethodInv'
  <2>1. \/ Stepping' /\ Me'.fn \in {"attempt", "cancelAll", "check"}
        \/ (~Running("process") /\ ~Running("attempt") /\ ~Running("cancelAll")
            /\ ~Running("check"))'
    BY <1>4 DEF Stepping, Running, Me
  <2>2. ~Running("process")' BY <2>1 DEF Running, Me
  <2> QED BY <1>1, <1>2, <2>2 DEF MethodInv, ActiveFits, Busy
<1>10. AwaitInv'
  <2>1. \A c \in Calls : c # active =>
           status'[c] \notin {"scheduled", "awaiting_approval", "executing"}
    BY <1>2 DEF SerialInv, AwaitInv
  <2>2. \A f \in frames' : f.call = active BY <1>5
  <2> QED BY <1>1, <1>2, <2>1, <2>2 DEF AwaitInv, ActiveFits
<1>11. FinalizingInv' BY <1>1, <1>2, <1>5 DEF FinalizingInv
<1>12. BatchInv'
  <2>1. PlacesOf(r)'
    <3>1. PlacesOf(r) /\ ~Closing
      BY DEF SerialInv, BatchInv, Local, Closing
    <3>2. InTurn(r) BY <3>1 DEF PlacesOf
    <3>3. queue' = queue /\ completed' = completed /\ active' = active BY <1>2
    <3>4. InTurn(r)' BY <3>2, <3>3 DEF InTurn
    <3> QED BY <1>2, <3>1, <3>4 DEF PlacesOf
  <2>2. \A q \in Requests : Going(q)' => q = r BY <1>1, <1>2 DEF Going
  <2>3. BatchOfOneRequest'
    <3>1. \A i \in DOMAIN completed : ran'[completed[i]] = ran[completed[i]]
      <4>1. completed \in Seq(Calls) BY DEF TypeOK
      <4>2. \A i \in DOMAIN completed :
               completed[i] \in Calls /\ completed[i] # active
        BY <1>1, <4>1 DEF Elements
      <4> QED BY <1>2, <4>2
    <3>2. completed' = completed BY <1>2
    <3>3. BatchOfOneRequest BY DEF SerialInv, BatchInv
    <3> QED BY <3>1, <3>2, <3>3, BatchSame
  <2> QED BY <1>2, <1>3, <2>1, <2>2, <2>3 DEF SerialInv, BatchInv, Elements
<1>13. RanInv'
  <2>1. RanMoves /\ AuditMoves BY DEF Local
  <2>2. /\ status'[active] \in {"new", "validating", "scheduled",
                                "awaiting_approval"} => ran'[active] = <<>>
        /\ active \notin Elements(queue)'
    BY <1>1, <1>2, <2>1 DEF RanMoves
  <2>3. ASSUME NEW c \in Calls
        PROVE  \/ status'[c] \in {"new", "validating", "scheduled",
                                  "awaiting_approval"}
               \/ c \in Elements(queue)'
               => ran'[c] = <<>>
    BY <1>2, <2>2 DEF SerialInv, RanInv, Elements
  <2>4. \A c \in Calls :
           prompt'[c].sig # None => c \in Elements(CallsOf[prompt'[c].sig])
    BY <1>1 DEF SerialInv, RanInv, Local
  <2>5. RunsOnce' BY <1>2, <2>1 DEF SerialInv, RanInv, RunsOnce, RanMoves
  <2>6. RunsGrantedArgs'
    BY <1>2, <2>1 DEF SerialInv, RanInv, RunsGrantedArgs, RanMoves
  <2>7. OutcomeAudited'
    <3> SUFFICES ASSUME NEW q \in Requests, q \notin aborted,
                        NEW c \in Elements(CallsOf[q]),
                        "execution_started" \in trail'[c], ~Executing(c)'
                 PROVE  trail'[c] \cap
                           {"execution_finished", "execution_failed"} # {}
      BY <1>2 DEF OutcomeAudited, Executing
    <3>1. c \in Calls /\ \A p \in aborted : c \notin Elements(CallsOf[p])
      BY CallsOfType DEF TypeOK
    <3>2. CASE "execution_started" \in trail[c] /\ ~Executing(c)
      BY <2>1, <3>1, <3>2
         DEF SerialInv, RanInv, OutcomeAudited, Executing, AuditMoves
    <3> QED BY <2>1, <3>1, <3>2 DEF AuditMoves
  <2>8. ReportedOnce' BY <1>2 DEF SerialInv, RanInv, ReportedOnce
  <2> QED BY <2>3, <2>4, <2>5, <2>6, <2>7, <2>8 DEF RanInv
<1> QED BY <1>6, <1>7, <1>8, <1>9, <1>10, <1>11, <1>12, <1>13 DEF SerialInv

\* What holds when function f, which does not report, is resumed.
LEMMA Resumed ==
    ASSUME TypeOK, IInv, SerialInv, Idle, NEW f \in frames, f.at # "report"
    PROVE  /\ f.sig \in Requests /\ Going(f.sig) /\ active # None
           /\ f.call = active /\ frames \ {f} = {} /\ f.root \in {None, f.sig}
           /\ active \in Calls /\ active \in Elements(CallsOf[f.sig])
           /\ f.at \in {"validate", "notify"} => status[active] = "validating"
           /\ f.at \in {"confirm", "editor", "inline"} =>
                 /\ f.root = None /\ status[active] = "awaiting_approval"
                 /\ f.ver = args[active]
           /\ f.at = "exec" => status[active] = "executing"
           /\ isScheduling => f.root # None
           /\ \A fn : ~Running(fn)
<1>1. f.sig \in Requests /\ f.call \in Calls
  BY FrameFields, FrameCall DEF IInv
<1>2. /\ Going(f.sig) /\ f.call = active /\ frames \ {f} = {}
  BY DEF SerialInv, ControlInv
<1>3. active # None BY <1>1, <1>2, SchedulerAssumption
<1>4. Elements(jobs) = {} BY ElementsEmpty DEF Idle
<1>5. /\ f.root \in {None, f.sig}
      /\ f.at \in {"confirm", "editor", "inline"} => f.root = None
      /\ isScheduling => f.root # None
  BY <1>2, <1>4 DEF SerialInv, ChainInv
<1>6. \A fn : ~Running(fn) BY DEF Idle, Running
<1> QED BY <1>1, <1>2, <1>3, <1>5, <1>6, GoingOnly DEF SerialInv, AwaitInv

\* Function f ends and starts method fn for its call.
Starts(f, fn) ==
    /\ Idle /\ f.at # "report"
    /\ frames' = frames \ {f}
    /\ Start(Run(fn, f.sig, f.root))
    /\ UNCHANGED <<active, queue, completed, requestQueue, isFinalizingToolCalls,
                   isScheduling, isCancelling, aborted, promise, ran, reports>>

\* What its step does to the call: its status fits what is started ...
StatusFits(f, fn) ==
    /\ \A c \in Calls : c # f.call => status'[c] = status[c]
    /\ fn = "attempt" =>
          status'[f.call] \in {"scheduled", "awaiting_approval", "error"}
    /\ fn = "cancelAll" => status'[f.call] = "awaiting_approval"
    /\ fn = "check" => status'[f.call] \in Terminal
    /\ status'[f.call] = "scheduled" => args'[f.call] \in granted'[f.call]
    /\ f.at = "exec" => status'[f.call] \in Terminal

\* ... and its grants and its trail grow.
RecordGrows(f) ==
    /\ \A c \in Calls : granted[c] \subseteq granted'[c]
    /\ \A c \in Calls :
          /\ trail[c] \subseteq trail'[c]
          /\ "execution_started" \in trail'[c] \ trail[c] => FALSE
    /\ f.at = "exec" =>
          \/ f.sig \in aborted
          \/ trail'[f.call] \cap {"execution_finished", "execution_failed"} # {}

\* The handlers that start a method for their call keep the invariant.
LEMMA StartsKeeps ==
    ASSUME TypeOK, TypeOK', IInv, IInv', SerialInv, NEW f \in frames,
           NEW fn \in {"attempt", "cancelAll", "check"},
           Starts(f, fn), fn = "cancelAll" => f.root = None,
           StatusFits(f, fn), RecordGrows(f),
           \A c \in Calls : \/ prompt'[c] = prompt[c]
                            \/ c = f.call /\ prompt'[c].sig = f.sig
    PROVE  SerialInv'
<1> USE SchedulerAssumption
<1>1. /\ f.sig \in Requests /\ Going(f.sig) /\ active # None
      /\ f.call = active /\ frames \ {f} = {} /\ f.root \in {None, f.sig}
      /\ active \in Calls /\ active \in Elements(CallsOf[f.sig])
      /\ f.at \in {"validate", "notify"} => status[active] = "validating"
      /\ f.at \in {"confirm", "editor", "inline"} =>
            status[active] = "awaiting_approval"
      /\ isScheduling => f.root # None
      /\ ~Running("check")
  BY Resumed DEF Starts
<1> DEFINE job == Run(fn, f.sig, f.root)
<1>2. /\ job \in Job /\ job.fn = fn /\ job.sig = f.sig /\ job.root = f.root
  BY <1>1, RunType, RunFields
<1>3. /\ jobs = <<>> /\ jobs' = <<job>> /\ frames' = {}
      /\ UNCHANGED <<active, queue, completed, requestQueue,
                     isFinalizingToolCalls, isScheduling, isCancelling, aborted,
                     promise, ran, reports>>
  BY <1>1 DEF Starts, Start, Idle
<1> HIDE DEF job
<1>4. jobs' # <<>> /\ Head(jobs)' = job /\ Elements(jobs)' = {job}
  BY <1>3, ElementsOne
<1>5. \A x : Running(x)' <=> x = fn BY <1>2, <1>4 DEF Running
<1>6. status[active] \in {"validating", "awaiting_approval", "executing"}
      /\ (f.at # "exec" => status[active] # "executing")
  BY <1>1, Resumed DEF Starts, TypeOK, Frame
<1>7. \A c \in Calls : status'[c] = "new" <=> status[c] = "new"
  BY <1>1, <1>6 DEF StatusFits, Terminal
<1>8. \A q \in Requests : Unsettled(q)' <=> Unsettled(q)
  BY <1>3, <1>7, RequestsSame
<1>9. LocalJobs(f.sig) /\ LocalFrames(f.sig)
  BY <1>1, <1>2, <1>3 DEF LocalJobs, LocalFrames
<1>10. ActiveFits'
  BY <1>1, <1>3, <1>5 DEF ActiveFits, StatusFits, Terminal
<1>11. AuditMoves
  <2>1. ASSUME NEW c \in Calls, Executing(c) PROVE f.at = "exec" /\ c = f.call
    BY <1>1, <2>1 DEF Executing
  <2> QED BY <1>1, <2>1 DEF RecordGrows, AuditMoves
<1>12. RanMoves
  <2>1. ran'[active] = ran[active] /\ Len(ran[active]) <= 1
        /\ \A i \in 1..Len(ran[active]) : ran[active][i] \in granted[active]
    BY <1>1, <1>3 DEF SerialInv, RanInv, RunsOnce, RunsGrantedArgs
  <2>2. f.at # "exec" => ran[active] = <<>>
    BY <1>1, <1>6 DEF SerialInv, RanInv
  <2> QED BY <1>1, <2>1, <2>2 DEF RanMoves, RecordGrows, StatusFits, Terminal
<1>13. Local(f.sig)
  BY <1>1, <1>2, <1>3, <1>4, <1>8, <1>9, <1>10, <1>11, <1>12 DEF Local, StatusFits
<1> QED BY <1>1, <1>13, LocalKeeps

\* The handlers of what the active call awaits, but for those that await again or
\* give up.
LEMMA ResumeKeeps ==
    ASSUME TypeOK, TypeOK', IInv, IInv', SerialInv, NEW f \in frames
    PROVE  /\ ValidateFree(f) \/ ValidateThrows(f) \/ HookDone(f) => SerialInv'
           /\ \A pin \in BOOLEAN : ValidatePrompt(f, pin) => SerialInv'
           /\ ConfirmThrows(f) \/ ConfirmCancel(f) \/ ConfirmProceed(f) => SerialInv'
           /\ EditorDone(f) \/ InlineDone(f) \/ ModifyInvalid(f) => SerialInv'
           /\ \A result \in {"success", "saved", "failure", "throw"} :
                 ExecDone(f, result) => SerialInv'
<1>0. ASSUME Idle, f.at # "report"
      PROVE  /\ f.call = active /\ active \in Calls
             /\ f.at \in {"validate", "notify"} => status[active] = "validating"
             /\ f.at \in {"confirm", "editor", "inline"} =>
                   /\ f.root = None /\ status[active] = "awaiting_approval"
                   /\ f.ver = args[active]
             /\ f.at = "exec" => status[active] = "executing"
  BY <1>0, Resumed
<1>1. ASSUME ValidateFree(f) PROVE SerialInv'
  <2>1. Idle /\ f.at = "validate" BY <1>1 DEF ValidateFree
  <2>2. Starts(f, "attempt")
    BY <1>1, <1>0, <2>1 DEF ValidateFree, Starts
  <2>a. \A c \in Calls : c # f.call => status'[c] = status[c]
    BY <1>1, <1>0, <2>1, WithStatusAt DEF ValidateFree
  <2>b. status'[f.call] = "scheduled"
    BY <1>1, <1>0, <2>1, WithStatusAt DEF ValidateFree, Terminal
  <2>c. args'[f.call] \in granted'[f.call]
    BY <1>1, <1>0, <2>1, SchedulerAssumption DEF ValidateFree, Settable, Terminal, TypeOK
  <2>3. StatusFits(f, "attempt")
    BY <1>0, <2>1, <2>a, <2>b, <2>c DEF StatusFits, Terminal
  <2>4. RecordGrows(f)
    BY <1>1, <1>0, <2>1 DEF ValidateFree, RecordGrows, TypeOK, Audit
  <2>5. \A c \in Calls : \/ prompt'[c] = prompt[c]
                         \/ c = f.call /\ prompt'[c].sig = f.sig
    BY <1>1, <1>0, <2>1 DEF ValidateFree, TypeOK
  <2> QED BY <2>1, <2>2, <2>3, <2>4, <2>5, StartsKeeps
<1>2. ASSUME ValidateThrows(f) PROVE SerialInv'
  <2>1. Idle /\ f.at = "validate" BY <1>2 DEF ValidateThrows
  <2>2. Starts(f, "check")
    BY <1>2, <1>0, <2>1 DEF ValidateThrows, Starts
  <2>a. \A c \in Calls : c # f.call => status'[c] = status[c]
    BY <1>2, <1>0, <2>1, WithStatusAt DEF ValidateThrows
  <2>b. status'[f.call] = IF f.sig \in aborted THEN "cancelled" ELSE "error"
    BY <1>2, <1>0, <2>1, WithStatusAt DEF ValidateThrows, Terminal
  <2>3. StatusFits(f, "check")
    BY <1>0, <2>1, <2>a, <2>b DEF StatusFits, Terminal, ValidateThrows
  <2>4. RecordGrows(f)
    BY <1>2, <1>0, <2>1 DEF ValidateThrows, RecordGrows, TypeOK
  <2>5. \A c \in Calls : \/ prompt'[c] = prompt[c]
                         \/ c = f.call /\ prompt'[c].sig = f.sig
    BY <1>2, <1>0, <2>1 DEF ValidateThrows, TypeOK
  <2> QED BY <2>1, <2>2, <2>3, <2>4, <2>5, StartsKeeps
<1>3. ASSUME NEW pin \in BOOLEAN, ValidatePrompt(f, pin) PROVE SerialInv'
  <2>1. Idle /\ f.at = "validate" BY <1>3 DEF ValidatePrompt
  <2>2. Starts(f, "attempt")
    BY <1>3, <1>0, <2>1 DEF ValidatePrompt, Starts, ShowPrompt
  <2>a. \A c \in Calls : c # f.call => status'[c] = status[c]
    BY <1>3, <1>0, <2>1, WithStatusAt DEF ValidatePrompt, ShowPrompt
  <2>b. status'[f.call] = "awaiting_approval"
    BY <1>3, <1>0, <2>1, WithStatusAt DEF ValidatePrompt, Terminal, ShowPrompt
  <2>3. StatusFits(f, "attempt")
    BY <1>0, <2>1, <2>a, <2>b DEF StatusFits, Terminal
  <2>4. RecordGrows(f)
    BY <1>3, <1>0, <2>1 DEF ValidatePrompt, RecordGrows, TypeOK, ShowPrompt, Audit
  <2>5. \A c \in Calls : \/ prompt'[c] = prompt[c]
                         \/ c = f.call /\ prompt'[c].sig = f.sig
    BY <1>3, <1>0, <2>1 DEF ValidatePrompt, TypeOK, ShowPrompt
  <2> QED BY <2>1, <2>2, <2>3, <2>4, <2>5, StartsKeeps
<1>4. ASSUME HookDone(f) PROVE SerialInv'
  <2>1. Idle /\ f.at = "notify" BY <1>4 DEF HookDone
  <2>2. Starts(f, "attempt")
    BY <1>4, <1>0, <2>1 DEF HookDone, Starts, ShowPrompt
  <2>a. \A c \in Calls : c # f.call => status'[c] = status[c]
    BY <1>4, <1>0, <2>1, WithStatusAt DEF HookDone, ShowPrompt
  <2>b. status'[f.call] = "awaiting_approval"
    BY <1>4, <1>0, <2>1, WithStatusAt DEF HookDone, Terminal, ShowPrompt
  <2>3. StatusFits(f, "attempt")
    BY <1>0, <2>1, <2>a, <2>b DEF StatusFits, Terminal
  <2>4. RecordGrows(f)
    BY <1>4, <1>0, <2>1 DEF HookDone, RecordGrows, TypeOK, ShowPrompt, Audit
  <2>5. \A c \in Calls : \/ prompt'[c] = prompt[c]
                         \/ c = f.call /\ prompt'[c].sig = f.sig
    BY <1>4, <1>0, <2>1 DEF HookDone, TypeOK, ShowPrompt
  <2> QED BY <2>1, <2>2, <2>3, <2>4, <2>5, StartsKeeps
<1>5. ASSUME ConfirmThrows(f) PROVE SerialInv'
  <2>1. Idle /\ f.at = "confirm" BY <1>5 DEF ConfirmThrows
  <2>2. Starts(f, "check")
    BY <1>5, <1>0, <2>1 DEF ConfirmThrows, Starts
  <2>a. \A c \in Calls : c # f.call => status'[c] = status[c]
    BY <1>5, <1>0, <2>1, WithStatusAt DEF ConfirmThrows
  <2>b. status'[f.call] = "error"
    BY <1>5, <1>0, <2>1, WithStatusAt DEF ConfirmThrows, Terminal
  <2>3. StatusFits(f, "check")
    BY <1>0, <2>1, <2>a, <2>b DEF StatusFits, Terminal
  <2>4. RecordGrows(f)
    BY <1>5, <1>0, <2>1 DEF ConfirmThrows, RecordGrows, TypeOK
  <2>5. \A c \in Calls : \/ prompt'[c] = prompt[c]
                         \/ c = f.call /\ prompt'[c].sig = f.sig
    BY <1>5, <1>0, <2>1 DEF ConfirmThrows, TypeOK
  <2> QED BY <2>1, <2>2, <2>3, <2>4, <2>5, StartsKeeps
<1>6. ASSUME ConfirmCancel(f) PROVE SerialInv'
  <2>1. Idle /\ f.at = "confirm" BY <1>6 DEF ConfirmCancel, Confirmed
  <2>2. Starts(f, "cancelAll")
    BY <1>6, <1>0, <2>1 DEF ConfirmCancel, Starts, Confirmed
  <2>3. StatusFits(f, "cancelAll")
    BY <1>6, <1>0, <2>1, WithStatusAt
       DEF ConfirmCancel, StatusFits, Terminal, TypeOK, Confirmed
  <2>4. RecordGrows(f)
    BY <1>6, <1>0, <2>1 DEF ConfirmCancel, RecordGrows, TypeOK, Confirmed
  <2>5. \A c \in Calls : \/ prompt'[c] = prompt[c]
                         \/ c = f.call /\ prompt'[c].sig = f.sig
    BY <1>6, <1>0, <2>1 DEF ConfirmCancel, TypeOK
  <2> QED BY <1>0, <1>6, <2>1, <2>2, <2>3, <2>4, <2>5, StartsKeeps DEF ConfirmCancel, Confirmed
<1>7. ASSUME ConfirmProceed(f) PROVE SerialInv'
  <2>1. Idle /\ f.at = "confirm" BY <1>7 DEF ConfirmProceed, Confirmed
  <2>2. Starts(f, "attempt")
    BY <1>7, <1>0, <2>1 DEF ConfirmProceed, Starts, Confirmed
  <2>a. \A c \in Calls : c # f.call => status'[c] = status[c]
    BY <1>7, <1>0, <2>1, WithStatusAt DEF ConfirmProceed
  <2>b. status'[f.call] = "scheduled"
    BY <1>7, <1>0, <2>1, WithStatusAt DEF ConfirmProceed, Terminal
  <2>c. args'[f.call] \in granted'[f.call]
    BY <1>7, <1>0, <2>1, SchedulerAssumption DEF ConfirmProceed, Settable, Terminal, TypeOK
  <2>3. StatusFits(f, "attempt")
    BY <1>0, <2>1, <2>a, <2>b, <2>c DEF StatusFits, Terminal
  <2>4. RecordGrows(f)
    BY <1>7, <1>0, <2>1 DEF ConfirmProceed, RecordGrows, TypeOK, Confirmed
  <2>5. \A c \in Calls : \/ prompt'[c] = prompt[c]
                         \/ c = f.call /\ prompt'[c].sig = f.sig
    BY <1>7, <1>0, <2>1 DEF ConfirmProceed, TypeOK
  <2> QED BY <2>1, <2>2, <2>3, <2>4, <2>5, StartsKeeps
<1>8. ASSUME EditorDone(f) PROVE SerialInv'
  <2>1. Idle /\ f.at = "editor" BY <1>8 DEF EditorDone
  <2>2. Starts(f, "attempt")
    BY <1>8, <1>0, <2>1 DEF EditorDone, Starts
  <2>a. \A c \in Calls : c # f.call => status'[c] = status[c]
    BY <1>8, <1>0, <2>1, WithStatusAt DEF EditorDone
  <2>b. status'[f.call] = "awaiting_approval"
    BY <1>8, <1>0, <2>1, WithStatusAt DEF EditorDone, Terminal
  <2>3. StatusFits(f, "attempt")
    BY <1>0, <2>1, <2>a, <2>b DEF StatusFits, Terminal
  <2>4. RecordGrows(f)
    BY <1>8, <1>0, <2>1 DEF EditorDone, RecordGrows, TypeOK
  <2>5. \A c \in Calls : \/ prompt'[c] = prompt[c]
                         \/ c = f.call /\ prompt'[c].sig = f.sig
    BY <1>8, <1>0, <2>1 DEF EditorDone, TypeOK
  <2> QED BY <2>1, <2>2, <2>3, <2>4, <2>5, StartsKeeps
<1>9. ASSUME InlineDone(f) PROVE SerialInv'
  <2>1. Idle /\ f.at = "inline" BY <1>9 DEF InlineDone
  <2>2. Starts(f, "attempt")
    BY <1>9, <1>0, <2>1 DEF InlineDone, Starts
  <2>a. \A c \in Calls : c # f.call => status'[c] = status[c]
    BY <1>9, <1>0, <2>1, WithStatusAt DEF InlineDone
  <2>b. status'[f.call] = "scheduled"
    BY <1>9, <1>0, <2>1, WithStatusAt DEF InlineDone, Terminal
  <2>c. args'[f.call] \in granted'[f.call]
    BY <1>9, <1>0, <2>1, SchedulerAssumption DEF InlineDone, Settable, Terminal, TypeOK
  <2>3. StatusFits(f, "attempt")
    BY <1>0, <2>1, <2>a, <2>b, <2>c DEF StatusFits, Terminal
  <2>4. RecordGrows(f)
    BY <1>9, <1>0, <2>1 DEF InlineDone, RecordGrows, TypeOK
  <2>5. \A c \in Calls : \/ prompt'[c] = prompt[c]
                         \/ c = f.call /\ prompt'[c].sig = f.sig
    BY <1>9, <1>0, <2>1 DEF InlineDone, TypeOK
  <2> QED BY <2>1, <2>2, <2>3, <2>4, <2>5, StartsKeeps
<1>10. ASSUME ModifyInvalid(f) PROVE SerialInv'
  <2>1. Idle /\ f.at \in {"editor", "inline"} BY <1>10 DEF ModifyInvalid
  <2>2. Starts(f, "attempt")
    BY <1>10, <1>0, <2>1 DEF ModifyInvalid, Starts
  <2>a. \A c \in Calls : c # f.call => status'[c] = status[c]
    BY <1>10, <1>0, <2>1, WithStatusAt DEF ModifyInvalid
  <2>b. status'[f.call] = "error"
    BY <1>10, <1>0, <2>1 DEF ModifyInvalid, TypeOK
  <2>3. StatusFits(f, "attempt")
    BY <1>0, <2>1, <2>a, <2>b DEF StatusFits, Terminal
  <2>4. RecordGrows(f)
    BY <1>10, <1>0, <2>1 DEF ModifyInvalid, RecordGrows, TypeOK
  <2>5. \A c \in Calls : \/ prompt'[c] = prompt[c]
                         \/ c = f.call /\ prompt'[c].sig = f.sig
    BY <1>10, <1>0, <2>1 DEF ModifyInvalid, TypeOK
  <2> QED BY <2>1, <2>2, <2>3, <2>4, <2>5, StartsKeeps
<1>11. ASSUME NEW result \in {"success", "saved", "failure", "throw"}, ExecDone(f, result) PROVE SerialInv'
  <2>1. Idle /\ f.at = "exec" BY <1>11 DEF ExecDone
  <2>2. Starts(f, "check")
    BY <1>11, <1>0, <2>1 DEF ExecDone, Starts
  <2>3. StatusFits(f, "check")
    BY <1>11, <1>0, <2>1, WithStatusAt
       DEF ExecDone, StatusFits, Terminal, TypeOK
  <2>6. trail \in [Calls -> SUBSET Events] BY DEF TypeOK
  <2>7. \/ trail' = trail /\ f.sig \in aborted
        \/ trail' = [trail EXCEPT ![active] = @ \cup {"execution_finished"}]
        \/ trail' = [trail EXCEPT ![active] = @ \cup {"execution_failed"}]
    BY <1>11, <1>0, <2>1 DEF ExecDone, Audit
  <2>8. granted' = granted BY <1>11 DEF ExecDone
  <2>4. RecordGrows(f) BY <1>0, <2>1, <2>6, <2>7, <2>8 DEF RecordGrows
  <2>5. \A c \in Calls : \/ prompt'[c] = prompt[c]
                         \/ c = f.call /\ prompt'[c].sig = f.sig
    BY <1>11, <1>0, <2>1 DEF ExecDone, TypeOK
  <2> QED BY <2>1, <2>2, <2>3, <2>4, <2>5, StartsKeeps
<1> QED BY <1>1, <1>2, <1>3, <1>4, <1>5, <1>6, <1>7, <1>8, <1>9, <1>10, <1>11

\* The handlers that await again, or give up, leave the call as it is.
LEMMA AwaitsKeeps ==
    ASSUME TypeOK, TypeOK', IInv, IInv', SerialInv,
           NEW r \in Requests, Going(r), active # None, Idle,
           status[active] \in {"validating", "awaiting_approval"},
           UNCHANGED <<active, queue, completed, requestQueue, jobs, args,
                       isFinalizingToolCalls, isScheduling, isCancelling, aborted,
                       prompt, promise, granted, ran, reports>>,
           \A c \in Calls : status'[c] = status[c],
           \A f \in frames : f.at # "exec",
           LocalFrames(r),
           \A f \in frames' :
               /\ f.at \in {"notify", "confirm", "editor", "inline"}
               /\ f.at = "notify" => status[active] = "validating"
               /\ f.at # "notify" =>
                     status[active] = "awaiting_approval" /\ f.ver = args[active],
           isScheduling => \E f \in frames' : f.root # None,
           \A c \in Calls : /\ trail[c] \subseteq trail'[c]
                            /\ "execution_started" \in trail'[c] \ trail[c] => FALSE
    PROVE  SerialInv'
<1>1. active \in Calls /\ (\A fn : ~Running(fn) /\ ~Running(fn)')
  BY GoingOnly DEF Idle, Running
<1>2. \A q \in Requests : Unsettled(q)' <=> Unsettled(q) BY RequestsSame
<1>3. LocalJobs(r) BY DEF LocalJobs, Idle
<1>4. ActiveFits' BY <1>1 DEF ActiveFits
<1>5. AuditMoves BY DEF AuditMoves, Executing
<1>6. RanMoves
  <2>1. ran[active] = <<>> BY <1>1 DEF SerialInv, RanInv
  <2>2. ran'[active] = <<>> BY <2>1
  <2>3. Len(ran'[active]) <= 1
        /\ \A i \in 1..Len(ran'[active]) : ran'[active][i] \in granted'[active]
    BY <2>2
  <2> QED BY <2>2, <2>3 DEF RanMoves
<1>7. Local(r) BY <1>1, <1>2, <1>3, <1>4, <1>5, <1>6 DEF Local
<1> QED BY <1>7, LocalKeeps

\* What is suspended when nothing else is.
LEMMA SuspendOne ==
    ASSUME NEW rest, rest = {}, NEW at, NEW c, NEW sig, NEW root, NEW out, NEW ver,
           Suspend(rest, at, c, sig, root, out, ver)
    PROVE  \E n \in 0..MaxTwins :
              frames' = {Suspended(at, c, sig, root, out, ver, n)}
  BY DEF Suspend

\* An answer comes to the active call, which waits for it and for nothing else.
LEMMA Answered ==
    ASSUME TypeOK, IInv, SerialInv, OneAtATime, NEW c \in Calls, NEW o,
           CanAnswer(c, o)
    PROVE  /\ Waiting(c) /\ active # None /\ frames = {} /\ ~isScheduling
           /\ prompt[c].sig \in Requests /\ Going(prompt[c].sig)
<1>1. /\ Idle /\ active = c /\ status[c] = "awaiting_approval" /\ ~Answering(c)
      /\ prompt[c].sig # None
  BY DEF OneAtATime, CanAnswer, Waiting, Prompted
<1>2. active # None BY <1>1, SchedulerAssumption
<1>3. prompt[c].sig \in Requests BY <1>1 DEF TypeOK
<1>4. PICK r \in Requests : Going(r) BY <1>2 DEF SerialInv, BatchInv
<1>5. r = prompt[c].sig
  BY <1>1, <1>2, <1>3, <1>4, GoingOnly, CallsOfType DEF SerialInv, RanInv
<1>6. frames = {}
  <2> SUFFICES ASSUME NEW f \in frames PROVE FALSE OBVIOUS
  <2>1. f.at # "report" BY <1>2 DEF SerialInv, FinalizingInv
  <2>2. f.call = c BY <1>1, <2>1 DEF SerialInv, ControlInv
  <2>3. f.at \notin {"validate", "notify", "exec"}
    BY <1>1, <2>2 DEF SerialInv, AwaitInv
  <2>4. f.at \in {"confirm", "editor", "inline"}
    BY <2>1, <2>3 DEF TypeOK, Frame
  <2> QED BY <1>1, <2>2, <2>4 DEF Answering
<1>7. ~isScheduling
  BY <1>1, <1>6, ElementsEmpty DEF Idle, SerialInv, ChainInv
<1> QED BY <1>1, <1>2, <1>3, <1>4, <1>5, <1>6, <1>7 DEF Waiting

LEMMA AwaitingHandlers ==
    ASSUME TypeOK, TypeOK', IInv, IInv', SerialInv, NEW f \in frames
    PROVE  /\ \A pin \in BOOLEAN : ValidateHook(f, pin) => SerialInv'
           /\ ConfirmModify(f) \/ EditorFails(f) => SerialInv'
<1>0. ASSUME Idle, f.at # "report"
      PROVE  /\ f.sig \in Requests /\ Going(f.sig) /\ active # None
             /\ f.call = active /\ frames \ {f} = {} /\ f.root \in {None, f.sig}
             /\ active \in Calls
             /\ f.at = "validate" => status[active] = "validating"
             /\ f.at \in {"confirm", "editor", "inline"} =>
                   /\ f.root = None /\ status[active] = "awaiting_approval"
                   /\ f.ver = args[active]
             /\ isScheduling => f.root # None
             /\ f.at # "exec" => \A g \in frames : g.at # "exec"
  BY <1>0, Resumed
<1>1. ASSUME NEW pin \in BOOLEAN, ValidateHook(f, pin) PROVE SerialInv'
  <2>1. Idle /\ f.at = "validate" BY <1>1 DEF ValidateHook
  <2>2. PICK n \in 0..MaxTwins :
           frames' = {Suspended("notify", f.call, f.sig, f.root, None,
                                IF pin THEN 1 ELSE 0, n)}
    BY <1>0, <1>1, <2>1, SuspendOne DEF ValidateHook
  <2> DEFINE g == Suspended("notify", f.call, f.sig, f.root, None,
                            IF pin THEN 1 ELSE 0, n)
  <2>3. /\ g.at = "notify" /\ g.call = active /\ g.sig = f.sig /\ g.root = f.root
        /\ frames' = {g}
    BY <1>0, <2>1, <2>2 DEF Suspended
  <2>4. g \in Frame BY <2>3 DEF TypeOK
  <2> HIDE DEF g
  <2>5. LocalFrames(f.sig) BY <1>0, <2>1, <2>3, <2>4 DEF LocalFrames
  <2>6. UNCHANGED <<active, queue, completed, requestQueue, jobs, args,
                    isFinalizingToolCalls, isScheduling, isCancelling, aborted,
                    prompt, promise, granted, ran, reports, status, trail>>
    BY <1>1 DEF ValidateHook
  <2> QED BY <1>0, <2>1, <2>3, <2>5, <2>6, AwaitsKeeps
<1>2. ASSUME ConfirmModify(f) PROVE SerialInv'
  <2>1. Idle /\ f.at = "confirm" BY <1>2 DEF ConfirmModify, Confirmed
  <2>2. PICK n \in 0..MaxTwins :
           frames' = {Suspended(f.out, f.call, f.sig, None, f.out, f.ver, n)}
    BY <1>0, <1>2, <2>1, SuspendOne DEF ConfirmModify
  <2> DEFINE g == Suspended(f.out, f.call, f.sig, None, f.out, f.ver, n)
  <2>3. /\ g.at \in {"inline", "editor"} /\ g.call = active /\ g.sig = f.sig
        /\ g.root = None /\ g.ver = f.ver /\ frames' = {g}
    BY <1>0, <1>2, <2>1, <2>2 DEF Suspended, ConfirmModify
  <2>4. g \in Frame BY <2>3 DEF TypeOK
  <2> HIDE DEF g
  <2>5. LocalFrames(f.sig) BY <1>0, <2>1, <2>3, <2>4 DEF LocalFrames
  <2>6. UNCHANGED <<active, queue, completed, requestQueue, jobs, args,
                    isFinalizingToolCalls, isScheduling, isCancelling, aborted,
                    prompt, promise, granted, ran, reports>>
    BY <1>2 DEF ConfirmModify
  <2>7. \A c \in Calls : status'[c] = status[c]
    BY <1>0, <1>2, <2>1, WithStatusAt DEF ConfirmModify
  <2>8. \A c \in Calls : /\ trail[c] \subseteq trail'[c]
                         /\ "execution_started" \in trail'[c] \ trail[c] => FALSE
    BY <1>0, <1>2, <2>1 DEF ConfirmModify, Confirmed, TypeOK
  <2>9. ~isScheduling BY <1>0, <2>1
  <2> QED BY <1>0, <2>1, <2>3, <2>5, <2>6, <2>7, <2>8, <2>9, AwaitsKeeps
<1>3. ASSUME EditorFails(f) PROVE SerialInv'
  <2>1. Idle /\ f.at \in {"editor", "inline"} BY <1>3 DEF EditorFails
  <2>2. frames' = {} BY <1>0, <1>3, <2>1 DEF EditorFails
  <2>3. UNCHANGED <<active, queue, completed, requestQueue, jobs, args,
                    isFinalizingToolCalls, isScheduling, isCancelling, aborted,
                    prompt, promise, granted, ran, reports, status, trail>>
    BY <1>3 DEF EditorFails
  <2>4. LocalFrames(f.sig) BY <2>2 DEF LocalFrames
  <2>5. ~isScheduling BY <1>0, <2>1
  <2> QED BY <1>0, <2>1, <2>2, <2>3, <2>4, <2>5, AwaitsKeeps
<1> QED BY <1>1, <1>2, <1>3

\* An answer.
LEMMA AnswerKeeps ==
    ASSUME TypeOK, TypeOK', IInv, IInv', SerialInv, OneAtATime,
           NEW c \in Calls, Answer(c)
    PROVE  SerialInv'
<1> USE SchedulerAssumption
<1>1. PICK o \in Outcomes :
         Respond(c, o) \/ RespondBadPin(c, o) \/ RespondLate(c, o)
  BY DEF Answer
<1>2. CanAnswer(c, o) BY <1>1 DEF Respond, RespondBadPin, RespondLate
<1> DEFINE r == prompt[c].sig
<1>3. /\ active = c /\ status[c] = "awaiting_approval" /\ active # None
      /\ frames = {} /\ ~isScheduling
      /\ r \in Requests /\ Going(r) /\ Idle /\ jobs = <<>> /\ Waiting(c)
  BY <1>2, Answered DEF Waiting, CanAnswer, Idle
<1> HIDE DEF r
<1>4. CASE Respond(c, o)
  <2>0. Suspend(frames, "confirm", c, r, None, o, args[c])
    BY <1>4 DEF Respond, r
  <2>1. PICK n \in 0..MaxTwins :
           frames' = {Suspended("confirm", c, r, None, o, args[c], n)}
    BY <1>3, <2>0, SuspendOne
  <2> DEFINE g == Suspended("confirm", c, r, None, o, args[c], n)
  <2>2. /\ g.at = "confirm" /\ g.call = active /\ g.sig = r
        /\ g.root = None /\ g.ver = args[active] /\ frames' = {g}
    BY <1>3, <2>1 DEF Suspended
  <2>3. g \in Frame BY <2>2 DEF TypeOK
  <2> HIDE DEF g
  <2>4. LocalFrames(r) BY <1>3, <2>2, <2>3 DEF LocalFrames
  <2>5. UNCHANGED <<active, queue, completed, requestQueue, jobs, args,
                    isFinalizingToolCalls, isScheduling, isCancelling, aborted,
                    prompt, promise, granted, ran, reports, status, trail>>
    BY <1>4 DEF Respond
  <2> QED BY <1>3, <2>2, <2>4, <2>5, AwaitsKeeps
<1>5. CASE RespondBadPin(c, o)
  <2> DEFINE job == Run("check", r, None)
  <2>1. job \in Job /\ job.fn = "check" /\ job.sig = r /\ job.root = None
    BY <1>3, RunType, RunFields
  <2>2. /\ jobs' = <<job>> /\ frames' = {}
        /\ UNCHANGED <<active, queue, completed, requestQueue, args, trail,
                       isFinalizingToolCalls, isScheduling, isCancelling,
                       aborted, prompt, promise, granted, ran, reports>>
    BY <1>3, <1>5 DEF RespondBadPin, Start, r
  <2> HIDE DEF job
  <2>3. jobs' # <<>> /\ Head(jobs)' = job BY <2>2, ElementsOne
  <2>4. \A x : Running(x)' <=> x = "check" BY <2>1, <2>3 DEF Running
  <2>5. /\ \A d \in Calls : d # active => status'[d] = status[d]
        /\ status'[active] = "error"
    BY <1>3, <1>5, WithStatusAt DEF RespondBadPin, Terminal
  <2>6. \A q \in Requests : Unsettled(q)' <=> Unsettled(q)
    BY <1>3, <2>2, <2>5, RequestsSame
  <2>7. LocalJobs(r) /\ LocalFrames(r)
    BY <1>3, <2>1, <2>2 DEF LocalJobs, LocalFrames
  <2>8. ActiveFits' BY <2>2, <2>4, <2>5 DEF ActiveFits, Terminal
  <2>9. AuditMoves BY <1>3, <2>2 DEF AuditMoves, Executing
  <2>10. RanMoves
    BY <1>3, <2>2, <2>5 DEF RanMoves, SerialInv, RanInv, RunsOnce, RunsGrantedArgs
  <2>11. ~Running("check") BY <1>3 DEF Running
  <2>12. Local(r)
    BY <1>3, <2>2, <2>5, <2>6, <2>7, <2>8, <2>9, <2>10, <2>11 DEF Local
  <2> QED BY <1>3, <2>12, LocalKeeps
<1>6. ~RespondLate(c, o) BY <1>3 DEF RespondLate
<1> QED BY <1>1, <1>4, <1>5, <1>6

\* The active call starts, or is not to start.
LEMMA AttemptKeeps ==
    ASSUME TypeOK, TypeOK', IInv, IInv', SerialInv, AttemptStart \/ AttemptNothing
    PROVE  SerialInv'
<1> USE SchedulerAssumption
<1> DEFINE r == Me.sig
<1>1. /\ jobs # <<>> /\ Me.fn = "attempt" /\ Running("attempt")
      /\ jobs' = Tail(jobs)
  BY DEF AttemptStart, AttemptNothing, End, Running, Me
<1>2. /\ r \in Requests /\ Going(r) /\ frames = {} /\ active # None
      /\ Unsettled(r) /\ Me.root \in {None, r}
      /\ status[active] \in {"scheduled", "awaiting_approval", "error"}
  BY <1>1, MeIn DEF SerialInv, ControlInv, Stepping, ChainInv, MethodInv
<1> HIDE DEF r
<1>3. active \in Calls /\ active \in Elements(CallsOf[r]) BY <1>2, GoingOnly
<1>4. /\ ~Running("check") /\ (\A fn : Running(fn)' => fn = "unwind")
      /\ Elements(jobs) = Elements(Tail(jobs)) \cup {Me}
  BY <1>1, MeIn, BehindMe DEF Running, Me
<1>5. LocalJobs(r) BY <1>1 DEF LocalJobs
<1>6. isScheduling => \/ Me.root # None
                      \/ \E job \in Elements(jobs)' : job.root # None
  BY <1>1, <1>2, <1>4 DEF SerialInv, ChainInv
<1>7. CASE AttemptStart
  <2>0. Suspend(frames, "exec", active, r, Me.root, None, args[active])
    BY <1>7 DEF AttemptStart, r
  <2>1. PICK n \in 0..MaxTwins :
           frames' = {Suspended("exec", active, r, Me.root, None, args[active], n)}
    <3>1. frames = {} BY <1>2
    <3> QED BY <2>0, <3>1, SuspendOne
  <2> DEFINE g == Suspended("exec", active, r, Me.root, None, args[active], n)
  <2>2. /\ g.at = "exec" /\ g.call = active /\ g.sig = r
        /\ g.root = Me.root /\ frames' = {g}
    BY <2>1 DEF Suspended
  <2>3. g \in Frame BY <2>2 DEF TypeOK
  <2> HIDE DEF g
  <2>4. LocalFrames(r) BY <1>2, <2>2, <2>3 DEF LocalFrames
  <2>5. /\ UNCHANGED <<active, queue, completed, requestQueue, args,
                       isFinalizingToolCalls, isScheduling, isCancelling, aborted,
                       prompt, promise, granted, reports>>
        /\ status[active] = "scheduled"
    BY <1>7 DEF AttemptStart, CanStart
  <2>6. /\ \A d \in Calls : d # active => status'[d] = status[d]
                                          /\ ran'[d] = ran[d]
        /\ status'[active] = "executing"
        /\ ran'[active] = Append(ran[active], args[active])
    BY <1>3, <1>7 DEF AttemptStart, TypeOK
  <2>7. \A q \in Requests : Unsettled(q)' <=> Unsettled(q)
    <3>1. \A c \in Calls : status'[c] = "new" <=> status[c] = "new"
      BY <2>5, <2>6
    <3>2. UNCHANGED <<promise, reports>> BY <2>5
    <3> QED BY <3>1, <3>2, RequestsSame
  <2>8. Executing(active)' BY <2>2, <2>5 DEF Executing
  <2>9. ActiveFits'
    BY <1>4, <2>2, <2>5, <2>6, <2>8 DEF ActiveFits
  <2>10. AuditMoves
    <3>1. trail' = [trail EXCEPT ![active] = @ \cup {"execution_started"}]
      BY <1>7 DEF AttemptStart, Audit
    <3>2. trail \in [Calls -> SUBSET Events] BY DEF TypeOK
    <3>3. \A c \in Calls : ~Executing(c) BY <1>2 DEF Executing
    <3>4. \A c \in Calls : trail'[c] = IF c = active
                                      THEN trail[c] \cup {"execution_started"}
                                      ELSE trail[c]
      BY <1>3, <3>1, <3>2
    <3> QED BY <2>2, <3>3, <3>4 DEF AuditMoves, Executing
  <2>11. RanMoves
    <3>1. ran[active] = <<>> /\ args[active] \in granted[active]
      BY <1>3, <2>5 DEF SerialInv, RanInv, AwaitInv
    <3>2. ran'[active] = <<args[active]>> BY <2>6, <3>1
    <3>3. Len(ran'[active]) = 1 /\ ran'[active][1] = args[active] BY <3>2
    <3> QED BY <2>5, <2>6, <3>1, <3>3 DEF RanMoves
  <2>12. Local(r)
    BY <1>4, <1>5, <1>6, <2>2, <2>4, <2>5, <2>6, <2>7, <2>9, <2>10, <2>11
       DEF Local
  <2> QED BY <1>2, <2>12, LocalKeeps
<1>8. CASE AttemptNothing
  <2>1. /\ UNCHANGED <<active, status, queue, completed, requestQueue, args,
                       isFinalizingToolCalls, isCancelling, aborted, prompt,
                       frames, trail, granted, ran, reports>>
        /\ Unwind(Me.root, "resolved") /\ ~CanStart
    BY <1>8 DEF AttemptNothing, End
  <2>2. status[active] \in {"awaiting_approval", "error"}
    BY <1>2, <2>1 DEF CanStart
  <2>3. \A q \in Requests : Unsettled(q)' <=> Unsettled(q)
    BY <1>2, <2>1, UnwindSame
  <2>4. LocalFrames(r) BY <1>2, <2>1 DEF LocalFrames
  <2>5. ActiveFits' BY <1>2, <1>4, <2>1, <2>2 DEF ActiveFits
  <2>6. AuditMoves BY <2>1 DEF AuditMoves, Executing
  <2>7. RanMoves
    BY <1>3, <2>1, <2>2 DEF RanMoves, SerialInv, RanInv, RunsOnce, RunsGrantedArgs
  <2>8. isScheduling' => \E job \in Elements(jobs)' : job.root # None
    BY <1>6, <2>1 DEF Unwind
  <2>9. Local(r)
    BY <1>4, <1>5, <2>1, <2>3, <2>4, <2>5, <2>6, <2>7, <2>8 DEF Local
  <2> QED BY <1>2, <2>9, LocalKeeps
<1> QED BY <1>7, <1>8

-----------------------------------------------------------------------------
(***************************************************************************)
(* The methods of a batch.                                                 *)
(***************************************************************************)
\* Behind a method only ends of chains wait.
LEMMA SteppingNow ==
    ASSUME TypeOK, IInv, SerialInv, NEW fn, Running(fn), fn # "unwind"
    PROVE  /\ Stepping /\ Me.fn = fn /\ jobs # <<>> /\ frames = {}
           /\ Me.sig \in Requests /\ Me.root \in {None, Me.sig}
           /\ Unsettled(Me.sig) /\ (\A q \in Requests : Unsettled(q) => q = Me.sig)
           /\ fn # "schedule" => Going(Me.sig)
           /\ ~isFinalizingToolCalls /\ requestQueue = <<>>
           /\ isCancelling => fn = "check" /\ queue = <<>>
           /\ fn = "cancelAll" => Me.root = None
<1>1. Stepping /\ Me.fn = fn /\ jobs # <<>> BY DEF Stepping, Running, Me
<1>2. Me \in Elements(jobs) /\ Me.sig \in Requests BY <1>1, MeIn
<1>3. /\ frames = {} /\ Unsettled(Me.sig)
      /\ fn # "schedule" => Going(Me.sig)
      /\ \A q \in Requests : Unsettled(q) => q = Me.sig
  BY <1>1, <1>2 DEF SerialInv, ControlInv, OneUnsettled
<1>4. Me.root \in {None, Me.sig} /\ (fn = "cancelAll" => Me.root = None)
  BY <1>1, <1>2 DEF SerialInv, ChainInv
<1>5. ~isFinalizingToolCalls /\ requestQueue = <<>>
  BY <1>1 DEF SerialInv, FinalizingInv
<1>6. isCancelling => fn = "check" /\ queue = <<>>
  BY <1>1, <1>5 DEF SerialInv, MethodInv, Running, Me
<1> QED BY <1>1, <1>2, <1>3, <1>4, <1>5, <1>6

\* A method that goes on as another keeps the chain it belongs to.
LEMMA ContinueControl ==
    ASSUME TypeOK, IInv, SerialInv, NEW old, Running(old), old # "unwind",
           NEW r, r = Me.sig,
           NEW fn \in {"process", "check"}, Continue(Run(fn, r, Me.root)),
           UNCHANGED <<requestQueue, promise, reports, frames>>,
           isScheduling' => isScheduling \/ Me.root # None,
           ~Fresh(r)'
    PROVE  /\ OneUnsettled' /\ ChainInv' /\ ControlInv'
           /\ Going(r)' /\ (\A q \in Requests : Going(q)' => q = r)
           /\ \A x : Running(x)' <=> x = fn
           /\ frames' = {} /\ requestQueue' = <<>>
<1> DEFINE job == Run(fn, r, Me.root)
<1>1. /\ jobs # <<>> /\ frames = {} /\ r \in Requests /\ Me.root \in {None, r}
      /\ Unsettled(r) /\ (\A q \in Requests : Unsettled(q) => q = r)
      /\ requestQueue = <<>>
  BY SteppingNow
<1>2. /\ job \in Job /\ job.fn = fn /\ job.sig = r /\ job.root = Me.root
      /\ Continue(job)
  BY <1>1, RunType, RunFields
<1> HIDE DEF job
<1>3. /\ jobs' # <<>> /\ Me' = job
      /\ Elements(jobs)' = Elements(Tail(jobs)) \cup {job}
      /\ Elements(jobs) = Elements(Tail(jobs)) \cup {Me}
  BY <1>1, <1>2, ContinueElements, MeIn
<1>4. \A q \in Requests : (Settled(q)' <=> Settled(q))
                          /\ (Unsettled(q)' <=> Unsettled(q))
  BY DEF Settled, Unsettled
<1>5. /\ Going(r)' /\ (\A q \in Requests : Going(q)' => q = r)
  BY <1>1, <1>4 DEF Going
<1>6. \A x : Running(x)' <=> x = fn BY <1>2, <1>3 DEF Running, Me
<1>7. OneUnsettled' BY <1>1, <1>4, <1>5, ElementsEmpty DEF OneUnsettled
<1>8. ChainInv'
  <2>1. \A j \in Elements(jobs) : j.sig \in Requests BY JobFields
  <2>2. \A j \in Elements(jobs)' :
           /\ j.root \in {None, j.sig}
           /\ j.fn = "unwind" => Settled(j.sig)'
           /\ j.fn = "cancelAll" => j.root = None
    BY <1>1, <1>2, <1>3, <1>4, <2>1 DEF SerialInv, ChainInv
  <2>3. isScheduling' => \E j \in Elements(jobs)' : j.root # None
    BY <1>1, <1>2, <1>3 DEF SerialInv, ChainInv
  <2> QED BY <1>1, <2>2, <2>3 DEF ChainInv
<1>9. ControlInv'
  BY <1>1, <1>2, <1>3, <1>4, <1>5 DEF ControlInv, Stepping
<1> QED BY <1>1, <1>5, <1>6, <1>7, <1>8, <1>9

\* A method that suspends, or ends, leaves the ends of chains behind it.
LEMMA SuspendControl ==
    ASSUME TypeOK, IInv, SerialInv, NEW old, Running(old), jobs' = Tail(jobs)
    PROVE  /\ ~Stepping' /\ (\A x : Running(x)' => x = "unwind")
           /\ Elements(jobs) = Elements(jobs)' \cup {Me}
           /\ \A job \in Elements(jobs)' :
                 /\ job.sig \in Requests /\ Settled(job.sig)
                 /\ job.root \in {None, job.sig} /\ job.fn = "unwind"
<1>1. jobs # <<>> BY DEF Running
<1>2. /\ Elements(jobs) = Elements(jobs)' \cup {Me}
      /\ \A job \in Elements(jobs)' : job.fn = "unwind"
      /\ jobs' # <<>> => Head(jobs').fn = "unwind"
  BY <1>1, MeIn, BehindMe
<1>3. \A job \in Elements(jobs)' : job.sig \in Requests BY <1>2, JobFields
<1> QED BY <1>2, <1>3 DEF SerialInv, ChainInv, Stepping, Running, Me

\* The batch of the request that goes, and what a cancellation adds to it.
LEMMA BatchMine ==
    ASSUME TypeOK, IInv, SerialInv, NEW r \in Requests, Going(r)
    PROVE  /\ PlacesOf(r)
           /\ completed \in Seq(Calls) /\ queue \in Seq(Calls)
           /\ BatchOf(r, completed) /\ BatchOf(r, completed \o queue)
           /\ Elements(completed) \subseteq Elements(CallsOf[r])
           /\ Elements(queue) \subseteq Elements(CallsOf[r])
           /\ Elements(completed) \cap Elements(queue) = {}
           /\ IsInjective(queue) /\ \A c \in Elements(queue) : ran[c] = <<>>
<1>1. PlacesOf(r) /\ completed \in Seq(Calls) /\ queue \in Seq(Calls)
  BY DEF SerialInv, BatchInv, TypeOK
<1>2. /\ Elements(completed) \subseteq Elements(CallsOf[r])
      /\ Elements(queue) \subseteq Elements(CallsOf[r])
      /\ Elements(completed) \cap Elements(queue) = {}
  BY <1>1 DEF PlacesOf, SerialInv, BatchInv
<1>3. BatchOf(r, completed)
  <2>1. CASE completed = <<>> BY <1>2, <2>1 DEF BatchOf
  <2>2. CASE completed # <<>>
    <3>1. PICK q \in Requests : BatchOf(q, completed)
      BY <2>2 DEF SerialInv, BatchInv, BatchOfOneRequest
    <3>2. Head(completed) \in Elements(completed) BY <1>1, <2>2, HeadTail
    <3>3. /\ Head(completed) \in Elements(CallsOf[q])
          /\ Head(completed) \in Elements(CallsOf[r])
      BY <1>2, <3>1, <3>2 DEF BatchOf
    <3>4. q = r BY <3>3, CallsOfType
    <3> QED BY <3>1, <3>4
  <2> QED BY <2>1, <2>2
<1>4. IsInjective(queue) /\ \A c \in Elements(queue) : ran[c] = <<>>
  <2>1. Elements(queue) \subseteq Calls BY <1>2, CallsOfType
  <2> QED BY <2>1 DEF IInv, PlaceInv, SerialInv, RanInv
<1>5. BatchOf(r, completed \o queue) BY <1>1, <1>2, <1>3, <1>4, BatchJoined
<1> QED BY <1>1, <1>2, <1>3, <1>4, <1>5

\* The batch when the active call joins it, and as a whole.
LEMMA BatchNow ==
    ASSUME TypeOK, IInv, SerialInv, NEW r \in Requests, Going(r)
    PROVE  /\ Batch \in Seq(Calls) /\ BatchOf(r, Batch)
           /\ Elements(Batch) = Elements(completed) \cup ({active} \ {None})
           /\ (Batch \o queue) \in Seq(Calls) /\ BatchOf(r, Batch \o queue)
           /\ Elements(Batch \o queue) = Elements(CallsOf[r])
<1>1. /\ PlacesOf(r) /\ completed \in Seq(Calls) /\ queue \in Seq(Calls)
      /\ BatchOf(r, completed)
      /\ Elements(completed) \subseteq Elements(CallsOf[r])
      /\ Elements(queue) \subseteq Elements(CallsOf[r])
      /\ Elements(completed) \cap Elements(queue) = {}
      /\ IsInjective(queue) /\ \A c \in Elements(queue) : ran[c] = <<>>
  BY BatchMine
<1>2. CallsOf[r] \in Seq(Calls) BY CallsOfType
<1>3. ASSUME active # None
      PROVE  /\ active \in Calls /\ active \in Elements(CallsOf[r])
             /\ active \notin Elements(completed) \cup Elements(queue)
             /\ Elements(Batch) = Elements(completed) \cup {active}
             /\ Batch \in Seq(Calls)
  BY <1>1, <1>3, GoingOnly, Appended DEF Batch
<1>4. /\ Batch \in Seq(Calls)
      /\ Elements(Batch) = Elements(completed) \cup ({active} \ {None})
  BY <1>1, <1>3 DEF Batch
<1>5. BatchOf(r, Batch)
  <2>1. CASE active = None BY <1>1, <2>1 DEF Batch
  <2>2. CASE active # None /\ InTurn(r)
    <3>1. PICK k \in 0..Len(CallsOf[r]) :
             /\ k > 0 /\ active = CallsOf[r][k]
             /\ Elements(completed) = {CallsOf[r][j] : j \in 1..(k - 1)}
      BY <2>2 DEF InTurn
    <3>2. k \in DOMAIN CallsOf[r] BY <1>2, <3>1
    <3>3. \A c \in Elements(completed) :
             \E j \in 1..(k - 1) : c = CallsOf[r][j]
      BY <3>1
    <3> QED BY <1>1, <2>2, <3>1, <3>2, <3>3, BatchAppended DEF Batch
  <2>3. CASE active # None /\ Closing
    <3>1. <<active>> \in Seq(Calls) BY <1>3, <2>3
    <3>2. Elements(<<active>>) = {active} BY ElementsOne
    <3>3. IsInjective(<<active>>) BY DEF IsInjective
    <3>4. ran[active] = <<>> BY <2>3 DEF Closing
    <3>5. BatchOf(r, completed \o <<active>>)
      BY <1>1, <1>3, <2>3, <3>1, <3>2, <3>3, <3>4, BatchJoined
    <3>6. completed \o <<active>> = Append(completed, active)
      BY <1>1, <1>3, <2>3
    <3> QED BY <2>3, <3>5, <3>6 DEF Batch
  <2> QED BY <1>1, <2>1, <2>2, <2>3 DEF PlacesOf
<1>6. Elements(Batch) \cap Elements(queue) = {} BY <1>1, <1>3, <1>4
<1>7. BatchOf(r, Batch \o queue) BY <1>1, <1>4, <1>5, <1>6, BatchJoined
<1>8. /\ (Batch \o queue) \in Seq(Calls)
      /\ Elements(Batch \o queue) = Elements(Batch) \cup Elements(queue)
  BY <1>1, <1>4, Joined
<1>9. Elements(Batch \o queue) = Elements(CallsOf[r])
  BY <1>1, <1>4, <1>8 DEF PlacesOf
<1> QED BY <1>4, <1>5, <1>7, <1>8, <1>9

\* The batch becomes a sequence of calls of request r, in order.
LEMMA BatchThen ==
    ASSUME NEW r \in Requests, NEW s, BatchOf(r, s), completed' = s, UNCHANGED ran
    PROVE  BatchOfOneRequest'
<1>1. BatchOf(r, completed)' BY DEF BatchOf, Position
<1> QED BY <1>1 DEF BatchOfOneRequest

\* What calls ran is as it was.
LEMMA RanKeeps ==
    ASSUME SerialInv, UNCHANGED <<ran, granted, trail, prompt>>,
           aborted \subseteq aborted', ReportedOnce',
           \A c \in Calls :
              \/ status'[c] \in {"new", "validating", "scheduled",
                                 "awaiting_approval"}
              \/ c \in Elements(queue)'
              => ran[c] = <<>>,
           \A c \in Calls : Executing(c) => Executing(c)'
    PROVE  RanInv'
<1>1. OutcomeAudited'
  <2> SUFFICES ASSUME NEW q \in Requests, q \notin aborted,
                      NEW c \in Elements(CallsOf[q]),
                      "execution_started" \in trail[c], ~Executing(c)'
               PROVE  trail[c] \cap
                         {"execution_finished", "execution_failed"} # {}
    BY DEF OutcomeAudited, Executing
  <2>1. c \in Calls BY CallsOfType
  <2>2. ~Executing(c) BY <2>1
  <2> QED BY <2>2 DEF SerialInv, RanInv, OutcomeAudited, Executing
<1>2. RunsOnce' /\ RunsGrantedArgs'
  BY DEF SerialInv, RanInv, RunsOnce, RunsGrantedArgs
<1> QED BY <1>1, <1>2 DEF SerialInv, RanInv

\* A request that starts finds the scheduler empty, and its calls new.
LEMMA SerialScheduleBatch ==
    ASSUME TypeOK, TypeOK', IInv, SerialInv, OneAtATime, ScheduleBatch
    PROVE  SerialInv'
<1> USE SchedulerAssumption
<1>0. PICK r \in Requests : r = Me.sig BY SteppingNow DEF ScheduleBatch
<1>1. /\ Running("schedule") /\ frames = {} /\ r \in Requests
      /\ Me.root \in {None, r} /\ Unsettled(r) /\ Starting(r)
      /\ (\A q \in Requests : Unsettled(q) => q = r)
      /\ ~isFinalizingToolCalls /\ requestQueue = <<>>
  BY <1>0, SteppingNow DEF ScheduleBatch, Starting, Running, Me
<1>2. Me.root = r BY <1>0, <1>1 DEF IInv, RequestInv, Starting, Me
<1>3. PICK bad \in SUBSET Elements(CallsOf[Me.sig]) :
         status' = [c \in Calls |->
                       IF c \notin Elements(CallsOf[Me.sig]) THEN status[c]
                       ELSE IF c \in bad THEN "error" ELSE "validating"]
  BY DEF ScheduleBatch
<1>4. /\ isScheduling' = TRUE /\ isCancelling' = FALSE /\ completed' = <<>>
      /\ queue' = queue \o CallsOf[r]
      /\ Continue(Run("process", r, Me.root))
      /\ UNCHANGED <<active, requestQueue, isFinalizingToolCalls, aborted, prompt,
                     args, promise, frames, trail, answered, granted, ran,
                     reports>>
  BY <1>0 DEF ScheduleBatch
<1>5. Fresh(r) BY <1>1 DEF IInv, RequestInv
<1>6. /\ CallsOf[r] \in Seq(Calls) /\ CallsOf[r] # <<>>
      /\ Elements(CallsOf[r]) \subseteq Calls
  BY <1>1, CallsOfType DEF OneAtATime
<1>7. active = None /\ queue = <<>>
  BY <1>1, <1>5 DEF SerialInv, BatchInv, Going
<1>8. /\ \A c \in Elements(CallsOf[r]) : status'[c] \in {"error", "validating"}
      /\ \A c \in Calls \ Elements(CallsOf[r]) : status'[c] = status[c]
  BY <1>0, <1>3, <1>6
<1>9. ~Fresh(r)'
  <2>1. Head(CallsOf[r]) \in Elements(CallsOf[r]) BY <1>6, HeadTail
  <2> QED BY <1>8, <2>1 DEF Fresh
<1>11. /\ OneUnsettled' /\ ChainInv' /\ ControlInv'
       /\ Going(r)' /\ (\A q \in Requests : Going(q)' => q = r)
       /\ \A x : Running(x)' <=> x = "process"
       /\ frames' = {} /\ requestQueue' = <<>>
  BY <1>1, <1>2, <1>4, <1>9, <1>0, ContinueControl
<1>12. queue' = CallsOf[r] BY <1>4, <1>6, <1>7
<1>13. MethodInv' BY <1>4, <1>6, <1>7, <1>11, <1>12 DEF MethodInv
<1>14. AwaitInv'
  <2>1. \A c \in Calls :
           status'[c] \notin {"scheduled", "awaiting_approval", "executing"}
    BY <1>7, <1>8 DEF SerialInv, AwaitInv
  <2> QED BY <1>11, <2>1 DEF AwaitInv
<1>15. FinalizingInv' BY <1>1, <1>4, <1>11 DEF FinalizingInv
<1>16. BatchInv'
  <2>1. \A c \in Elements(CallsOf[r]) : reports'[c] = 0
    <3>1. \A c \in Elements(CallsOf[r]) : ~(reports[c] > 0)
      BY <1>5, <1>6 DEF Fresh, IInv, FinalInv, Terminal
    <3>2. reports \in [Calls -> 0..2] /\ reports' = reports BY <1>4 DEF TypeOK
    <3> QED BY <1>6, <3>1, <3>2
  <2>2. InTurn(r)'
    <3>1. /\ 0 \in 0..Len(CallsOf[r])
          /\ CallsOf[r] = SubSeq(CallsOf[r], 0 + 1, Len(CallsOf[r]))
      BY <1>6
    <3>2. {CallsOf[r][j] : j \in 1..0} = {} OBVIOUS
    <3> QED BY <1>4, <1>7, <1>12, <3>1, <3>2, ElementsEmpty DEF InTurn
  <2>3. PlacesOf(r)'
    BY <1>4, <1>7, <1>12, <2>1, <2>2, ElementsEmpty DEF PlacesOf
  <2>4. BatchOfOneRequest' BY <1>4 DEF BatchOfOneRequest
  <2> QED BY <1>1, <1>4, <1>11, <2>3, <2>4, ElementsEmpty DEF BatchInv
<1>17. RanInv'
  <2>1. \A c \in Calls :
              \/ status'[c] \in {"new", "validating", "scheduled",
                                 "awaiting_approval"}
              \/ c \in Elements(queue)'
              => ran[c] = <<>>
    BY <1>5, <1>8, <1>12 DEF SerialInv, RanInv, Fresh
  <2>2. ReportedOnce' BY <1>4 DEF SerialInv, RanInv, ReportedOnce
  <2>3. \A c \in Calls : Executing(c) => Executing(c)' BY <1>4 DEF Executing
  <2> QED BY <1>4, <2>1, <2>2, <2>3, RanKeeps
<1> QED BY <1>11, <1>13, <1>14, <1>15, <1>16, <1>17 DEF SerialInv

\* A cancellation closes the batch: the queued calls join it.
LEMMA SerialCancel ==
    ASSUME TypeOK, TypeOK', IInv, SerialInv, ProcessAborted \/ CancelAll
    PROVE  SerialInv'
<1> USE SchedulerAssumption
<1>1. PICK old \in {"process", "cancelAll"} : Running(old)
  BY DEF ProcessAborted, CancelAll
<1>0. PICK r \in Requests : r = Me.sig BY <1>1, SteppingNow
<1>2. /\ frames = {} /\ r \in Requests /\ Going(r) /\ r = Me.sig
      /\ ~isFinalizingToolCalls
  BY <1>0, <1>1, SteppingNow
<1>3. ProcessAborted => active = None /\ status' = CancelQueued(status)
                        /\ ~isCancelling'
  BY <1>1, SteppingNow DEF ProcessAborted
<1>4. CancelAll => /\ active # None /\ status[active] = "awaiting_approval"
                   /\ status' = CancelQueued(WithStatus(active, "cancelled"))
                   /\ Me.root = None
  BY SteppingNow DEF CancelAll, SerialInv, MethodInv
<1>5. /\ completed' = completed \o queue /\ queue' = <<>>
      /\ Continue(Run("check", r, Me.root))
      /\ UNCHANGED <<active, requestQueue, isFinalizingToolCalls, isScheduling,
                     aborted, prompt, args, promise, frames, trail, answered,
                     granted, ran, reports>>
  BY <1>0, <1>4 DEF ProcessAborted, CancelAll
<1>6. /\ PlacesOf(r) /\ completed \in Seq(Calls) /\ queue \in Seq(Calls)
      /\ BatchOf(r, completed \o queue)
  BY <1>2, BatchMine
<1>7. /\ CallsOf[r] \in Seq(Calls) /\ Elements(CallsOf[r]) \subseteq Calls
  BY <1>2, CallsOfType
<1>8. active # None => /\ active \in Calls /\ ran[active] = <<>>
                       /\ active \notin Elements(completed) \cup Elements(queue)
  BY <1>2, <1>3, <1>4, GoingOnly DEF SerialInv, RanInv
<1>9. \A c \in Calls :
         /\ c = active => status'[c] = "cancelled"
         /\ c # active => status'[c] \in {status[c], "cancelled"}
  <2>1. CASE ProcessAborted BY <1>3, <2>1 DEF CancelQueued
  <2>2. CASE CancelAll
    <3>1. \A c \in Calls : WithStatus(active, "cancelled")[c] =
                              IF c = active THEN "cancelled" ELSE status[c]
      BY <1>4, <1>8, <2>2, WithStatusAt DEF Terminal
    <3> QED BY <1>4, <1>8, <2>2, <3>1 DEF CancelQueued
  <2> QED BY <2>1, <2>2
<1>10. \A c \in Calls : status'[c] \in {"new", "validating", "scheduled",
                                        "awaiting_approval", "executing"} =>
                           status'[c] = status[c] /\ c # active
  BY <1>9
<1>11. ~Fresh(r)'
  <2>1. ~Fresh(r) BY <1>2 DEF Going
  <2> QED BY <1>7, <1>10, <2>1 DEF Fresh
<1>12. /\ OneUnsettled' /\ ChainInv' /\ ControlInv'
       /\ Going(r)' /\ (\A q \in Requests : Going(q)' => q = r)
       /\ \A x : Running(x)' <=> x = "check"
       /\ frames' = {} /\ requestQueue' = <<>>
  BY <1>1, <1>2, <1>5, <1>11, ContinueControl
<1>13. MethodInv'
  <2>1. ~Busy' BY <1>5, <1>8, <1>9 DEF Busy, Terminal
  <2> QED BY <1>5, <1>12, <2>1 DEF MethodInv
<1>14. AwaitInv'
  <2>1. \A c \in Calls :
           status'[c] \notin {"scheduled", "awaiting_approval", "executing"}
    BY <1>10 DEF SerialInv, AwaitInv
  <2> QED BY <1>12, <2>1 DEF AwaitInv
<1>15. FinalizingInv' BY <1>2, <1>5, <1>12 DEF FinalizingInv
<1>16. BatchInv'
  <2>1. Elements(completed)' = Elements(completed) \cup Elements(queue)
    BY <1>5, <1>6, Joined
  <2>2. Closing' BY <1>5, <1>8, <1>12 DEF Closing
  <2>3. PlacesOf(r)'
    <3>1. \A c \in Elements(CallsOf[r]) : reports'[c] = 0
      BY <1>5, <1>6 DEF PlacesOf
    <3>2. Elements(CallsOf[r]) = Elements(completed)' \cup Elements(queue)'
                                 \cup ({active} \ {None})'
      BY <1>5, <1>6, <2>1, ElementsEmpty DEF PlacesOf
    <3> QED BY <2>2, <3>1, <3>2 DEF PlacesOf
  <2>4. BatchOfOneRequest' BY <1>2, <1>5, <1>6, BatchThen
  <2>5. \A c \in Elements(completed)' : c # active' /\ c \notin Elements(queue)'
    <3>1. Elements(completed) \cup Elements(queue) \subseteq Calls
      BY <1>6, <1>7 DEF PlacesOf
    <3> QED BY <1>5, <1>8, <2>1, <3>1, ElementsEmpty
  <2> QED BY <1>2, <1>12, <2>3, <2>4, <2>5 DEF BatchInv
<1>17. RanInv'
  <2>1. \A c \in Calls :
              \/ status'[c] \in {"new", "validating", "scheduled",
                                 "awaiting_approval"}
              \/ c \in Elements(queue)'
              => ran[c] = <<>>
    BY <1>5, <1>10, ElementsEmpty DEF SerialInv, RanInv
  <2>2. ReportedOnce' BY <1>5 DEF SerialInv, RanInv, ReportedOnce
  <2>3. \A c \in Calls : Executing(c) => Executing(c)' BY <1>5 DEF Executing
  <2> QED BY <1>5, <2>1, <2>2, <2>3, RanKeeps
<1> QED BY <1>12, <1>13, <1>14, <1>15, <1>16, <1>17 DEF SerialInv

\* Between two calls: the finished one joins the batch.
LEMMA SerialCheckNext ==
    ASSUME TypeOK, TypeOK', IInv, SerialInv, CheckNext
    PROVE  SerialInv'
<1> USE SchedulerAssumption
<1>1. Running("check") BY DEF CheckNext
<1>0. PICK r \in Requests : r = Me.sig BY <1>1, SteppingNow
<1>2. /\ frames = {} /\ Going(r) /\ ~isFinalizingToolCalls
  BY <1>0, <1>1, SteppingNow
<1>3. /\ ~Busy /\ queue # <<>> /\ completed' = Batch /\ active' = None
      /\ Continue(Run("process", r, Me.root))
      /\ UNCHANGED <<status, queue, requestQueue, isFinalizingToolCalls,
                     isScheduling, isCancelling, aborted, prompt, args, promise,
                     frames, trail, answered, granted, ran, reports>>
  BY <1>0 DEF CheckNext, BatchOver
<1>4. ~isCancelling BY <1>1, <1>3, SteppingNow
<1>5. /\ PlacesOf(r) /\ InTurn(r) /\ queue \in Seq(Calls)
      /\ Elements(completed) \cap Elements(queue) = {}
  BY <1>2, <1>3, BatchMine DEF PlacesOf, Closing
<1>6. /\ BatchOf(r, Batch)
      /\ Elements(Batch) = Elements(completed) \cup ({active} \ {None})
  BY <1>2, BatchNow
<1>7. ~Fresh(r)' BY <1>2, <1>3 DEF Going, Fresh
<1>8. /\ OneUnsettled' /\ ChainInv' /\ ControlInv'
      /\ Going(r)' /\ (\A q \in Requests : Going(q)' => q = r)
      /\ \A x : Running(x)' <=> x = "process"
      /\ frames' = {} /\ requestQueue' = <<>>
  BY <1>0, <1>1, <1>3, <1>7, ContinueControl
<1>9. MethodInv' BY <1>3, <1>4, <1>8 DEF MethodInv
<1>10. AwaitInv'
  <2>1. \A c \in Calls :
           status[c] \notin {"scheduled", "awaiting_approval", "executing"}
    BY <1>3 DEF SerialInv, AwaitInv, Busy, Terminal
  <2> QED BY <1>3, <1>8, <2>1 DEF AwaitInv
<1>11. FinalizingInv' BY <1>2, <1>3, <1>8 DEF FinalizingInv
<1>12. BatchInv'
  <2>1. InTurn(r)'
    <3>1. PICK k \in 0..Len(CallsOf[r]) :
             /\ queue = SubSeq(CallsOf[r], k + 1, Len(CallsOf[r]))
             /\ active # None => k > 0 /\ active = CallsOf[r][k]
             /\ Elements(completed) =
                   {CallsOf[r][j] : j \in 1..(IF active = None THEN k ELSE k - 1)}
      BY <1>5 DEF InTurn
    <3>2. CallsOf[r] \in Seq(Calls) BY CallsOfType
    <3>3. Elements(Batch) = {CallsOf[r][j] : j \in 1..k}
      <4>1. CASE active = None BY <1>6, <3>1, <4>1
      <4>2. CASE active # None
        <5>1. 1..k = 1..(k - 1) \cup {k} BY <3>1, <3>2, <4>2
        <5> QED BY <1>6, <3>1, <4>2, <5>1
      <4> QED BY <4>1, <4>2
    <3>4. Elements(completed)' = Elements(Batch) BY <1>3
    <3> QED BY <1>3, <3>1, <3>3, <3>4 DEF InTurn
  <2>2. PlacesOf(r)'
    <3>1. Elements(completed)' = Elements(Batch) /\ Elements(queue)' = Elements(queue)
      BY <1>3
    <3>2. \A c \in Elements(CallsOf[r]) : reports'[c] = 0
      BY <1>3, <1>5 DEF PlacesOf
    <3>3. Elements(CallsOf[r]) = Elements(completed)' \cup Elements(queue)'
                                 \cup ({active} \ {None})'
      BY <1>3, <1>5, <1>6, <3>1 DEF PlacesOf
    <3> QED BY <2>1, <3>2, <3>3 DEF PlacesOf
  <2>3. BatchOfOneRequest' BY <1>3, <1>6, BatchThen
  <2>4. \A c \in Elements(completed)' : c # active' /\ c \notin Elements(queue)'
    <3>1. Elements(completed)' = Elements(Batch) /\ Elements(queue)' = Elements(queue)
      BY <1>3
    <3>2. Elements(Batch) \subseteq Calls BY <1>6, CallsOfType DEF BatchOf
    <3>3. active \notin Elements(queue) BY DEF IInv, PlaceInv
    <3> QED BY <1>3, <1>5, <1>6, <3>1, <3>2, <3>3
  <2> QED BY <1>8, <2>2, <2>3, <2>4 DEF BatchInv
<1>13. RanInv'
  <2>1. \A c \in Calls :
              \/ status'[c] \in {"new", "validating", "scheduled",
                                 "awaiting_approval"}
              \/ c \in Elements(queue)'
              => ran[c] = <<>>
    BY <1>3 DEF SerialInv, RanInv
  <2>2. ReportedOnce' BY <1>3 DEF SerialInv, RanInv, ReportedOnce
  <2>3. \A c \in Calls : Executing(c) => Executing(c)' BY <1>3 DEF Executing
  <2> QED BY <1>3, <2>1, <2>2, <2>3, RanKeeps
<1> QED BY <1>8, <1>9, <1>10, <1>11, <1>12, <1>13 DEF SerialInv

\* The next call of the request is active.
LEMMA NextInTurn ==
    ASSUME TypeOK, IInv, SerialInv, NEW r \in Requests, Going(r), active = None,
           queue # <<>>, InTurn(r), active' = Head(queue), queue' = Tail(queue),
           UNCHANGED <<completed, reports>>
    PROVE  /\ InTurn(r)' /\ PlacesOf(r)' /\ active' \in Elements(queue)
           /\ active' \in Calls /\ active' # None
           /\ \A c \in Elements(completed)' :
                 c # active' /\ c \notin Elements(queue)'
<1>1. /\ PlacesOf(r) /\ queue \in Seq(Calls)
      /\ Elements(completed) \cap Elements(queue) = {}
  BY BatchMine
<1>2. PICK k \in 0..Len(CallsOf[r]) :
         /\ queue = SubSeq(CallsOf[r], k + 1, Len(CallsOf[r]))
         /\ Elements(completed) = {CallsOf[r][j] : j \in 1..k}
  BY DEF InTurn
<1>3. CallsOf[r] \in Seq(Calls) BY CallsOfType
<1>4. /\ k + 1 \in 1..Len(CallsOf[r]) /\ active' = CallsOf[r][k + 1]
      /\ queue' = SubSeq(CallsOf[r], k + 2, Len(CallsOf[r]))
  BY <1>2, <1>3, RestOf
<1>5. /\ active' \in Calls /\ active' \in Elements(queue)
      /\ Elements(queue) = Elements(queue)' \cup {active'}
  BY <1>1, HeadTail
<1>6. active' # None BY <1>5, SchedulerAssumption
<1>7. Elements(completed)' = Elements(completed) OBVIOUS
<1>8. InTurn(r)'
  <2>1. /\ k + 1 \in 0..Len(CallsOf[r]) /\ k + 1 > 0
        /\ (k + 1) + 1 = k + 2 /\ (k + 1) - 1 = k
    BY <1>3, <1>4
  <2> HIDE DEF Elements
  <2> DEFINE K == k + 1
  <2>2. /\ K \in 0..Len(CallsOf[r])
        /\ queue' = SubSeq(CallsOf[r], K + 1, Len(CallsOf[r]))
        /\ active' # None => K > 0 /\ active' = CallsOf[r][K]
        /\ Elements(completed)' =
              {CallsOf[r][j] : j \in 1..(IF active' = None THEN K ELSE K - 1)}
    BY <1>2, <1>4, <1>6, <1>7, <2>1
  <2> HIDE DEF K
  <2> QED BY <2>2 DEF InTurn
<1>9. PlacesOf(r)'
  <2>1. Elements(CallsOf[r]) = Elements(completed)' \cup Elements(queue)'
                               \cup ({active} \ {None})'
    BY <1>1, <1>5, <1>6, <1>7 DEF PlacesOf
  <2>2. \A c \in Elements(CallsOf[r]) : reports'[c] = 0 BY <1>1 DEF PlacesOf
  <2> QED BY <1>8, <2>1, <2>2 DEF PlacesOf
<1> QED BY <1>1, <1>5, <1>6, <1>7, <1>8, <1>9

\* A method that awaits something for the active call keeps the chain it belongs to.
LEMMA AwaitControl ==
    ASSUME TypeOK, IInv, SerialInv, NEW old, Running(old), old # "unwind",
           NEW r \in Requests, r = Me.sig, Going(r),
           jobs' = Tail(jobs), NEW f, frames' = {f}, f.at = "validate",
           f.call = active', f.sig = r, f.root = Me.root,
           UNCHANGED <<requestQueue, promise, reports, isScheduling, status>>
    PROVE  /\ OneUnsettled' /\ ChainInv' /\ ControlInv'
           /\ Going(r)' /\ (\A q \in Requests : Going(q)' => q = r)
           /\ (\A x : Running(x)' => x = "unwind") /\ ~Stepping'
           /\ requestQueue' = <<>>
<1>1. /\ frames = {} /\ Me.root \in {None, r} /\ requestQueue = <<>>
      /\ \A q \in Requests : Unsettled(q) => q = r
  BY SteppingNow
<1>2. /\ ~Stepping' /\ (\A x : Running(x)' => x = "unwind")
      /\ Elements(jobs) = Elements(jobs)' \cup {Me}
      /\ \A job \in Elements(jobs)' :
            /\ job.sig \in Requests /\ Settled(job.sig)
            /\ job.root \in {None, job.sig} /\ job.fn = "unwind"
  BY SuspendControl
<1>3. \A q \in Requests : /\ Settled(q)' <=> Settled(q)
                          /\ Unsettled(q)' <=> Unsettled(q)
                          /\ Going(q)' <=> Going(q)
  BY RequestsSame
<1>4. OneUnsettled' BY <1>1, <1>3, ElementsEmpty DEF OneUnsettled, Going
<1>5. ChainInv'
  <2>1. isScheduling' => \/ \E job \in Elements(jobs)' : job.root # None
                         \/ f.root # None
    BY <1>1, <1>2 DEF SerialInv, ChainInv
  <2> QED BY <1>1, <1>2, <1>3, <2>1 DEF ChainInv
<1>6. ControlInv' BY <1>1, <1>2, <1>3 DEF ControlInv, Going
<1> QED BY <1>1, <1>2, <1>3, <1>4, <1>5, <1>6 DEF Going

\* The next call becomes the active one; one that was built is asked for.
LEMMA SerialProcessNext ==
    ASSUME TypeOK, TypeOK', IInv, SerialInv, ProcessNext
    PROVE  SerialInv'
<1> USE SchedulerAssumption
<1>1. Running("process") BY DEF ProcessNext
<1>0. PICK r \in Requests : r = Me.sig BY <1>1, SteppingNow
<1>2. /\ frames = {} /\ Going(r) /\ ~isFinalizingToolCalls /\ ~isCancelling
      /\ requestQueue = <<>> /\ \A q \in Requests : Unsettled(q) => q = r
  BY <1>0, <1>1, SteppingNow
<1>3. /\ active = None /\ queue # <<>>
      /\ active' = Head(queue) /\ queue' = Tail(queue)
      /\ UNCHANGED <<status, completed, requestQueue, isFinalizingToolCalls,
                     isScheduling, isCancelling, aborted, prompt, args, promise,
                     trail, answered, granted, ran, reports>>
  BY DEF ProcessNext
<1>4. PlacesOf(r) /\ InTurn(r) /\ queue \in Seq(Calls)
  BY <1>1, <1>2, BatchMine DEF PlacesOf, Closing, Running
<1>5. /\ InTurn(r)' /\ PlacesOf(r)' /\ active' \in Elements(queue)
      /\ active' \in Calls /\ active' # None
      /\ \A c \in Elements(completed)' : c # active' /\ c \notin Elements(queue)'
  BY <1>2, <1>3, <1>4, NextInTurn
<1>6. status[active'] \in {"validating", "error"} /\ ran[active'] = <<>>
  BY <1>5 DEF IInv, PlaceInv, SerialInv, RanInv
<1>7. \A c \in Calls :
         status[c] \notin {"scheduled", "awaiting_approval", "executing"}
  BY <1>3 DEF SerialInv, AwaitInv
<1>8. ASSUME status[active'] = "error"
      PROVE  /\ OneUnsettled' /\ ChainInv' /\ ControlInv' /\ MethodInv'
             /\ AwaitInv' /\ FinalizingInv'
             /\ Going(r)' /\ (\A q \in Requests : Going(q)' => q = r)
  <2>1. Continue(Run("check", r, Me.root)) /\ frames' = frames
    BY <1>0, <1>3, <1>8 DEF ProcessNext
  <2>2. ~Fresh(r)' BY <1>2, <1>3 DEF Going, Fresh
  <2>3. /\ OneUnsettled' /\ ChainInv' /\ ControlInv'
        /\ Going(r)' /\ (\A q \in Requests : Going(q)' => q = r)
        /\ \A x : Running(x)' <=> x = "check"
        /\ frames' = {} /\ requestQueue' = <<>>
    BY <1>0, <1>1, <1>3, <2>1, <2>2, ContinueControl
  <2>4. ~Busy' BY <1>3, <1>8 DEF Busy, Terminal
  <2>5. MethodInv' BY <1>2, <1>3, <2>3, <2>4 DEF MethodInv
  <2>6. AwaitInv' BY <1>3, <1>7, <2>3 DEF AwaitInv
  <2>7. FinalizingInv' BY <1>2, <1>3, <2>3 DEF FinalizingInv
  <2> QED BY <2>3, <2>5, <2>6, <2>7
<1>9. ASSUME status[active'] # "error"
      PROVE  /\ OneUnsettled' /\ ChainInv' /\ ControlInv' /\ MethodInv'
             /\ AwaitInv' /\ FinalizingInv'
             /\ Going(r)' /\ (\A q \in Requests : Going(q)' => q = r)
  <2>1. /\ Suspend(frames, "validate", active', r, Me.root, None, 0)
        /\ jobs' = Tail(jobs)
    BY <1>0, <1>3, <1>9 DEF ProcessNext
  <2>2. PICK n \in 0..MaxTwins :
           frames' = {Suspended("validate", active', r, Me.root, None, 0, n)}
    <3>1. frames = {} BY <1>2
    <3> QED BY <2>1, <3>1, SuspendOne
  <2> DEFINE f == Suspended("validate", active', r, Me.root, None, 0, n)
  <2>3. /\ frames' = {f} /\ f.at = "validate" /\ f.call = active'
        /\ f.sig = r /\ f.root = Me.root
    BY <2>2 DEF Suspended
  <2> HIDE DEF f
  <2>4. /\ OneUnsettled' /\ ChainInv' /\ ControlInv'
        /\ Going(r)' /\ (\A q \in Requests : Going(q)' => q = r)
        /\ (\A x : Running(x)' => x = "unwind") /\ ~Stepping'
        /\ requestQueue' = <<>>
    BY <1>0, <1>1, <1>2, <1>3, <2>1, <2>3, AwaitControl
  <2>5. MethodInv' BY <1>2, <1>3, <2>4 DEF MethodInv
  <2>6. AwaitInv' BY <1>3, <1>6, <1>7, <1>9, <2>3 DEF AwaitInv
  <2>7. FinalizingInv' BY <1>2, <1>3, <2>3, <2>4 DEF FinalizingInv
  <2> QED BY <2>4, <2>5, <2>6, <2>7
<1>10. /\ OneUnsettled' /\ ChainInv' /\ ControlInv' /\ MethodInv' /\ AwaitInv'
       /\ FinalizingInv' /\ Going(r)' /\ (\A q \in Requests : Going(q)' => q = r)
  BY <1>8, <1>9
<1>11. BatchInv'
  <2>1. BatchOfOneRequest BY DEF SerialInv, BatchInv
  <2>2. BatchOfOneRequest' BY <1>3, <2>1, BatchSame
  <2> QED BY <1>5, <1>10, <2>2 DEF BatchInv
<1>12. RanInv'
  <2>1. Elements(queue)' \subseteq Elements(queue) BY <1>3, <1>4, HeadTail
  <2>2. \A c \in Calls :
              \/ status'[c] \in {"new", "validating", "scheduled",
                                 "awaiting_approval"}
              \/ c \in Elements(queue)'
              => ran[c] = <<>>
    BY <1>3, <2>1 DEF SerialInv, RanInv
  <2>3. ReportedOnce' BY <1>3 DEF SerialInv, RanInv, ReportedOnce
  <2>4. \A c \in Calls : Executing(c) => Executing(c)' BY <1>2 DEF Executing
  <2> QED BY <1>3, <2>2, <2>3, <2>4, RanKeeps
<1> QED BY <1>10, <1>11, <1>12 DEF SerialInv

-----------------------------------------------------------------------------
(***************************************************************************)
(* The report of a batch, and what comes after it.                         *)
(***************************************************************************)
\* A call that is in a batch once is reported once more; one that is not, is not.
LEMMA CountOnce ==
    ASSUME TypeOK, NEW batch \in Seq(Calls), IsInjective(batch), NEW c \in Calls
    PROVE  /\ c \notin Elements(batch) => CountReports(batch)[c] = reports[c]
           /\ c \in Elements(batch) /\ reports[c] = 0 => CountReports(batch)[c] = 1
<1> DEFINE I == {i \in DOMAIN batch : batch[i] = c}
<1>1. CountReports(batch)[c] = IF reports[c] + Cardinality(I) > 2 THEN 2
                               ELSE reports[c] + Cardinality(I)
  BY DEF CountReports
<1>2. reports[c] \in 0..2 BY DEF TypeOK
<1>3. CASE c \notin Elements(batch)
  <2>1. I = {} BY <1>3 DEF Elements
  <2>2. Cardinality(I) = 0 BY <2>1, FS_EmptySet
  <2> QED BY <1>1, <1>2, <1>3, <2>2
<1>4. CASE c \in Elements(batch)
  <2>1. PICK i \in DOMAIN batch : batch[i] = c BY <1>4 DEF Elements
  <2>2. I = {i} BY <2>1 DEF IsInjective
  <2>3. Cardinality(I) = 1 BY <2>2, FS_Singleton
  <2> QED BY <1>1, <1>2, <1>4, <2>3
<1> QED BY <1>3, <1>4

\* The batch handed over is that of the request, each of its calls in it once.
LEMMA ReportedBatch ==
    ASSUME TypeOK, IInv, SerialInv, NEW r \in Requests, Going(r), r = Me.sig,
           BatchOver
    PROVE  /\ WholeBatch \in Seq(Calls) /\ BatchOf(r, WholeBatch)
           /\ Elements(WholeBatch) = Elements(CallsOf[r])
           /\ IsInjective(WholeBatch)
<1>1. /\ Batch \in Seq(Calls) /\ BatchOf(r, Batch)
      /\ Elements(Batch) = Elements(completed) \cup ({active} \ {None})
      /\ (Batch \o queue) \in Seq(Calls) /\ BatchOf(r, Batch \o queue)
      /\ Elements(Batch \o queue) = Elements(CallsOf[r])
  BY BatchNow
<1>2. /\ WholeBatch \in Seq(Calls) /\ BatchOf(r, WholeBatch)
      /\ Elements(WholeBatch) = Elements(CallsOf[r])
  <2>1. CASE r \in aborted BY <1>1, <2>1 DEF WholeBatch
  <2>2. CASE r \notin aborted
    <3>1. queue = <<>> /\ WholeBatch = Batch BY <2>2 DEF BatchOver, WholeBatch
    <3>2. Batch \o queue = Batch BY <1>1, <3>1
    <3> QED BY <1>1, <3>1, <3>2
  <2> QED BY <2>1, <2>2
<1>3. IsInjective(WholeBatch)
  <2> DEFINE b == WholeBatch
  <2>1. /\ Len(b) \in Nat /\ DOMAIN b = 1..Len(b)
        /\ \A i, j \in DOMAIN b : i < j => b[i] # b[j]
    BY <1>2 DEF BatchOf
  <2> HIDE DEF b
  <2>2. \A i, j \in DOMAIN b : i # j => i < j \/ j < i BY <2>1
  <2>3. IsInjective(b) BY <2>1, <2>2 DEF IsInjective
  <2> QED BY <2>3 DEF b
<1> QED BY <1>2, <1>3

\* The batch is over and is handed to the client.
LEMMA SerialCheckReport ==
    ASSUME TypeOK, TypeOK', IInv, SerialInv, CheckReport
    PROVE  /\ SerialInv'
           /\ \E r \in Requests :
                 /\ Going(r)
                 /\ \A c \in Elements(CallsOf[r]) : reports[c] = 0 /\ reports'[c] = 1
                 /\ \A c \in Calls \ Elements(CallsOf[r]) : reports'[c] = reports[c]
<1> USE SchedulerAssumption
<1>1. Running("check") BY DEF CheckReport
<1>0. PICK r \in Requests : r = Me.sig BY <1>1, SteppingNow
<1>2. /\ frames = {} /\ Going(r) /\ ~isFinalizingToolCalls
      /\ Me.root \in {None, r} /\ requestQueue = <<>>
      /\ \A q \in Requests : Unsettled(q) => q = r
  BY <1>0, <1>1, SteppingNow
<1>3. /\ ~Busy /\ BatchOver /\ completed' = WholeBatch
      /\ status' \in {CancelQueued(status), status}
      /\ queue' = <<>> /\ active' = None /\ isFinalizingToolCalls' = TRUE
      /\ reports' = CountReports(WholeBatch) /\ jobs' = Tail(jobs)
      /\ Suspend(frames, "report", None, r, Me.root, None, 0)
      /\ UNCHANGED <<requestQueue, isScheduling, isCancelling, aborted, prompt,
                     args, promise, trail, answered, granted, ran>>
  BY <1>0 DEF CheckReport
<1>4. PICK n \in 0..MaxTwins :
         frames' = {Suspended("report", None, r, Me.root, None, 0, n)}
  <2>1. frames = {} BY <1>2
  <2> QED BY <1>3, <2>1, SuspendOne
<1> DEFINE f == Suspended("report", None, r, Me.root, None, 0, n)
<1>5. frames' = {f} /\ f.at = "report" /\ f.sig = r /\ f.root = Me.root
  BY <1>4 DEF Suspended
<1> HIDE DEF f
<1>6. /\ WholeBatch \in Seq(Calls) /\ BatchOf(r, WholeBatch)
      /\ Elements(WholeBatch) = Elements(CallsOf[r])
      /\ IsInjective(WholeBatch)
  BY <1>0, <1>2, <1>3, ReportedBatch
<1>7. PlacesOf(r) BY <1>2, BatchMine
<1>8. CallsOf[r] \in Seq(Calls) /\ Elements(CallsOf[r]) \subseteq Calls
  BY CallsOfType
<1>9. /\ \A c \in Elements(CallsOf[r]) : reports[c] = 0 /\ reports'[c] = 1
      /\ \A c \in Calls \ Elements(CallsOf[r]) : reports'[c] = reports[c]
  BY <1>3, <1>6, <1>7, <1>8, CountOnce DEF PlacesOf
<1>10. /\ Settled(r)'
       /\ \A q \in Requests : Settled(q) => Settled(q)'
       /\ \A q \in Requests : ~Unsettled(q)' /\ ~Going(q)'
  <2>1. Settled(r)' BY <1>9 DEF Settled
  <2>2. \A q \in Requests : Settled(q) => Settled(q)'
    <3> SUFFICES ASSUME NEW q \in Requests, Settled(q), NEW c \in Elements(CallsOf[q])
                 PROVE  reports'[c] > 0
      BY DEF Settled
    <3>1. c \in Calls /\ reports[c] > 0 BY CallsOfType DEF Settled
    <3> QED BY <1>9, <3>1
  <2> QED BY <1>2, <1>3, <2>1, <2>2 DEF Unsettled, Going
<1>11. /\ ~Stepping' /\ (\A x : Running(x)' => x = "unwind")
       /\ Elements(jobs) = Elements(jobs)' \cup {Me}
       /\ \A job \in Elements(jobs)' :
             /\ job.sig \in Requests /\ Settled(job.sig)
             /\ job.root \in {None, job.sig} /\ job.fn = "unwind"
  BY <1>1, <1>3, SuspendControl
<1>12. OneUnsettled' BY <1>2, <1>3, <1>10, ElementsEmpty DEF OneUnsettled
<1>13. ChainInv'
  <2>1. isScheduling' => \/ \E job \in Elements(jobs)' : job.root # None
                         \/ f.root # None
    BY <1>2, <1>3, <1>5, <1>11 DEF SerialInv, ChainInv
  <2> QED BY <1>2, <1>5, <1>10, <1>11, <2>1 DEF ChainInv
<1>14. ControlInv' BY <1>5, <1>10, <1>11 DEF ControlInv
<1>15. MethodInv' BY <1>3, <1>11 DEF MethodInv
<1>16. \A c \in Calls : status'[c] \in {status[c], "cancelled"}
  BY <1>3 DEF CancelQueued
<1>17. AwaitInv'
  <2>1. \A c \in Calls :
           status[c] \notin {"scheduled", "awaiting_approval", "executing"}
    BY <1>3 DEF SerialInv, AwaitInv, Busy, Terminal
  <2> QED BY <1>5, <1>16, <2>1 DEF AwaitInv
<1>18. FinalizingInv' BY <1>3, <1>5, <1>10, <1>11 DEF FinalizingInv
<1>19. BatchInv'
  <2>1. BatchOfOneRequest' BY <1>3, <1>6, BatchThen
  <2>2. Elements(completed)' \subseteq Calls BY <1>3, <1>6, <1>8
  <2> QED BY <1>3, <1>10, <2>1, <2>2, ElementsEmpty DEF BatchInv
<1>20. RanInv'
  <2>1. \A c \in Calls :
              \/ status'[c] \in {"new", "validating", "scheduled",
                                 "awaiting_approval"}
              \/ c \in Elements(queue)'
              => ran[c] = <<>>
    BY <1>3, <1>16, ElementsEmpty DEF SerialInv, RanInv
  <2>2. ReportedOnce' BY <1>9 DEF SerialInv, RanInv, ReportedOnce
  <2>3. \A c \in Calls : Executing(c) => Executing(c)' BY <1>2 DEF Executing
  <2> QED BY <1>3, <2>1, <2>2, <2>3, RanKeeps
<1>21. SerialInv'
  BY <1>12, <1>13, <1>14, <1>15, <1>17, <1>18, <1>19, <1>20 DEF SerialInv
<1> QED BY <1>2, <1>9, <1>21

\* A chain ends behind a report: nothing of a batch changes.
LEMMA OverKeeps ==
    ASSUME TypeOK, IInv, SerialInv, UnwindJob \/ \E f \in frames : ReportThrows(f)
    PROVE  SerialInv'
<1>1. UNCHANGED <<active, status, queue, completed, requestQueue,
                  isFinalizingToolCalls, isCancelling, aborted, prompt, args,
                  trail, answered, granted, ran, reports>>
  BY DEF UnwindJob, ReportThrows
<1>2. /\ \A q \in Requests : Unsettled(q)' <=> Unsettled(q)
      /\ ~Stepping /\ ~Stepping' /\ (\A x : Running(x)' => x = "unwind")
      /\ Elements(jobs)' \subseteq Elements(jobs)
      /\ frames' \subseteq frames
      /\ \A f \in frames \ frames' : f.at = "report" /\ "report" \in Faults
      /\ isScheduling' => \/ \E job \in Elements(jobs)' : job.root # None
                          \/ \E f \in frames' : f.root # None
  <2>1. CASE UnwindJob
    <3>1. /\ Running("unwind") /\ jobs # <<>> /\ jobs' = Tail(jobs)
          /\ Unwind(Me.root, "resolved") /\ frames' = frames
      BY <2>1 DEF UnwindJob, End, Running
    <3>2. /\ Me.sig \in Requests /\ Settled(Me.sig) /\ Me.root \in {None, Me.sig}
      BY <3>1, MeIn DEF SerialInv, ChainInv, Running, Me
    <3>3. \A q \in Requests : Unsettled(q)' <=> Unsettled(q)
      BY <1>1, <3>1, <3>2, UnwindSame
    <3>4. /\ ~Stepping' /\ (\A x : Running(x)' => x = "unwind")
          /\ Elements(jobs) = Elements(jobs)' \cup {Me}
      BY <3>1, SuspendControl
    <3>5. isScheduling' => isScheduling /\ Me.root = None
      BY <3>1 DEF Unwind
    <3> QED BY <3>1, <3>3, <3>4, <3>5 DEF SerialInv, ChainInv, Stepping, Running, Me
  <2>2. ASSUME NEW f \in frames, ReportThrows(f)
        PROVE  /\ \A q \in Requests : Unsettled(q)' <=> Unsettled(q)
               /\ ~Stepping /\ ~Stepping' /\ (\A x : Running(x)' => x = "unwind")
               /\ Elements(jobs)' \subseteq Elements(jobs)
               /\ frames' \subseteq frames
               /\ \A g \in frames \ frames' : g.at = "report" /\ "report" \in Faults
               /\ ~isScheduling'
    <3>1. /\ jobs = <<>> /\ jobs' = <<>> /\ f.at = "report"
          /\ "report" \in Faults /\ frames' = frames \ {f}
          /\ Unwind(f.root, "rejected")
      BY <2>2 DEF ReportThrows, Idle
    <3>2. /\ f.sig \in Requests /\ Settled(f.sig) /\ f.root \in {None, f.sig}
          /\ \A g \in frames : g = f
      BY <3>1, FrameFields DEF SerialInv, ChainInv, ControlInv
    <3>3. \A q \in Requests : Unsettled(q)' <=> Unsettled(q)
      BY <1>1, <3>1, <3>2, UnwindSame
    <3>4. ~isScheduling'
      BY <3>1, <3>2, ElementsEmpty DEF SerialInv, ChainInv, Unwind
    <3> QED BY <3>1, <3>3, <3>4 DEF Stepping, Running, Elements
  <2> QED BY <2>1, <2>2
<1>3. \A q \in Requests : /\ Settled(q)' <=> Settled(q)
                          /\ Going(q)' <=> Going(q)
  BY <1>1, <1>2 DEF Settled, Going, Fresh
<1>4. \A q \in Requests : ~Starting(q) BY <1>2 DEF Starting, Stepping, Me
<1>5. OneUnsettled'
  <2>1. Elements(requestQueue)' = Elements(requestQueue) BY <1>1
  <2>2. Elements(requestQueue) \subseteq Requests BY DEF TypeOK, Elements
  <2> QED BY <1>2, <1>3, <1>4, <2>1, <2>2 DEF SerialInv, OneUnsettled
<1>6. ChainInv'
  <2>1. \A job \in Elements(jobs) : job.sig \in Requests BY JobFields
  <2>2. \A f \in frames : f.sig \in Requests BY FrameFields
  <2> QED BY <1>2, <1>3, <2>1, <2>2 DEF SerialInv, ChainInv
<1>7. ControlInv'
  <2>1. \A f \in frames : f.sig \in Requests BY FrameFields
  <2>2. \A r \in Requests : Going(r) => \A f \in frames : f.at # "report"
    BY DEF SerialInv, FinalizingInv
  <2>3. \A r \in Requests : Going(r)' => frames' # {} \/ active' # None
    BY <1>1, <1>2, <1>3, <2>2 DEF SerialInv, ControlInv
  <2> QED BY <1>1, <1>2, <1>3, <2>1, <2>3 DEF SerialInv, ControlInv
<1>8. MethodInv'
  <2>1. isCancelling => isFinalizingToolCalls
    BY <1>2 DEF SerialInv, MethodInv, Running, Stepping, Me
  <2> QED BY <1>1, <1>2, <2>1 DEF MethodInv
<1>9. AwaitInv'
  <2>1. \A c \in Calls : /\ status[c] # "scheduled"
                         /\ Executing(c) => Executing(c)'
    BY <1>2 DEF SerialInv, AwaitInv, Running, Stepping, Me, Executing
  <2> QED BY <1>1, <1>2, <2>1 DEF SerialInv, AwaitInv
<1>10. FinalizingInv' BY <1>1, <1>2, <1>3 DEF SerialInv, FinalizingInv
<1>11. BatchInv'
  <2>1. BatchOfOneRequest' BY <1>1, BatchSame DEF SerialInv, BatchInv
  <2>2. Elements(queue)' = Elements(queue) /\ Elements(completed)' = Elements(completed)
    BY <1>1
  <2>3. ASSUME NEW r \in Requests, Going(r) PROVE PlacesOf(r)'
    <3>1. PlacesOf(r) /\ ~Closing
      BY <1>2, <2>3 DEF SerialInv, BatchInv, Closing, Running, Stepping, Me
    <3>2. InTurn(r) BY <3>1 DEF PlacesOf
    <3>3. queue' = queue /\ completed' = completed /\ active' = active BY <1>1
    <3>4. InTurn(r)' BY <3>2, <3>3 DEF InTurn
    <3> QED BY <1>1, <3>1, <3>4 DEF PlacesOf
  <2> QED BY <1>1, <1>3, <2>1, <2>2, <2>3 DEF SerialInv, BatchInv
<1>12. RanInv'
  <2>1. \A c \in Calls :
              \/ status'[c] \in {"new", "validating", "scheduled",
                                 "awaiting_approval"}
              \/ c \in Elements(queue)'
              => ran[c] = <<>>
    BY <1>1 DEF SerialInv, RanInv, Elements
  <2>2. ReportedOnce' BY <1>1 DEF SerialInv, RanInv, ReportedOnce
  <2>3. \A c \in Calls : Executing(c) => Executing(c)' BY <1>2 DEF Executing
  <2> QED BY <1>1, <2>1, <2>2, <2>3, RanKeeps
<1> QED BY <1>5, <1>6, <1>7, <1>8, <1>9, <1>10, <1>11, <1>12 DEF SerialInv

\* While no request goes there is no active call and nothing is suspended but a report.
LEMMA NothingGoes ==
    ASSUME TypeOK, SerialInv, Idle, \A r \in Requests : ~Going(r)
    PROVE  /\ active = None /\ queue = <<>>
           /\ completed = <<>> \/ isFinalizingToolCalls
           /\ \A f \in frames : f.at = "report" /\ isFinalizingToolCalls
           /\ ~isFinalizingToolCalls => frames = {} /\ ~isScheduling
           /\ isCancelling => isFinalizingToolCalls
           /\ \A c \in Calls : ~Executing(c)
<1>1. /\ active = None /\ queue = <<>>
      /\ completed = <<>> \/ isFinalizingToolCalls
  BY DEF SerialInv, BatchInv
<1>2. \A f \in frames : f.at = "report" /\ isFinalizingToolCalls
  BY FrameFields DEF SerialInv, ControlInv, FinalizingInv
<1>3. ~isFinalizingToolCalls => frames = {} /\ ~isScheduling
  BY <1>2, ElementsEmpty DEF SerialInv, ChainInv, Idle
<1>4. isCancelling => isFinalizingToolCalls
  BY DEF SerialInv, MethodInv, Running, Idle
<1> QED BY <1>1, <1>2, <1>3, <1>4 DEF Executing

\* A step while no request goes, after which none goes, leaves the calls alone.
LEMMA NothingMoves ==
    ASSUME TypeOK, SerialInv, Idle,
           \A r \in Requests : ~Going(r), \A r \in Requests : ~Going(r)',
           UNCHANGED <<active, status, queue, args, prompt, trail, granted, ran,
                       reports>>,
           aborted \subseteq aborted', frames' \subseteq frames,
           completed' = <<>> \/ UNCHANGED <<completed, isFinalizingToolCalls>>
    PROVE  AwaitInv' /\ BatchInv' /\ RanInv'
<1> USE SchedulerAssumption
<1>1. /\ active = None /\ queue = <<>>
      /\ completed = <<>> \/ isFinalizingToolCalls
      /\ \A f \in frames : f.at = "report"
      /\ \A c \in Calls : ~Executing(c)
  BY NothingGoes
<1>2. AwaitInv'
  <2>1. \A c \in Calls :
           status[c] \notin {"scheduled", "awaiting_approval", "executing"}
    BY <1>1 DEF SerialInv, AwaitInv
  <2> QED BY <1>1, <2>1 DEF AwaitInv
<1>3. BatchInv'
  <2>1. CASE completed' = <<>>
    <3>1. BatchOfOneRequest' BY <2>1 DEF BatchOfOneRequest
    <3> QED BY <1>1, <2>1, <3>1, ElementsEmpty DEF BatchInv
  <2>2. CASE UNCHANGED <<completed, isFinalizingToolCalls>>
    <3>1. BatchOfOneRequest' BY <2>2, BatchSame DEF SerialInv, BatchInv
    <3>2. Elements(completed)' = Elements(completed)
          /\ Elements(queue)' = Elements(queue)
      BY <2>2
    <3> QED BY <1>1, <2>2, <3>1, <3>2 DEF SerialInv, BatchInv
  <2> QED BY <2>1, <2>2
<1>4. RanInv'
  <2>1. \A c \in Calls :
              \/ status'[c] \in {"new", "validating", "scheduled",
                                 "awaiting_approval"}
              \/ c \in Elements(queue)'
              => ran[c] = <<>>
    BY DEF SerialInv, RanInv, Elements
  <2>2. ReportedOnce' BY DEF SerialInv, RanInv, ReportedOnce
  <2> QED BY <1>1, <2>1, <2>2, RanKeeps
<1> QED BY <1>2, <1>3, <1>4

\* The batch is cleared, and the request that waited starts.
LEMMA SerialReportDone ==
    ASSUME TypeOK, TypeOK', IInv, SerialInv, NEW f \in frames, ReportDone(f)
    PROVE  SerialInv'
<1> USE SchedulerAssumption
<1>1. /\ Idle /\ jobs = <<>> /\ f.at = "report" /\ frames' = frames \ {f}
      /\ completed' = <<>>
      /\ isFinalizingToolCalls' = FALSE /\ isCancelling' = FALSE
      /\ UNCHANGED <<active, status, queue, aborted, prompt, args, trail,
                     answered, granted, ran, reports>>
      /\ StartNext(f)
  BY DEF ReportDone, Idle
<1>2. /\ f.sig \in Requests /\ Settled(f.sig) /\ f.root \in {None, f.sig}
      /\ frames' = {} /\ isFinalizingToolCalls
      /\ \A r \in Requests : ~Going(r)
  BY <1>1, FrameFields
     DEF SerialInv, ChainInv, ControlInv, FinalizingInv
<1>3. active = None /\ queue = <<>> BY <1>1, <1>2, NothingGoes
<1>4. \A q \in Requests : (Settled(q)' <=> Settled(q)) /\ (Fresh(q)' <=> Fresh(q))
  BY <1>1 DEF Settled, Fresh
<1>5. \A q \in Requests : ~Starting(q) BY <1>1 DEF Starting
<1>6. \A q \in Requests : Unsettled(q) <=> q \in Elements(requestQueue)
  BY <1>2, <1>5 DEF SerialInv, OneUnsettled
<1>7. isScheduling => f.root # None
  BY <1>1, <1>2, ElementsEmpty DEF SerialInv, ChainInv, ControlInv
<1>8. /\ \A q \in Requests : (Unsettled(q)' <=> Unsettled(q)) /\ ~Going(q)'
      /\ requestQueue' = <<>>
      /\ OneUnsettled' /\ ChainInv' /\ ControlInv' /\ MethodInv'
  <2>1. CASE requestQueue = <<>>
    <3>1. /\ jobs' = <<>> /\ requestQueue' = <<>> /\ Unwind(f.root, "resolved")
      BY <1>1, <2>1 DEF StartNext, Return
    <3>2. \A q \in Requests : Unsettled(q)' <=> Unsettled(q)
      BY <1>1, <1>2, <3>1, UnwindSame
    <3>3. /\ \A q \in Requests : ~Unsettled(q)' /\ ~Going(q)'
          /\ Elements(jobs)' = {} /\ Elements(requestQueue)' = {}
      BY <1>6, <2>1, <3>1, <3>2, ElementsEmpty DEF Going
    <3>4. ~isScheduling' BY <1>7, <3>1 DEF Unwind
    <3>5. OneUnsettled' BY <3>3 DEF OneUnsettled
    <3>6. ChainInv' BY <1>2, <3>3, <3>4 DEF ChainInv
    <3>7. ControlInv' /\ MethodInv'
      BY <1>1, <1>2, <3>1, <3>3 DEF ControlInv, MethodInv, Stepping, Running
    <3> QED BY <3>1, <3>2, <3>3, <3>5, <3>6, <3>7
  <2>2. CASE requestQueue # <<>>
    <3>0. PICK next \in Requests : next = Head(requestQueue)
      <4>1. requestQueue \in Seq(Requests) BY DEF TypeOK
      <4> QED BY <2>2, <4>1, HeadTail
    <3> DEFINE first == Run("schedule", next, next)
               last == Run("unwind", f.sig, f.root)
    <3>1. /\ jobs' = <<first, last>> /\ requestQueue' = Tail(requestQueue)
          /\ UNCHANGED <<isScheduling, promise>>
      BY <1>1, <2>2, <3>0 DEF StartNext
    <3>2. /\ requestQueue \in Seq(Requests) /\ IsInjective(requestQueue)
      BY DEF TypeOK, IInv, RequestInv
    <3>3. /\ next \in Requests /\ next \in Elements(requestQueue)
          /\ Elements(requestQueue) = Elements(Tail(requestQueue)) \cup {next}
          /\ next \notin Elements(Tail(requestQueue))
          /\ Tail(requestQueue) \in Seq(Requests)
      BY <2>2, <3>0, <3>2, HeadTail
    <3>4. /\ first.fn = "schedule" /\ first.sig = next /\ first.root = next
          /\ last.fn = "unwind" /\ last.sig = f.sig /\ last.root = f.root
      BY RunFields
    <3>5. /\ jobs' # <<>> /\ Head(jobs') = first /\ Elements(jobs)' = {first, last}
      BY <3>1 DEF Elements
    <3> HIDE DEF first, last
    <3>6. /\ \A q \in Requests : Unsettled(q)' <=> Unsettled(q)
          /\ \A q \in Requests : ~Going(q)'
      BY <1>2, <1>4, <3>1 DEF Unsettled, Going
    <3>7. Unsettled(next) /\ \A q \in Requests : Unsettled(q) => q = next
      BY <1>6, <3>3 DEF SerialInv, OneUnsettled
    <3>8. requestQueue' = <<>>
      <4>1. Elements(Tail(requestQueue)) \subseteq Requests
        BY <3>3 DEF Elements
      <4>2. Elements(Tail(requestQueue)) = {} BY <1>6, <3>3, <3>7, <4>1
      <4>3. Tail(requestQueue) = <<>> BY <3>3, <4>2, HeadTail
      <4> QED BY <3>1, <4>3
    <3>9. Starting(next)' BY <3>4, <3>5 DEF Starting
    <3>10. OneUnsettled'
      BY <3>6, <3>7, <3>8, <3>9, ElementsEmpty DEF OneUnsettled
    <3>11. ChainInv'
      <4>1. \A job \in Elements(jobs)' :
               /\ job.root \in {None, job.sig}
               /\ job.fn = "unwind" => Settled(job.sig)'
               /\ job.fn # "cancelAll"
        BY <1>2, <1>4, <3>4, <3>5
      <4>2. first \in Elements(jobs)' /\ first.root # None BY <3>3, <3>4, <3>5
      <4> QED BY <1>2, <4>1, <4>2 DEF ChainInv
    <3>12. ControlInv' /\ MethodInv'
      BY <1>1, <1>2, <3>4, <3>5, <3>6, <3>7
         DEF ControlInv, MethodInv, Stepping, Running, Me
    <3> QED BY <3>6, <3>8, <3>10, <3>11, <3>12
  <2> QED BY <2>1, <2>2
<1>9. FinalizingInv' BY <1>1, <1>2, <1>8 DEF FinalizingInv
<1>10. AwaitInv' /\ BatchInv' /\ RanInv' BY <1>1, <1>2, <1>8, NothingMoves
<1> QED BY <1>8, <1>9, <1>10 DEF SerialInv

-----------------------------------------------------------------------------
(***************************************************************************)
(* What the client does.                                                   *)
(***************************************************************************)
\* A request is accepted when no other is under way.
LEMMA SerialSchedule ==
    ASSUME TypeOK, TypeOK', IInv, SerialInv, OneAtATime,
           NEW r \in Requests, Schedule(r)
    PROVE  SerialInv'
<1> USE SchedulerAssumption
<1>1. /\ Idle /\ jobs = <<>> /\ promise[r] = "unsent"
      /\ promise' = [promise EXCEPT ![r] = "pending"]
      /\ UNCHANGED <<active, status, queue, completed, isFinalizingToolCalls,
                     isScheduling, isCancelling, aborted, prompt, args, frames,
                     trail, answered, granted, ran, reports>>
  BY DEF Schedule, Idle
<1>2. \A q \in Requests : ~Unsettled(q) /\ ~Going(q)
  BY <1>1 DEF Schedule, ClientFree, OneAtATime, Unsettled, Going
<1>3. /\ active = None /\ queue = <<>>
      /\ \A f \in frames : f.at = "report" /\ isFinalizingToolCalls
      /\ ~isFinalizingToolCalls => frames = {} /\ ~isScheduling
      /\ isCancelling => isFinalizingToolCalls
  BY <1>1, <1>2, NothingGoes
<1>4. requestQueue = <<>>
  <2>1. requestQueue \in Seq(Requests) BY DEF TypeOK
  <2>2. Elements(requestQueue) = {}
    BY <1>2, <2>1 DEF SerialInv, OneUnsettled, Elements
  <2> QED BY <2>1, <2>2, HeadTail
<1>5. Fresh(r) BY <1>1 DEF IInv, RequestInv
<1>6. \A q \in Requests : /\ Settled(q)' <=> Settled(q)
                          /\ Fresh(q)' <=> Fresh(q)
                          /\ q # r => (Unsettled(q)' <=> Unsettled(q))
  BY <1>1 DEF Settled, Fresh, Unsettled, TypeOK
<1>7. Unsettled(r)'
  <2>1. /\ CallsOf[r] \in Seq(Calls) /\ CallsOf[r] # <<>>
        /\ Elements(CallsOf[r]) \subseteq Calls
    BY CallsOfType DEF OneAtATime
  <2>2. Head(CallsOf[r]) \in Elements(CallsOf[r]) BY <2>1, HeadTail
  <2>3. ~(reports[Head(CallsOf[r])] > 0)
    BY <1>5, <2>1, <2>2 DEF Fresh, IInv, FinalInv, Terminal
  <2>4. ~Settled(r)' BY <1>1, <2>2, <2>3 DEF Settled
  <2>5. promise'[r] = "pending" BY <1>1 DEF TypeOK
  <2> QED BY <2>4, <2>5 DEF Unsettled
<1>8. \A q \in Requests : (Unsettled(q)' <=> q = r) /\ ~Going(q)'
  BY <1>2, <1>5, <1>6, <1>7 DEF Going
<1>9. /\ OneUnsettled' /\ ChainInv' /\ ControlInv' /\ MethodInv' /\ FinalizingInv'
  <2>1. \A g \in frames : g.sig \in Requests BY FrameFields
  <2>2. CASE isRunning \/ isScheduling
    <3>1. requestQueue' = Append(requestQueue, r) /\ jobs' = <<>>
      BY <1>1, <2>2 DEF Schedule
    <3>2. isFinalizingToolCalls BY <1>3, <2>2 DEF isRunning
    <3>3. Elements(requestQueue)' = {r} BY <1>4, <3>1 DEF Elements
    <3>4. OneUnsettled' BY <1>8, <3>3 DEF OneUnsettled
    <3>5. ChainInv'
      BY <1>1, <1>6, <2>1, <3>1, ElementsEmpty DEF SerialInv, ChainInv
    <3>6. ControlInv'
      BY <1>1, <1>3, <1>8, <3>1 DEF SerialInv, ControlInv, Stepping
    <3>7. MethodInv' BY <1>1, <3>1, <3>2 DEF MethodInv, Running
    <3>8. FinalizingInv'
      BY <1>1, <1>3, <1>8, <3>1, <3>2 DEF SerialInv, FinalizingInv, Stepping
    <3> QED BY <3>4, <3>5, <3>6, <3>7, <3>8
  <2>3. CASE ~(isRunning \/ isScheduling)
    <3> DEFINE job == Run("schedule", r, r)
    <3>1. requestQueue' = requestQueue /\ jobs' = <<job>>
      BY <2>3 DEF Schedule, Start
    <3>2. job.fn = "schedule" /\ job.sig = r /\ job.root = r BY RunFields
    <3> HIDE DEF job
    <3>3. ~isFinalizingToolCalls /\ frames' = {} /\ ~isCancelling
      BY <1>1, <1>3, <2>3 DEF isRunning
    <3>4. jobs' # <<>> /\ Head(jobs') = job /\ Elements(jobs)' = {job}
      BY <3>1, ElementsOne
    <3>5. Starting(r)' BY <3>2, <3>4 DEF Starting
    <3>6. OneUnsettled' BY <1>4, <1>8, <3>1, <3>5, ElementsEmpty DEF OneUnsettled
    <3>7. ChainInv' BY <1>1, <2>3, <3>2, <3>3, <3>4 DEF ChainInv
    <3>8. ControlInv' BY <1>8, <3>2, <3>3, <3>4 DEF ControlInv, Stepping, Me
    <3>9. MethodInv'
      BY <1>1, <3>2, <3>3, <3>4 DEF MethodInv, Running
    <3>10. FinalizingInv' BY <1>1, <1>4, <3>1, <3>3 DEF FinalizingInv
    <3> QED BY <3>6, <3>7, <3>8, <3>9, <3>10
  <2> QED BY <2>2, <2>3
<1>10. AwaitInv' /\ BatchInv' /\ RanInv' BY <1>1, <1>2, <1>8, NothingMoves
<1> QED BY <1>9, <1>10 DEF SerialInv

\* An abort takes the request that waits out of the queue; otherwise it only sets
\* the signal.
LEMMA SerialAbort ==
    ASSUME TypeOK, TypeOK', IInv, SerialInv, NEW r \in Requests, Abort(r)
    PROVE  SerialInv'
<1> USE SchedulerAssumption
<1>1. /\ Idle /\ jobs = <<>> /\ jobs' = <<>> /\ aborted \subseteq aborted'
      /\ UNCHANGED <<active, status, queue, completed, isFinalizingToolCalls,
                     isScheduling, isCancelling, prompt, args, jobs, frames,
                     trail, answered, granted, ran, reports>>
      /\ AbortSignal(r)
  BY DEF Abort, CanCancel, AbortSignal, Idle
<1>2. \A q \in Requests : /\ Settled(q)' <=> Settled(q)
                          /\ Fresh(q)' <=> Fresh(q)
  BY <1>1 DEF Settled, Fresh
<1>3. \A f \in frames : f.sig \in Requests BY FrameFields
<1>4. requestQueue \in Seq(Requests) /\ IsInjective(requestQueue)
  BY DEF TypeOK, IInv, RequestInv
<1>5. ChainInv'
  BY <1>1, <1>2, <1>3, ElementsEmpty DEF SerialInv, ChainInv
<1>6. MethodInv' BY <1>1 DEF SerialInv, MethodInv, Running
<1>7. \A q \in Requests : ~Starting(q) /\ ~Starting(q)' BY <1>1 DEF Starting
<1>8. CASE AbortQueued(r)
  <2>1. PICK i \in DOMAIN requestQueue :
           /\ requestQueue[i] = r
           /\ requestQueue' = Without(requestQueue, i)
           /\ promise' = [promise EXCEPT ![r] = "rejected"]
    BY <1>8 DEF AbortQueued
  <2>2. r \in Elements(requestQueue) BY <2>1 DEF Elements
  <2>3. /\ Unsettled(r) /\ \A q \in Requests : Unsettled(q) => q = r
        /\ \A q \in Elements(requestQueue) : q \in Requests /\ q = r
    <3>1. Elements(requestQueue) \subseteq Requests BY <1>4 DEF Elements
    <3> QED BY <2>2, <3>1 DEF SerialInv, OneUnsettled
  <2>4. \A q \in Requests : ~Unsettled(q)'
    BY <1>2, <2>1, <2>3 DEF Unsettled, TypeOK
  <2>5. requestQueue' = <<>>
    <3>1. i \in 1..Len(requestQueue) BY <1>4
    <3>2. requestQueue' \in Seq(Requests) BY <1>4, <2>1, <3>1, WithoutType
    <3>3. Elements(requestQueue)' \subseteq Elements(requestQueue) \ {r}
      BY <1>4, <2>1, Removed
    <3>4. Elements(requestQueue)' = {} BY <2>3, <3>3
    <3>5. \A s \in Seq(Requests) : s # <<>> => Elements(s) # {} BY HeadTail
    <3> QED BY <3>2, <3>4, <3>5
  <2>6. requestQueue # <<>> BY <2>2, ElementsEmpty
  <2>7. isFinalizingToolCalls /\ \A q \in Requests : ~Going(q)
    BY <2>6 DEF SerialInv, FinalizingInv
  <2>8. \A q \in Requests : ~Going(q)' BY <2>4 DEF Going
  <2>9. OneUnsettled' BY <2>4, <2>5, ElementsEmpty DEF OneUnsettled
  <2>10. ControlInv'
    BY <1>1, <1>3, <2>7, <2>8 DEF SerialInv, ControlInv, FinalizingInv, Stepping
  <2>11. FinalizingInv'
    BY <1>1, <2>5, <2>8 DEF SerialInv, FinalizingInv, Stepping
  <2>12. AwaitInv' /\ BatchInv' /\ RanInv' BY <1>1, <2>7, <2>8, NothingMoves
  <2> QED BY <1>5, <1>6, <2>9, <2>10, <2>11, <2>12 DEF SerialInv
<1>9. CASE UNCHANGED <<requestQueue, promise>>
  <2>1. \A q \in Requests : /\ Unsettled(q)' <=> Unsettled(q)
                            /\ Going(q)' <=> Going(q)
    BY <1>2, <1>9 DEF Unsettled, Going
  <2>2. OneUnsettled'
    <3>1. Elements(requestQueue)' = Elements(requestQueue)
          /\ Elements(requestQueue) \subseteq Requests
      BY <1>4, <1>9 DEF Elements
    <3> QED BY <1>7, <2>1, <3>1 DEF SerialInv, OneUnsettled
  <2>3. ControlInv' BY <1>1, <1>3, <2>1 DEF SerialInv, ControlInv, Stepping
  <2>4. AwaitInv' BY <1>1 DEF SerialInv, AwaitInv, Running, Executing
  <2>5. FinalizingInv' BY <1>1, <1>9, <2>1 DEF SerialInv, FinalizingInv, Stepping
  <2>6. BatchInv'
    <3>1. BatchOfOneRequest' BY <1>1, BatchSame DEF SerialInv, BatchInv
    <3>2. /\ Elements(queue)' = Elements(queue)
          /\ Elements(completed)' = Elements(completed)
      BY <1>1
    <3>3. ASSUME NEW q \in Requests, Going(q) PROVE PlacesOf(q)'
      <4>1. PlacesOf(q) /\ ~Closing
        BY <1>1, <3>3 DEF SerialInv, BatchInv, Closing, Running
      <4>2. InTurn(q) BY <4>1 DEF PlacesOf
      <4>3. queue' = queue /\ completed' = completed /\ active' = active BY <1>1
      <4>4. InTurn(q)' BY <4>2, <4>3 DEF InTurn
      <4> QED BY <1>1, <4>1, <4>4 DEF PlacesOf
    <3> QED BY <1>1, <2>1, <3>1, <3>2, <3>3 DEF SerialInv, BatchInv
  <2>7. RanInv'
    <3>1. \A c \in Calls :
                \/ status'[c] \in {"new", "validating", "scheduled",
                                   "awaiting_approval"}
                \/ c \in Elements(queue)'
                => ran[c] = <<>>
      BY <1>1 DEF SerialInv, RanInv, Elements
    <3>2. ReportedOnce' BY <1>1 DEF SerialInv, RanInv, ReportedOnce
    <3>3. \A c \in Calls : Executing(c) => Executing(c)' BY <1>1 DEF Executing
    <3> QED BY <1>1, <3>1, <3>2, <3>3, RanKeeps
  <2> QED BY <1>5, <1>6, <2>2, <2>3, <2>4, <2>5, <2>6, <2>7 DEF SerialInv
<1> QED BY <1>1, <1>8, <1>9 DEF AbortSignal

-----------------------------------------------------------------------------
(***************************************************************************)
(* Every step, and the properties of a batch.                              *)
(***************************************************************************)
\* What one batch at a time never does: start on a busy scheduler, find nothing to
\* do, cancel twice.
LEMMA NeverSerial ==
    ASSUME TypeOK, IInv, SerialInv, OneAtATime
    PROVE  /\ ~ScheduleThrows /\ ~ProcessNothing /\ ~CancelAllAgain
           /\ ~CheckBusy /\ ~CheckNothing
           /\ \A r \in Requests : ~UserCancel(r)
<1>1. ~ScheduleThrows
  <2> SUFFICES ASSUME ScheduleThrows PROVE FALSE OBVIOUS
  <2>1. Running("schedule") /\ isRunning BY DEF ScheduleThrows
  <2>2. /\ ~isFinalizingToolCalls /\ Me.sig \in Requests /\ jobs # <<>>
        /\ Me.fn = "schedule"
        /\ \A q \in Requests : Unsettled(q) => q = Me.sig
    BY <2>1, SteppingNow
  <2>3. active # None BY <2>1, <2>2 DEF isRunning
  <2>4. Going(Me.sig) BY <2>2, <2>3 DEF SerialInv, BatchInv, Going
  <2>5. Starting(Me.sig) BY <2>2 DEF Starting, Me
  <2>6. Fresh(Me.sig) BY <2>2, <2>5 DEF IInv, RequestInv
  <2> QED BY <2>4, <2>6 DEF Going
<1>2. ~ProcessNothing BY DEF ProcessNothing, SerialInv, MethodInv
<1>3. ~CancelAllAgain BY SteppingNow DEF CancelAllAgain
<1>4. ~CheckBusy BY DEF CheckBusy, SerialInv, MethodInv
<1>5. ~CheckNothing
  <2> SUFFICES ASSUME CheckNothing PROVE FALSE OBVIOUS
  <2>1. Running("check") /\ BatchOver /\ WholeBatch = <<>> BY DEF CheckNothing
  <2>2. Me.sig \in Requests /\ Going(Me.sig) BY <2>1, SteppingNow
  <2>3. Elements(CallsOf[Me.sig]) = {}
    BY <2>1, <2>2, ReportedBatch, ElementsEmpty
  <2> QED BY <2>2, <2>3 DEF Going, Fresh
<1>6. \A r \in Requests : ~UserCancel(r) BY DEF UserCancel, OneAtATime
<1> QED BY <1>1, <1>2, <1>3, <1>4, <1>5, <1>6

\* Nothing is under way at first.
LEMMA SerialInit ==
    ASSUME Init
    PROVE  SerialInv
<1> USE SchedulerAssumption
<1>1. /\ active = None /\ queue = <<>> /\ completed = <<>> /\ requestQueue = <<>>
      /\ isFinalizingToolCalls = FALSE /\ isScheduling = FALSE
      /\ isCancelling = FALSE /\ jobs = <<>> /\ frames = {}
      /\ \A c \in Calls : /\ status[c] = "new" /\ prompt[c].sig = None
                          /\ trail[c] = {} /\ ran[c] = <<>> /\ reports[c] = 0
      /\ \A r \in Requests : promise[r] = "unsent"
  BY DEF Init
<1>2. \A r \in Requests : ~Unsettled(r) /\ ~Going(r)
  BY <1>1 DEF Unsettled, Going
<1>3. Elements(jobs) = {} /\ Elements(queue) = {} /\ Elements(completed) = {}
      /\ Elements(requestQueue) = {}
  BY <1>1, ElementsEmpty
<1>4. OneUnsettled BY <1>2, <1>3 DEF OneUnsettled
<1>5. ChainInv BY <1>1, <1>3 DEF ChainInv
<1>6. ControlInv BY <1>1, <1>2 DEF ControlInv, Stepping
<1>7. MethodInv BY <1>1 DEF MethodInv, Running
<1>8. AwaitInv BY <1>1 DEF AwaitInv
<1>9. FinalizingInv BY <1>1 DEF FinalizingInv
<1>10. BatchInv BY <1>1, <1>2, <1>3 DEF BatchInv, BatchOfOneRequest
<1>11. RanInv
  <2>1. \A r \in Requests : \A c \in Elements(CallsOf[r]) : trail[c] = {}
    BY <1>1, CallsOfType
  <2>2. OutcomeAudited BY <2>1 DEF OutcomeAudited
  <2> QED BY <1>1, <1>3, <2>2 DEF RanInv, RunsOnce, RunsGrantedArgs, ReportedOnce
<1> QED
  BY <1>4, <1>5, <1>6, <1>7, <1>8, <1>9, <1>10, <1>11 DEF SerialInv

\* A step that changes nothing.
LEMMA SerialStutter ==
    ASSUME TypeOK, SerialInv, UNCHANGED vars
    PROVE  SerialInv'
<1>1. UNCHANGED <<active, status, queue, completed, requestQueue,
                  isFinalizingToolCalls, isScheduling, isCancelling, aborted,
                  prompt, args, promise, jobs, frames, trail, granted, ran,
                  reports>>
  BY DEF vars
<1>2. \A r \in Requests : /\ Settled(r)' <=> Settled(r)
                          /\ Unsettled(r)' <=> Unsettled(r)
                          /\ Fresh(r)' <=> Fresh(r)
                          /\ Going(r)' <=> Going(r)
                          /\ Starting(r)' <=> Starting(r)
  BY <1>1 DEF Settled, Unsettled, Fresh, Going, Starting
<1>3. /\ Elements(jobs)' = Elements(jobs) /\ Elements(queue)' = Elements(queue)
      /\ Elements(completed)' = Elements(completed)
      /\ Elements(requestQueue)' = Elements(requestQueue)
      /\ Elements(requestQueue) \subseteq Requests
      /\ \A job \in Elements(jobs) : job.sig \in Requests
      /\ \A f \in frames : f.sig \in Requests
  BY <1>1, JobFields, FrameFields DEF TypeOK, Elements
<1>4. /\ Stepping' <=> Stepping
      /\ \A fn : Running(fn)' <=> Running(fn)
      /\ \A c \in Calls : Executing(c)' <=> Executing(c)
      /\ Busy' <=> Busy
      /\ Me' = Me
  BY <1>1 DEF Stepping, Running, Executing, Busy, Me
<1>5. OneUnsettled' BY <1>2, <1>3 DEF SerialInv, OneUnsettled
<1>6. ChainInv' BY <1>1, <1>2, <1>3 DEF SerialInv, ChainInv
<1>7. ControlInv'
  <2>1. ASSUME NEW r \in Requests, r = Me.sig, Stepping
        PROVE  /\ frames' = {} /\ Unsettled(r)' /\ Me' = Me
               /\ Me.fn # "schedule" => Going(r)'
    <3>1. /\ frames = {} /\ Unsettled(r)
          /\ Me.fn # "schedule" => Going(r)
      BY <2>1 DEF SerialInv, ControlInv
    <3> QED BY <1>1, <1>2, <1>4, <3>1
  <2>2. \A f \in frames' : f.at # "report" => Going(f.sig)' /\ active' = f.call
    BY <1>1, <1>2, <1>3 DEF SerialInv, ControlInv
  <2>3. \A r \in Requests : Going(r)' => Stepping' \/ frames' # {} \/ active' # None
    BY <1>1, <1>2, <1>4 DEF SerialInv, ControlInv
  <2>4. \A f, g \in frames' : f = g BY <1>1 DEF SerialInv, ControlInv
  <2>5. Stepping' => frames' = {} /\ Unsettled(Me.sig)'
    BY <1>3, <1>4, <2>1, MeIn DEF Stepping
  <2>6. Stepping' /\ Me'.fn # "schedule" => Going(Me.sig)'
    BY <1>3, <1>4, <2>1, MeIn DEF Stepping
  <2> QED BY <2>2, <2>3, <2>4, <2>5, <2>6 DEF ControlInv
<1>8. MethodInv' BY <1>1, <1>4 DEF SerialInv, MethodInv
<1>9. AwaitInv' BY <1>1, <1>4 DEF SerialInv, AwaitInv
<1>10. FinalizingInv' BY <1>1, <1>2, <1>4 DEF SerialInv, FinalizingInv
<1>11. BatchInv'
  <2>1. BatchOfOneRequest' BY <1>1, BatchSame DEF SerialInv, BatchInv
  <2>2. ASSUME NEW r \in Requests, PlacesOf(r) PROVE PlacesOf(r)'
    <3>1. queue' = queue /\ completed' = completed /\ active' = active BY <1>1
    <3>2. InTurn(r)' <=> InTurn(r) BY <3>1 DEF InTurn
    <3>3. Closing' <=> Closing BY <1>1, <1>4 DEF Closing
    <3> QED BY <1>1, <1>3, <2>2, <3>2, <3>3 DEF PlacesOf
  <2> QED BY <1>1, <1>2, <1>3, <2>1, <2>2 DEF SerialInv, BatchInv
<1>12. RanInv'
  <2>1. \A c \in Calls :
              \/ status'[c] \in {"new", "validating", "scheduled",
                                 "awaiting_approval"}
              \/ c \in Elements(queue)'
              => ran[c] = <<>>
    BY <1>1, <1>3 DEF SerialInv, RanInv
  <2>2. ReportedOnce' BY <1>1 DEF SerialInv, RanInv, ReportedOnce
  <2> QED BY <1>1, <1>4, <2>1, <2>2, RanKeeps
<1> QED
  BY <1>5, <1>6, <1>7, <1>8, <1>9, <1>10, <1>11, <1>12 DEF SerialInv

\* Every step keeps the invariant.
LEMMA SerialStep ==
    ASSUME OneAtATime, TypeOK, IInv, SerialInv, [Next]_vars
    PROVE  TypeOK' /\ IInv' /\ SerialInv'
<1>1. TypeOK' /\ IInv' BY InvStep
<1>2. CASE Method
  BY <1>1, <1>2, NeverSerial, SerialScheduleBatch, SerialCancel, SerialProcessNext,
     AttemptKeeps, SerialCheckNext, SerialCheckReport, OverKeeps DEF Method
<1>3. ASSUME NEW f \in frames, Resume(f) PROVE SerialInv'
  <2>1. CASE ReportThrows(f) BY <1>3, <2>1, OverKeeps
  <2>2. CASE ReportDone(f) BY <1>1, <2>2, SerialReportDone
  <2>3. CASE ~ReportThrows(f) /\ ~ReportDone(f)
    BY <1>1, <1>3, <2>3, ResumeKeeps, AwaitingHandlers DEF Resume
  <2> QED BY <2>1, <2>2, <2>3
<1>4. ASSUME NEW c \in Calls, Answer(c) PROVE SerialInv'
  BY <1>1, <1>4, AnswerKeeps
<1>5. ASSUME NEW r \in Requests, Schedule(r) \/ Abort(r) \/ UserCancel(r)
      PROVE  SerialInv'
  BY <1>1, <1>5, SerialSchedule, SerialAbort, NeverSerial
<1>6. ASSUME UNCHANGED vars PROVE SerialInv' BY <1>6, SerialStutter
<1>7. SerialInv'
  <2>1. CASE Next BY <1>2, <1>3, <1>4, <1>5, <2>1 DEF Next
  <2> QED BY <1>6, <2>1
<1> QED BY <1>1, <1>7

\* A scheduler that is given one batch at a time keeps SerialInv: one chain of control
\* works off the calls of one request (coreToolScheduler.ts 853-1048).
THEOREM SerialInvariant ==
    OneAtATime => (Spec => [](TypeOK /\ IInv /\ SerialInv))
<1> SUFFICES ASSUME OneAtATime
             PROVE  Spec => [](TypeOK /\ IInv /\ SerialInv)
  OBVIOUS
<1>1. Init => TypeOK /\ IInv /\ SerialInv BY InitInv, SerialInit
<1>2. (TypeOK /\ IInv /\ SerialInv) /\ [Next]_vars =>
         (TypeOK /\ IInv /\ SerialInv)'
  BY SerialStep
<1> QED BY <1>1, <1>2, PTL DEF Spec

\* Two tools never run at the same time, for any requests, calls, answers and faults
\* (attemptExecutionOfScheduledCalls, coreToolScheduler.ts 1347-1598).
THEOREM OneTool == OneAtATime => (Spec => []OneToolRuns)
<1> SUFFICES ASSUME OneAtATime PROVE Spec => []OneToolRuns OBVIOUS
<1>1. SerialInv => OneToolRuns
  <2> SUFFICES ASSUME SerialInv PROVE OneToolRuns OBVIOUS
  <2> DEFINE E == {f \in frames : f.at = "exec"}
  <2>1. \A f, g \in E : f = g BY DEF SerialInv, ControlInv
  <2>2. CASE E = {}
    <3>1. Cardinality(E) = 0 BY <2>2, FS_EmptySet
    <3> QED BY <3>1 DEF OneToolRuns
  <2>3. CASE E # {}
    <3>1. PICK f : E = {f} BY <2>1, <2>3
    <3>2. Cardinality(E) = 1 BY <3>1, FS_Singleton
    <3> QED BY <3>2 DEF OneToolRuns
  <2> QED BY <2>2, <2>3
<1> QED BY SerialInvariant, <1>1, PTL

\* No call runs twice, though answers and completions call
\* attemptExecutionOfScheduledCalls again (coreToolScheduler.ts 1347-1369).
THEOREM Once == OneAtATime => (Spec => []RunsOnce)
<1> SUFFICES ASSUME OneAtATime PROVE Spec => []RunsOnce OBVIOUS
<1>1. SerialInv => RunsOnce BY DEF SerialInv, RanInv
<1> QED BY SerialInvariant, <1>1, PTL

\* A call runs with the arguments that the user, or the check, agreed to, through the
\* editor's and the inline modifications (coreToolScheduler.ts 1173-1345).
THEOREM GrantedArgs == OneAtATime => (Spec => []RunsGrantedArgs)
<1> SUFFICES ASSUME OneAtATime PROVE Spec => []RunsGrantedArgs OBVIOUS
<1>1. SerialInv => RunsGrantedArgs BY DEF SerialInv, RanInv
<1> QED BY SerialInvariant, <1>1, PTL

\* A call runs under the signal of the request it came with: cancelling a request
\* reaches the tools it started (coreToolScheduler.ts 862-888, 1440-1470).
THEOREM OwnSignal == OneAtATime => (Spec => []RunsUnderOwnSignal)
<1> SUFFICES ASSUME OneAtATime PROVE Spec => []RunsUnderOwnSignal OBVIOUS
<1>1. TypeOK /\ IInv /\ SerialInv => RunsUnderOwnSignal
  <2> SUFFICES ASSUME TypeOK, IInv, SerialInv, NEW f \in frames, f.at = "exec"
               PROVE  f.call \in Elements(CallsOf[f.sig])
    BY DEF RunsUnderOwnSignal
  <2>1. f.sig \in Requests /\ f.call \in Calls
    BY FrameFields, FrameCall DEF IInv
  <2>2. Going(f.sig) /\ active = f.call BY DEF SerialInv, ControlInv
  <2>3. active # None BY <2>1, <2>2, SchedulerAssumption
  <2> QED BY <2>1, <2>2, <2>3, GoingOnly
<1> QED BY SerialInvariant, <1>1, PTL

\* No call is reported to the client twice, nor one whose batch another chain reports
\* (checkAndNotifyCompletion, coreToolScheduler.ts 1603-1664).
THEOREM ReportOnce == OneAtATime => (Spec => []ReportedOnce)
<1> SUFFICES ASSUME OneAtATime PROVE Spec => []ReportedOnce OBVIOUS
<1>1. SerialInv => ReportedOnce BY DEF SerialInv, RanInv
<1> QED BY SerialInvariant, <1>1, PTL

\* A batch holds the calls of one request, and those that ran in its order
\* (_schedule and _processNextInQueue, coreToolScheduler.ts 926-1048).
THEOREM OneRequest == OneAtATime => (Spec => []BatchOfOneRequest)
<1> SUFFICES ASSUME OneAtATime PROVE Spec => []BatchOfOneRequest OBVIOUS
<1>1. SerialInv => BatchOfOneRequest BY DEF SerialInv, BatchInv
<1> QED BY SerialInvariant, <1>1, PTL

\* An execution leaves its outcome in the audit trail, unless it was aborted
\* (coreToolScheduler.ts 1440-1598).
THEOREM Audited == OneAtATime => (Spec => []OutcomeAudited)
<1> SUFFICES ASSUME OneAtATime PROVE Spec => []OutcomeAudited OBVIOUS
<1>1. SerialInv => OutcomeAudited BY DEF SerialInv, RanInv
<1> QED BY SerialInvariant, <1>1, PTL

\* When nothing is under way no request waits, no call is queued or unreported and no
\* flag is set that would keep the next request from starting, if the client's report
\* handler does not throw (coreToolScheduler.ts 853-996, 1603-1664).
THEOREM NothingLeft ==
    OneAtATime /\ "report" \notin Faults => (Spec => []NothingLeftBehind)
<1> SUFFICES ASSUME OneAtATime, "report" \notin Faults
             PROVE  Spec => []NothingLeftBehind
  OBVIOUS
<1>1. TypeOK /\ SerialInv => NothingLeftBehind
  <2> SUFFICES ASSUME TypeOK, SerialInv, Idle, frames = {}, active = None
               PROVE  /\ requestQueue = <<>> /\ queue = <<>> /\ completed = <<>>
                      /\ ~isFinalizingToolCalls /\ ~isScheduling
                      /\ \A r \in Requests :
                            promise[r] \notin {"unsent", "rejected"} => Settled(r)
    BY DEF NothingLeftBehind
  <2>1. \A r \in Requests : ~Going(r) /\ ~Starting(r)
    BY DEF SerialInv, ControlInv, Stepping, Starting, Idle
  <2>2. ~isFinalizingToolCalls BY DEF SerialInv, FinalizingInv
  <2>3. queue = <<>> /\ completed = <<>> /\ ~isScheduling
    BY <2>1, <2>2, NothingGoes
  <2>4. requestQueue = <<>> BY <2>2 DEF SerialInv, FinalizingInv
  <2>5. \A r \in Requests : ~Unsettled(r)
    BY <2>1, <2>4, ElementsEmpty DEF SerialInv, OneUnsettled
  <2> QED BY <2>2, <2>3, <2>4, <2>5 DEF Unsettled
<1> QED BY SerialInvariant, <1>1, PTL
=============================================================================
