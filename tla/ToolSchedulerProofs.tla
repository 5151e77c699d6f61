------------------------- MODULE ToolSchedulerProofs -------------------------
(***************************************************************************)
(* Proofs of the safety properties of ToolScheduler, for any requests,     *)
(* calls, answers, faults and bounds: the steps are classed by what they   *)
(* do to the inductive invariant IInv, each class and each remaining       *)
(* action keeps it, and the properties follow.                             *)
(***************************************************************************)
EXTENDS ToolSchedulerInv, FiniteSetTheorems, TLAPS

(***************************************************************************)
(* Sequences: what the steps of the queues do to their elements.           *)
(***************************************************************************)
\* An empty queue has no elements.
LEMMA ElementsEmpty == Elements(<<>>) = {}
  BY DEF Elements

\* The elements of a queue are its head and those behind it, and the head is
\* not behind itself when nothing occurs twice.
LEMMA HeadTail ==
    ASSUME NEW S, NEW s \in Seq(S), s # <<>>
    PROVE  /\ Head(s) \in S /\ Tail(s) \in Seq(S)
           /\ Head(s) \in Elements(s)
           /\ Elements(s) = Elements(Tail(s)) \cup {Head(s)}
           /\ IsInjective(s) => /\ IsInjective(Tail(s))
                                /\ Head(s) \notin Elements(Tail(s))
<1>1. /\ Head(s) \in S /\ Tail(s) \in Seq(S)
      /\ Len(s) \in Nat /\ Len(s) > 0 /\ Head(s) = s[1]
      /\ DOMAIN s = 1..Len(s)
      /\ Len(Tail(s)) = Len(s) - 1 /\ DOMAIN Tail(s) = 1..(Len(s) - 1)
      /\ \A i \in 1..(Len(s) - 1) : Tail(s)[i] = s[i + 1]
  OBVIOUS
<1>2. Head(s) \in Elements(s)
  BY <1>1 DEF Elements
<1>3. ASSUME NEW x \in Elements(s), x # Head(s)
      PROVE  x \in Elements(Tail(s))
  <2>1. PICK i \in 1..Len(s) : x = s[i] BY <1>1 DEF Elements
  <2>2. i - 1 \in 1..(Len(s) - 1) BY <1>1, <1>3, <2>1
  <2>3. Tail(s)[i - 1] = s[i] BY <1>1, <2>1, <2>2
  <2> QED BY <1>1, <2>1, <2>2, <2>3 DEF Elements
<1>4. ASSUME NEW x \in Elements(Tail(s)) PROVE x \in Elements(s)
  <2>1. PICK i \in 1..(Len(s) - 1) : x = Tail(s)[i] BY <1>1 DEF Elements
  <2>2. i + 1 \in 1..Len(s) /\ x = s[i + 1] BY <1>1, <2>1
  <2> QED BY <1>1, <2>2 DEF Elements
<1>5. ASSUME IsInjective(s) PROVE IsInjective(Tail(s))
  <2>1. ASSUME NEW i \in 1..(Len(s) - 1), NEW j \in 1..(Len(s) - 1),
               Tail(s)[i] = Tail(s)[j]
        PROVE  i = j
    <3>1. i + 1 \in 1..Len(s) /\ j + 1 \in 1..Len(s) /\ s[i + 1] = s[j + 1]
      BY <1>1, <2>1
    <3>2. i + 1 = j + 1 BY <1>1, <1>5, <3>1 DEF IsInjective
    <3> QED BY <3>2
  <2> QED BY <1>1, <2>1 DEF IsInjective
<1>6. ASSUME IsInjective(s) PROVE Head(s) \notin Elements(Tail(s))
  <2> SUFFICES ASSUME NEW i \in 1..(Len(s) - 1), Head(s) = Tail(s)[i]
               PROVE  FALSE
    BY <1>1 DEF Elements
  <2>1. i + 1 \in 1..Len(s) /\ 1 \in 1..Len(s) /\ s[i + 1] = s[1] BY <1>1
  <2>2. i + 1 = 1 BY <1>1, <1>6, <2>1 DEF IsInjective
  <2> QED BY <2>2
<1> QED BY <1>1, <1>2, <1>3, <1>4, <1>5, <1>6

\* Appending adds an element, and no repetition when it was not there.
LEMMA Appended ==
    ASSUME NEW S, NEW s \in Seq(S), NEW x \in S
    PROVE  /\ Elements(Append(s, x)) = Elements(s) \cup {x}
           /\ IsInjective(s) /\ x \notin Elements(s) => IsInjective(Append(s, x))
<1>1. /\ Len(s) \in Nat /\ DOMAIN s = 1..Len(s)
      /\ DOMAIN Append(s, x) = 1..(Len(s) + 1)
      /\ Append(s, x)[Len(s) + 1] = x
      /\ \A i \in 1..Len(s) : Append(s, x)[i] = s[i]
  OBVIOUS
<1>2. \A i \in 1..(Len(s) + 1) : i \in 1..Len(s) \/ i = Len(s) + 1
  BY <1>1
<1>3. Elements(Append(s, x)) = Elements(s) \cup {x}
  BY <1>1, <1>2 DEF Elements
<1>4. IsInjective(s) /\ x \notin Elements(s) => IsInjective(Append(s, x))
  BY <1>1, <1>2 DEF Elements, IsInjective
<1> QED BY <1>3, <1>4

\* Joining two queues joins their elements.
LEMMA Joined ==
    ASSUME NEW S, NEW s \in Seq(S), NEW t \in Seq(S)
    PROVE  /\ Elements(s \o t) = Elements(s) \cup Elements(t)
           /\ /\ IsInjective(s) /\ IsInjective(t)
              /\ Elements(s) \cap Elements(t) = {}
              => IsInjective(s \o t)
<1> DEFINE m == Len(s)
           n == Len(t)
<1>1. /\ m \in Nat /\ n \in Nat
      /\ DOMAIN s = 1..m /\ DOMAIN t = 1..n
      /\ DOMAIN (s \o t) = 1..(m + n)
      /\ \A i \in 1..m : (s \o t)[i] = s[i]
      /\ \A i \in (m + 1)..(m + n) : (s \o t)[i] = t[i - m]
  OBVIOUS
<1> HIDE DEF m, n
<1>2. \A i \in 1..(m + n) : i \in 1..m \/ (i \in (m + 1)..(m + n) /\ i - m \in 1..n)
  BY <1>1
<1>3. \A j \in 1..n : j + m \in (m + 1)..(m + n) /\ (s \o t)[j + m] = t[j]
  <2> TAKE j \in 1..n
  <2>1. j + m \in (m + 1)..(m + n) /\ (j + m) - m = j BY <1>1
  <2> QED BY <1>1, <2>1
<1>4. ASSUME NEW x \in Elements(s \o t)
      PROVE  x \in Elements(s) \cup Elements(t)
  BY <1>1, <1>2 DEF Elements
<1>5. \A i \in 1..m : i \in 1..(m + n) BY <1>1
<1>6. \A i \in (m + 1)..(m + n) : i \in 1..(m + n) BY <1>1
<1>7. Elements(s) \subseteq Elements(s \o t) BY <1>1, <1>5 DEF Elements
<1>8. ASSUME NEW x \in Elements(t) PROVE x \in Elements(s \o t)
  <2>1. PICK j \in 1..n : x = t[j] BY <1>1 DEF Elements
  <2>2. j + m \in 1..(m + n) /\ x = (s \o t)[j + m] BY <1>3, <1>6, <2>1
  <2> QED BY <1>1, <2>2 DEF Elements
<1>9. ASSUME IsInjective(s), IsInjective(t), Elements(s) \cap Elements(t) = {},
             NEW i \in 1..(m + n), NEW j \in 1..(m + n), (s \o t)[i] = (s \o t)[j]
      PROVE  i = j
  <2>1. CASE i \in 1..m /\ j \in 1..m
    BY <1>1, <1>9, <2>1 DEF IsInjective
  <2>2. CASE i \in (m + 1)..(m + n) /\ j \in (m + 1)..(m + n)
    <3>1. i - m \in 1..n /\ j - m \in 1..n /\ t[i - m] = t[j - m]
      BY <1>1, <1>9, <2>2
    <3>2. i - m = j - m BY <1>1, <1>9, <3>1 DEF IsInjective
    <3> QED BY <1>1, <2>2, <3>2
  <2>3. CASE i \in 1..m /\ j \in (m + 1)..(m + n)
    <3>1. j - m \in 1..n /\ s[i] = t[j - m] BY <1>1, <1>9, <2>3
    <3> QED BY <1>1, <1>9, <2>3, <3>1 DEF Elements
  <2>4. CASE j \in 1..m /\ i \in (m + 1)..(m + n)
    <3>1. i - m \in 1..n /\ s[j] = t[i - m] BY <1>1, <1>9, <2>4
    <3> QED BY <1>1, <1>9, <2>4, <3>1 DEF Elements
  <2> QED BY <1>2, <2>1, <2>2, <2>3, <2>4
<1>10. IsInjective(s) /\ IsInjective(t) /\ Elements(s) \cap Elements(t) = {}
       => IsInjective(s \o t)
  BY <1>1, <1>9 DEF IsInjective
<1> QED BY <1>4, <1>7, <1>8, <1>10

\* Taking out an element of a queue without repetitions takes it out.
LEMMA Removed ==
    ASSUME NEW S, NEW s \in Seq(S), NEW i \in DOMAIN s, IsInjective(s)
    PROVE  /\ Elements(Without(s, i)) \subseteq Elements(s) \ {s[i]}
           /\ IsInjective(Without(s, i))
<1> DEFINE a == SubSeq(s, 1, i - 1)
           b == SubSeq(s, i + 1, Len(s))
<1>1. /\ Len(s) \in Nat /\ DOMAIN s = 1..Len(s) /\ i \in 1..Len(s)
  OBVIOUS
<1>2. /\ a \in Seq(S) /\ DOMAIN a = 1..(i - 1)
      /\ \A k \in 1..(i - 1) : a[k] = s[k]
  BY <1>1
<1>3. /\ b \in Seq(S) /\ DOMAIN b = 1..(Len(s) - i)
      /\ \A k \in 1..(Len(s) - i) : b[k] = s[k + i]
  BY <1>1
<1>4. Without(s, i) = a \o b BY DEF Without
<1> HIDE DEF a, b
<1>5. \A k \in 1..(i - 1) : k \in 1..Len(s) /\ k # i BY <1>1
<1>6. \A k \in 1..(Len(s) - i) : k + i \in 1..Len(s) /\ k + i # i BY <1>1
<1>7. \A x \in Elements(a) : \E k \in 1..(i - 1) : x = s[k]
  BY <1>2 DEF Elements
<1>8. \A x \in Elements(b) : \E k \in 1..(Len(s) - i) : x = s[k + i]
  BY <1>3 DEF Elements
<1>9. \A k, l \in 1..Len(s) : s[k] = s[l] => k = l BY <1>1 DEF IsInjective
<1>10. IsInjective(a) BY <1>2, <1>5, <1>9 DEF IsInjective
<1>11. IsInjective(b)
  <2> SUFFICES ASSUME NEW k \in 1..(Len(s) - i), NEW l \in 1..(Len(s) - i),
                      b[k] = b[l]
               PROVE  k = l
    BY <1>3 DEF IsInjective
  <2>1. k + i = l + i BY <1>3, <1>6, <1>9
  <2> QED BY <1>1, <2>1
<1>12. \A k \in 1..(i - 1), l \in 1..(Len(s) - i) : k # l + i BY <1>1
<1>13. Elements(a) \cap Elements(b) = {}
  <2> SUFFICES ASSUME NEW x \in Elements(a), x \in Elements(b) PROVE FALSE
    OBVIOUS
  <2>1. PICK k \in 1..(i - 1) : x = s[k] BY <1>7
  <2>2. PICK l \in 1..(Len(s) - i) : x = s[l + i] BY <1>8
  <2>3. k = l + i BY <1>5, <1>6, <1>9, <2>1, <2>2
  <2> QED BY <1>12, <2>3
<1>14. Elements(a) \subseteq Elements(s) \ {s[i]}
  BY <1>1, <1>5, <1>7, <1>9 DEF Elements
<1>15. Elements(b) \subseteq Elements(s) \ {s[i]}
  BY <1>1, <1>6, <1>8, <1>9 DEF Elements
<1> QED BY <1>2, <1>3, <1>4, <1>10, <1>11, <1>13, <1>14, <1>15, Joined

-----------------------------------------------------------------------------

\* Helpers of the methods keep their variables in their domains.
LEMMA WithStatusType ==
    ASSUME TypeOK, NEW c, NEW s \in Statuses
    PROVE  WithStatus(c, s) \in [Calls -> Statuses]
  BY DEF TypeOK, WithStatus, Settable

\* _cancelAllQueuedCalls gives every call a status.
LEMMA CancelQueuedType ==
    ASSUME NEW st \in [Calls -> Statuses]
    PROVE  CancelQueued(st) \in [Calls -> Statuses]
  BY DEF CancelQueued, Statuses, Terminal

\* The running step is a job.
LEMMA MeType ==
    ASSUME TypeOK, NEW fn, Running(fn)
    PROVE  Me \in Job /\ jobs # <<>> /\ Tail(jobs) \in Seq(Job)
  BY DEF TypeOK, Running, Me

\* What Run describes is a job.
LEMMA RunType ==
    ASSUME NEW fn \in {"schedule", "process", "check", "attempt", "cancelAll",
                       "unwind"},
           NEW sig \in Requests, NEW root \in Requests \cup {None}
    PROVE  Run(fn, sig, root) \in Job
  BY DEF Run, Job

\* An event starts a job.
LEMMA StartType ==
    ASSUME NEW job \in Job, Start(job)
    PROVE  jobs' \in Seq(Job)
  BY DEF Start

\* A step goes on as a job.
LEMMA ContinueType ==
    ASSUME TypeOK, NEW job \in Job, jobs # <<>>, Continue(job)
    PROVE  jobs' \in Seq(Job)
  BY DEF TypeOK, Continue

\* The finally clause of _schedule keeps its variables in their domains.
LEMMA UnwindType ==
    ASSUME TypeOK, NEW root \in Requests \cup {None},
           NEW result \in {"resolved", "rejected"}, Unwind(root, result)
    PROVE  /\ isScheduling' \in BOOLEAN
           /\ promise' \in [Requests -> Promises]
  BY SchedulerAssumption DEF TypeOK, Unwind, Promises

\* recordAuditEvent adds an event.
LEMMA AuditType ==
    ASSUME TypeOK, NEW c, NEW event \in Events, Audit(c, event)
    PROVE  trail' \in [Calls -> SUBSET Events]
  BY DEF TypeOK, Audit

\* The fields of a suspended function are in their domains.
LEMMA FrameFields ==
    ASSUME TypeOK, NEW f \in frames
    PROVE  /\ f.call \in Calls \cup {None}
           /\ f.sig \in Requests
           /\ f.root \in Requests \cup {None}
           /\ f.out \in Outcomes \cup {None}
           /\ f.ver \in 0..MaxArgs
           /\ frames \ {f} \in SUBSET Frame
  BY DEF TypeOK, Frame

\* Suspending a function adds a frame.
LEMMA SuspendType ==
    ASSUME NEW rest \in SUBSET Frame,
           NEW at \in {"validate", "notify", "confirm", "editor", "inline",
                       "exec", "report"},
           NEW c \in Calls \cup {None}, NEW sig \in Requests,
           NEW root \in Requests \cup {None}, NEW out \in Outcomes \cup {None},
           NEW ver \in 0..MaxArgs, Suspend(rest, at, c, sig, root, out, ver)
    PROVE  frames' \in SUBSET Frame
<1>1. PICK n \in 0..MaxTwins :
          frames' = rest \cup {Suspended(at, c, sig, root, out, ver, n)}
  BY DEF Suspend
<1>2. Suspended(at, c, sig, root, out, ver, n) \in Frame
  BY DEF Suspended, Frame
<1> QED BY <1>1, <1>2

\* A sequence without one of its elements is over the same set.
LEMMA WithoutType ==
    ASSUME NEW S, NEW s \in Seq(S), NEW i \in 1..Len(s)
    PROVE  Without(s, i) \in Seq(S)
<1>1. SubSeq(s, 1, i - 1) \in Seq(S) OBVIOUS
<1>2. SubSeq(s, i + 1, Len(s)) \in Seq(S) OBVIOUS
<1> QED BY <1>1, <1>2 DEF Without

\* New arguments stay within the bound.
LEMMA NewArgsType ==
    ASSUME TypeOK, NEW c, NewArgs(c)
    PROVE  args' \in [Calls -> 0..MaxArgs]
<1>1. args \in [Calls -> 0..MaxArgs] BY DEF TypeOK
<1>2. \A d \in Calls : args[d] < MaxArgs => args[d] + 1 \in 0..MaxArgs
  BY <1>1 DEF MaxArgs
<1> QED BY <1>1, <1>2 DEF NewArgs

\* An abort keeps the request queue and the promises in their domains.
LEMMA AbortSignalType ==
    ASSUME TypeOK, NEW r \in Requests, AbortSignal(r)
    PROVE  /\ aborted' \in SUBSET Requests
           /\ requestQueue' \in Seq(Requests)
           /\ promise' \in [Requests -> Promises]
<1>1. aborted' \in SUBSET Requests BY DEF TypeOK, AbortSignal
<1>2. CASE AbortQueued(r)
  <2>1. PICK i \in DOMAIN requestQueue :
            /\ requestQueue' = Without(requestQueue, i)
            /\ promise' = [promise EXCEPT ![r] = "rejected"]
    BY <1>2 DEF AbortQueued
  <2>2. requestQueue \in Seq(Requests) /\ i \in 1..Len(requestQueue)
    BY DEF TypeOK
  <2>3. Without(requestQueue, i) \in Seq(Requests)
    BY <2>2, WithoutType
  <2> QED BY <1>1, <2>1, <2>3 DEF TypeOK, Promises
<1> QED BY <1>1, <1>2 DEF TypeOK, AbortSignal

\* Starting the next request keeps the variables in their domains.
LEMMA StartNextType ==
    ASSUME TypeOK, NEW f \in frames, StartNext(f)
    PROVE  /\ jobs' \in Seq(Job)
           /\ requestQueue' \in Seq(Requests)
           /\ isScheduling' \in BOOLEAN
           /\ promise' \in [Requests -> Promises]
<1>1. f.sig \in Requests /\ f.root \in Requests \cup {None} BY FrameFields
<1>2. CASE requestQueue = <<>>
  BY <1>1, <1>2, UnwindType DEF TypeOK, StartNext, Return
<1>3. CASE requestQueue # <<>>
  <2>1. Head(requestQueue) \in Requests /\ Tail(requestQueue) \in Seq(Requests)
    BY <1>3 DEF TypeOK
  <2>2. /\ Run("schedule", Head(requestQueue), Head(requestQueue)) \in Job
        /\ Run("unwind", f.sig, f.root) \in Job
    BY <1>1, <2>1, RunType
  <2>a. jobs' = <<Run("schedule", Head(requestQueue), Head(requestQueue)),
                  Run("unwind", f.sig, f.root)>>
    BY <1>3 DEF StartNext
  <2>3. jobs' \in Seq(Job) BY <2>2, <2>a
  <2>4. /\ requestQueue' = Tail(requestQueue)
        /\ isScheduling' = isScheduling /\ promise' = promise
    BY <1>3 DEF StartNext
  <2> QED BY <2>1, <2>3, <2>4 DEF TypeOK
<1> QED BY <1>2, <1>3

\* Reports are counted up to two.
LEMMA CountReportsType ==
    ASSUME TypeOK, NEW batch \in Seq(Calls)
    PROVE  CountReports(batch) \in [Calls -> 0..2]
<1> SUFFICES ASSUME NEW c \in Calls PROVE CountReports(batch)[c] \in 0..2
  BY DEF CountReports
<1> DEFINE I == {i \in DOMAIN batch : batch[i] = c}
<1>1. IsFiniteSet(I)
  <2>1. Len(batch) \in Nat /\ DOMAIN batch = 1..Len(batch) OBVIOUS
  <2>2. IsFiniteSet(1..Len(batch)) BY <2>1, FS_Interval
  <2> QED BY <2>1, <2>2, FS_Subset
<1>2. Cardinality(I) \in Nat BY <1>1, FS_CardinalityType
<1>3. reports[c] \in 0..2 BY DEF TypeOK
<1>4. reports[c] + Cardinality(I) \in Nat BY <1>2, <1>3
<1> HIDE DEF I
<1>5. CountReports(batch)[c] = IF reports[c] + Cardinality(I) > 2 THEN 2
                               ELSE reports[c] + Cardinality(I)
  BY DEF CountReports, I
<1> QED BY <1>4, <1>5

\* What is collected are calls.
LEMMA BatchType ==
    ASSUME TypeOK
    PROVE  Batch \in Seq(Calls) /\ WholeBatch \in Seq(Calls)
  BY DEF TypeOK, Batch, WholeBatch

\* Only the calls of a reported batch are counted.
LEMMA CountedOnlyInBatch ==
    ASSUME TypeOK, NEW batch \in Seq(Calls), NEW c \in Calls,
           CountReports(batch)[c] > 0
    PROVE  reports[c] > 0 \/ c \in Elements(batch)
<1> SUFFICES ASSUME c \notin Elements(batch) PROVE reports[c] > 0
  OBVIOUS
<1> DEFINE I == {i \in DOMAIN batch : batch[i] = c}
<1>1. I = {} BY DEF Elements
<1>2. Cardinality(I) = 0 BY <1>1, FS_EmptySet
<1>3. reports[c] \in 0..2 BY DEF TypeOK
<1>4. CountReports(batch)[c] = IF reports[c] + Cardinality(I) > 2 THEN 2
                               ELSE reports[c] + Cardinality(I)
  BY DEF CountReports
<1> HIDE DEF I
<1> QED BY <1>2, <1>3, <1>4

\* Every step keeps the types: one step per action, one level down the variables
\* that the action changes.
LEMMA TypeStep ==
    ASSUME TypeOK, [Next]_vars
    PROVE  TypeOK'
<1> USE SchedulerAssumption
<1>0. 0 \in 0..MaxArgs /\ 1 \in 0..MaxArgs BY DEF MaxArgs
<1>1. ASSUME NEW r \in Requests, Schedule(r) PROVE TypeOK'
  <2>1. jobs' \in Seq(Job)
    BY <1>1, RunType, StartType DEF TypeOK, Schedule
  <2>2. requestQueue \in Seq(Requests) /\ Append(requestQueue, r) \in Seq(Requests)
    BY <1>1 DEF TypeOK, Schedule
  <2>3. requestQueue' = requestQueue \/ requestQueue' = Append(requestQueue, r)
    BY <1>1 DEF Schedule
  <2>4. requestQueue' \in Seq(Requests)
    BY <2>2, <2>3
  <2> QED BY <1>1, <2>1, <2>2, <2>3, <2>4 DEF TypeOK, Schedule, Promises
<1>2. ASSUME NEW r \in Requests, Abort(r) PROVE TypeOK'
  <2>1. /\ aborted' \in SUBSET Requests /\ requestQueue' \in Seq(Requests)
        /\ promise' \in [Requests -> Promises]
    BY <1>2, AbortSignalType DEF TypeOK, Abort
  <2> QED BY <1>2, <2>1 DEF TypeOK, Abort
<1>3. ASSUME NEW r \in Requests, UserCancel(r) PROVE TypeOK'
  <2>1. /\ aborted' \in SUBSET Requests /\ requestQueue' \in Seq(Requests)
        /\ promise' \in [Requests -> Promises]
    BY <1>3, AbortSignalType DEF TypeOK, UserCancel
  <2>2. jobs' \in Seq(Job)
    BY <1>3, RunType, StartType DEF TypeOK, UserCancel
  <2> QED BY <1>3, <2>1, <2>2 DEF TypeOK, UserCancel
<1>4. ASSUME ScheduleThrows PROVE TypeOK'
  <2>0. /\ Me.sig \in Requests /\ Me.root \in Requests \cup {None}
        /\ jobs # <<>> /\ Tail(jobs) \in Seq(Job)
    BY <1>4, MeType DEF ScheduleThrows, Job
  <2>1. /\ isScheduling' \in BOOLEAN /\ promise' \in [Requests -> Promises]
    BY <1>4, <2>0, UnwindType DEF TypeOK, ScheduleThrows
  <2> QED BY <1>4, <2>0, <2>1 DEF TypeOK, ScheduleThrows
<1>5. ASSUME ScheduleBatch PROVE TypeOK'
  <2>0. /\ Me.sig \in Requests /\ Me.root \in Requests \cup {None}
        /\ jobs # <<>> /\ Tail(jobs) \in Seq(Job)
    BY <1>5, MeType DEF ScheduleBatch, Job
  <2>1. status' \in [Calls -> Statuses]
    BY <1>5, <2>0 DEF TypeOK, ScheduleBatch, Statuses, Terminal
  <2>2. jobs' \in Seq(Job)
    BY <1>5, <2>0, RunType, ContinueType DEF TypeOK, ScheduleBatch
  <2>3. queue' \in Seq(Calls) /\ completed' \in Seq(Calls)
    BY <1>5, <2>0 DEF TypeOK, ScheduleBatch
  <2> QED BY <1>5, <2>0, <2>1, <2>2, <2>3 DEF TypeOK, ScheduleBatch
<1>6. ASSUME ProcessNothing PROVE TypeOK'
  <2>0. /\ Me.sig \in Requests /\ Me.root \in Requests \cup {None}
        /\ jobs # <<>> /\ Tail(jobs) \in Seq(Job)
    BY <1>6, MeType DEF ProcessNothing, Job
  <2>1. /\ isScheduling' \in BOOLEAN /\ promise' \in [Requests -> Promises]
    BY <1>6, <2>0, UnwindType DEF TypeOK, ProcessNothing, End
  <2>2. jobs' \in Seq(Job)
    BY <1>6, <2>0 DEF TypeOK, ProcessNothing, End
  <2> QED BY <1>6, <2>0, <2>1, <2>2 DEF TypeOK, ProcessNothing, End
<1>7. ASSUME ProcessAborted PROVE TypeOK'
  <2>0. /\ Me.sig \in Requests /\ Me.root \in Requests \cup {None}
        /\ jobs # <<>> /\ Tail(jobs) \in Seq(Job)
    BY <1>7, MeType DEF ProcessAborted, Job
  <2>1. status' \in [Calls -> Statuses]
    BY <1>7, <2>0, CancelQueuedType DEF TypeOK, ProcessAborted
  <2>2. jobs' \in Seq(Job)
    BY <1>7, <2>0, RunType, ContinueType DEF TypeOK, ProcessAborted
  <2>3. queue' \in Seq(Calls) /\ completed' \in Seq(Calls)
    BY <1>7, <2>0 DEF TypeOK, ProcessAborted
  <2> QED BY <1>7, <2>0, <2>1, <2>2, <2>3 DEF TypeOK, ProcessAborted
<1>8. ASSUME ProcessNext PROVE TypeOK'
  <2>0. /\ Me.sig \in Requests /\ Me.root \in Requests \cup {None}
        /\ jobs # <<>> /\ Tail(jobs) \in Seq(Job)
    BY <1>8, MeType DEF ProcessNext, Job
  <2>1. active' \in Calls /\ queue' \in Seq(Calls)
    BY <1>8, <2>0 DEF TypeOK, ProcessNext
  <2>2. jobs' \in Seq(Job)
    BY <1>8, <2>0, RunType, ContinueType DEF TypeOK, ProcessNext
  <2>3. /\ Head(queue) \in Calls
        /\ \/ UNCHANGED frames
           \/ Suspend(frames, "validate", Head(queue), Me.sig, Me.root, None, 0)
    BY <1>8, <2>0 DEF TypeOK, ProcessNext
  <2>4. frames' \in SUBSET Frame
    BY <1>8, <2>0, <1>0, <2>3, SuspendType DEF TypeOK, ProcessNext
  <2> QED BY <1>8, <2>0, <2>1, <2>2, <2>3, <2>4 DEF TypeOK, ProcessNext
<1>9. ASSUME AttemptStart PROVE TypeOK'
  <2>0. /\ Me.sig \in Requests /\ Me.root \in Requests \cup {None}
        /\ jobs # <<>> /\ Tail(jobs) \in Seq(Job)
    BY <1>9, MeType DEF AttemptStart, Job
  <2>1. active \in Calls
    BY <1>9, <2>0 DEF TypeOK, AttemptStart, CanStart
  <2>2. status' \in [Calls -> Statuses]
    BY <1>9, <2>0, <2>1 DEF TypeOK, AttemptStart, Statuses
  <2>3. trail' \in [Calls -> SUBSET Events]
    BY <1>9, <2>0, <2>1, AuditType DEF TypeOK, AttemptStart, Events
  <2>4. ran' \in [Calls -> Seq(0..MaxArgs)]
    BY <1>9, <2>0, <2>1 DEF TypeOK, AttemptStart
  <2>5. active \in Calls \cup {None} /\ args[active] \in 0..MaxArgs
    BY <1>9, <2>0, <2>1 DEF TypeOK, AttemptStart
  <2>6. Suspend(frames, "exec", active, Me.sig, Me.root, None, args[active])
    BY <1>9, <2>0, <2>1 DEF AttemptStart
  <2>7. frames \in SUBSET Frame
    BY <1>9, <2>0, <2>1 DEF TypeOK, AttemptStart
  <2>8. frames' \in SUBSET Frame
    BY <2>0, <2>1, <2>5, <2>6, <2>7, SuspendType
  <2> QED BY <1>9, <2>0, <2>1, <2>2, <2>3, <2>4, <2>5, <2>6, <2>7, <2>8
     DEF TypeOK, AttemptStart
<1>10. ASSUME AttemptNothing PROVE TypeOK'
  <2>0. /\ Me.sig \in Requests /\ Me.root \in Requests \cup {None}
        /\ jobs # <<>> /\ Tail(jobs) \in Seq(Job)
    BY <1>10, MeType DEF AttemptNothing, Job
  <2>1. /\ isScheduling' \in BOOLEAN /\ promise' \in [Requests -> Promises]
    BY <1>10, <2>0, UnwindType DEF TypeOK, AttemptNothing, End
  <2>2. jobs' \in Seq(Job)
    BY <1>10, <2>0 DEF TypeOK, AttemptNothing, End
  <2> QED BY <1>10, <2>0, <2>1, <2>2 DEF TypeOK, AttemptNothing, End
<1>11. ASSUME CancelAllAgain PROVE TypeOK'
  <2>0. /\ Me.sig \in Requests /\ Me.root \in Requests \cup {None}
        /\ jobs # <<>> /\ Tail(jobs) \in Seq(Job)
    BY <1>11, MeType DEF CancelAllAgain, Job
  <2> QED BY <1>11, <2>0 DEF TypeOK, CancelAllAgain
<1>12. ASSUME CancelAll PROVE TypeOK'
  <2>0. /\ Me.sig \in Requests /\ Me.root \in Requests \cup {None}
        /\ jobs # <<>> /\ Tail(jobs) \in Seq(Job)
    BY <1>12, MeType DEF CancelAll, Job
  <2>1. status' \in [Calls -> Statuses]
    BY <1>12, <2>0, WithStatusType, CancelQueuedType
       DEF TypeOK, CancelAll, Statuses, Terminal
  <2>2. jobs' \in Seq(Job)
    BY <1>12, <2>0, RunType, ContinueType DEF TypeOK, CancelAll
  <2>3. queue' \in Seq(Calls) /\ completed' \in Seq(Calls)
    BY <1>12, <2>0 DEF TypeOK, CancelAll
  <2> QED BY <1>12, <2>0, <2>1, <2>2, <2>3 DEF TypeOK, CancelAll
<1>13. ASSUME CheckBusy PROVE TypeOK'
  <2>0. /\ Me.sig \in Requests /\ Me.root \in Requests \cup {None}
        /\ jobs # <<>> /\ Tail(jobs) \in Seq(Job)
    BY <1>13, MeType DEF CheckBusy, Job
  <2>1. /\ isScheduling' \in BOOLEAN /\ promise' \in [Requests -> Promises]
    BY <1>13, <2>0, UnwindType DEF TypeOK, CheckBusy, End
  <2>2. jobs' \in Seq(Job)
    BY <1>13, <2>0 DEF TypeOK, CheckBusy, End
  <2> QED BY <1>13, <2>0, <2>1, <2>2 DEF TypeOK, CheckBusy, End
<1>14. ASSUME CheckNext PROVE TypeOK'
  <2>0. /\ Me.sig \in Requests /\ Me.root \in Requests \cup {None}
        /\ jobs # <<>> /\ Tail(jobs) \in Seq(Job)
    BY <1>14, MeType DEF CheckNext, Job
  <2>1. completed' \in Seq(Calls)
    BY <1>14, <2>0, BatchType DEF TypeOK, CheckNext
  <2>2. jobs' \in Seq(Job)
    BY <1>14, <2>0, RunType, ContinueType DEF TypeOK, CheckNext
  <2> QED BY <1>14, <2>0, <2>1, <2>2 DEF TypeOK, CheckNext
<1>15. ASSUME CheckNothing PROVE TypeOK'
  <2>0. /\ Me.sig \in Requests /\ Me.root \in Requests \cup {None}
        /\ jobs # <<>> /\ Tail(jobs) \in Seq(Job)
    BY <1>15, MeType DEF CheckNothing, Job
  <2>1. /\ isScheduling' \in BOOLEAN /\ promise' \in [Requests -> Promises]
    BY <1>15, <2>0, UnwindType DEF TypeOK, CheckNothing, End
  <2>2. jobs' \in Seq(Job)
    BY <1>15, <2>0 DEF TypeOK, CheckNothing, End
  <2> QED BY <1>15, <2>0, <2>1, <2>2 DEF TypeOK, CheckNothing, End
<1>16. ASSUME CheckReport PROVE TypeOK'
  <2>0. /\ Me.sig \in Requests /\ Me.root \in Requests \cup {None}
        /\ jobs # <<>> /\ Tail(jobs) \in Seq(Job)
    BY <1>16, MeType DEF CheckReport, Job
  <2>1. completed' \in Seq(Calls) /\ queue' \in Seq(Calls)
    BY <1>16, <2>0, BatchType DEF TypeOK, CheckReport
  <2>2. reports' \in [Calls -> 0..2]
    BY <1>16, <2>0, BatchType, CountReportsType DEF TypeOK, CheckReport
  <2>3. status' \in [Calls -> Statuses]
    BY <1>16, <2>0, CancelQueuedType DEF TypeOK, CheckReport
  <2>4. frames' \in SUBSET Frame
    BY <1>16, <2>0, <1>0, SuspendType DEF TypeOK, CheckReport
  <2> QED BY <1>16, <2>0, <2>1, <2>2, <2>3, <2>4 DEF TypeOK, CheckReport
<1>17. ASSUME UnwindJob PROVE TypeOK'
  <2>0. /\ Me.sig \in Requests /\ Me.root \in Requests \cup {None}
        /\ jobs # <<>> /\ Tail(jobs) \in Seq(Job)
    BY <1>17, MeType DEF UnwindJob, Job
  <2>1. /\ isScheduling' \in BOOLEAN /\ promise' \in [Requests -> Promises]
    BY <1>17, <2>0, UnwindType DEF TypeOK, UnwindJob, End
  <2>2. jobs' \in Seq(Job)
    BY <1>17, <2>0 DEF TypeOK, UnwindJob, End
  <2> QED BY <1>17, <2>0, <2>1, <2>2 DEF TypeOK, UnwindJob, End
<1>18. ASSUME NEW f \in frames, ValidateFree(f) PROVE TypeOK'
  <2>0. /\ f.call \in Calls \cup {None} /\ f.sig \in Requests
        /\ f.root \in Requests \cup {None} /\ f.ver \in 0..MaxArgs
        /\ f.out \in Outcomes \cup {None} /\ frames \ {f} \in SUBSET Frame
    BY FrameFields
  <2>1. status' \in [Calls -> Statuses]
    BY <1>18, <2>0, WithStatusType DEF TypeOK, ValidateFree, Statuses
  <2>2. f.call \in Calls => args[f.call] \in 0..MaxArgs
    BY <1>18, <2>0 DEF TypeOK, ValidateFree
  <2>3. granted' \in [Calls -> SUBSET (0..MaxArgs)]
    BY <1>18, <2>0, <2>2 DEF TypeOK, ValidateFree
  <2>4. trail' \in [Calls -> SUBSET Events]
    BY <1>18, <2>0, AuditType DEF TypeOK, ValidateFree, Events
  <2>5. jobs' \in Seq(Job)
    BY <1>18, <2>0, RunType, StartType DEF TypeOK, ValidateFree
  <2> QED BY <1>18, <2>0, <2>1, <2>2, <2>3, <2>4, <2>5 DEF TypeOK, ValidateFree
<1>19. ASSUME NEW f \in frames, ValidateThrows(f) PROVE TypeOK'
  <2>0. /\ f.call \in Calls \cup {None} /\ f.sig \in Requests
        /\ f.root \in Requests \cup {None} /\ f.ver \in 0..MaxArgs
        /\ f.out \in Outcomes \cup {None} /\ frames \ {f} \in SUBSET Frame
    BY FrameFields
  <2>1. status' \in [Calls -> Statuses]
    BY <1>19, <2>0, WithStatusType
       DEF TypeOK, ValidateThrows, Statuses, Terminal
  <2>2. jobs' \in Seq(Job)
    BY <1>19, <2>0, RunType, StartType DEF TypeOK, ValidateThrows
  <2> QED BY <1>19, <2>0, <2>1, <2>2 DEF TypeOK, ValidateThrows
<1>20. ASSUME NEW f \in frames,
              NEW pin \in BOOLEAN,
              ValidatePrompt(f, pin)
       PROVE  TypeOK'
  <2>0. /\ f.call \in Calls \cup {None} /\ f.sig \in Requests
        /\ f.root \in Requests \cup {None} /\ f.ver \in 0..MaxArgs
        /\ f.out \in Outcomes \cup {None} /\ frames \ {f} \in SUBSET Frame
    BY FrameFields
  <2>1. prompt' \in [Calls -> [sig : Requests \cup {None}, pin : BOOLEAN]]
    BY <1>20, <2>0 DEF TypeOK, ValidatePrompt, ShowPrompt
  <2>2. status' \in [Calls -> Statuses]
    BY <1>20, <2>0, WithStatusType
       DEF TypeOK, ValidatePrompt, ShowPrompt, Statuses
  <2>3. trail' \in [Calls -> SUBSET Events]
    BY <1>20, <2>0, AuditType DEF TypeOK, ValidatePrompt, ShowPrompt, Events
  <2>4. jobs' \in Seq(Job)
    BY <1>20, <2>0, RunType, StartType DEF TypeOK, ValidatePrompt, ShowPrompt
  <2> QED BY <1>20, <2>0, <2>1, <2>2, <2>3, <2>4 DEF TypeOK, ValidatePrompt
<1>21. ASSUME NEW f \in frames,
              NEW pin \in BOOLEAN,
              ValidateHook(f, pin)
       PROVE  TypeOK'
  <2>0. /\ f.call \in Calls \cup {None} /\ f.sig \in Requests
        /\ f.root \in Requests \cup {None} /\ f.ver \in 0..MaxArgs
        /\ f.out \in Outcomes \cup {None} /\ frames \ {f} \in SUBSET Frame
    BY FrameFields
  <2>1. frames' \in SUBSET Frame
    BY <1>21, <2>0, <1>0, SuspendType DEF TypeOK, ValidateHook
  <2> QED BY <1>21, <2>0, <2>1 DEF TypeOK, ValidateHook
<1>22. ASSUME NEW f \in frames, HookDone(f) PROVE TypeOK'
  <2>0. /\ f.call \in Calls \cup {None} /\ f.sig \in Requests
        /\ f.root \in Requests \cup {None} /\ f.ver \in 0..MaxArgs
        /\ f.out \in Outcomes \cup {None} /\ frames \ {f} \in SUBSET Frame
    BY FrameFields
  <2>1. prompt' \in [Calls -> [sig : Requests \cup {None}, pin : BOOLEAN]]
    BY <1>22, <2>0 DEF TypeOK, HookDone, ShowPrompt
  <2>2. status' \in [Calls -> Statuses]
    BY <1>22, <2>0, WithStatusType DEF TypeOK, HookDone, ShowPrompt, Statuses
  <2>3. trail' \in [Calls -> SUBSET Events]
    BY <1>22, <2>0, AuditType DEF TypeOK, HookDone, ShowPrompt, Events
  <2>4. jobs' \in Seq(Job)
    BY <1>22, <2>0, RunType, StartType DEF TypeOK, HookDone, ShowPrompt
  <2> QED BY <1>22, <2>0, <2>1, <2>2, <2>3, <2>4 DEF TypeOK, HookDone
<1>23. ASSUME NEW f \in frames, ConfirmThrows(f) PROVE TypeOK'
  <2>0. /\ f.call \in Calls \cup {None} /\ f.sig \in Requests
        /\ f.root \in Requests \cup {None} /\ f.ver \in 0..MaxArgs
        /\ f.out \in Outcomes \cup {None} /\ frames \ {f} \in SUBSET Frame
    BY FrameFields
  <2>1. status' \in [Calls -> Statuses]
    BY <1>23, <2>0, WithStatusType
       DEF TypeOK, ConfirmThrows, Statuses, Terminal
  <2>2. jobs' \in Seq(Job)
    BY <1>23, <2>0, RunType, StartType DEF TypeOK, ConfirmThrows
  <2> QED BY <1>23, <2>0, <2>1, <2>2 DEF TypeOK, ConfirmThrows
<1>24. ASSUME NEW f \in frames, ConfirmCancel(f) PROVE TypeOK'
  <2>0. /\ f.call \in Calls \cup {None} /\ f.sig \in Requests
        /\ f.root \in Requests \cup {None} /\ f.ver \in 0..MaxArgs
        /\ f.out \in Outcomes \cup {None} /\ frames \ {f} \in SUBSET Frame
    BY FrameFields
  <2>1. trail' \in [Calls -> SUBSET Events]
    BY <1>24, <2>0 DEF TypeOK, ConfirmCancel, Confirmed, Events
  <2>2. jobs' \in Seq(Job)
    BY <1>24, <2>0, RunType, StartType DEF TypeOK, ConfirmCancel
  <2> QED BY <1>24, <2>0, <2>1, <2>2 DEF TypeOK, ConfirmCancel
<1>25. ASSUME NEW f \in frames, ConfirmProceed(f) PROVE TypeOK'
  <2>0. /\ f.call \in Calls \cup {None} /\ f.sig \in Requests
        /\ f.root \in Requests \cup {None} /\ f.ver \in 0..MaxArgs
        /\ f.out \in Outcomes \cup {None} /\ frames \ {f} \in SUBSET Frame
    BY FrameFields
  <2>1. trail' \in [Calls -> SUBSET Events]
    BY <1>25, <2>0 DEF TypeOK, ConfirmProceed, Confirmed, Events
  <2>2. status' \in [Calls -> Statuses]
    BY <1>25, <2>0, WithStatusType DEF TypeOK, ConfirmProceed, Statuses
  <2>3. granted' \in [Calls -> SUBSET (0..MaxArgs)]
    BY <1>25, <2>0 DEF TypeOK, ConfirmProceed
  <2>4. jobs' \in Seq(Job)
    BY <1>25, <2>0, RunType, StartType DEF TypeOK, ConfirmProceed
  <2> QED BY <1>25, <2>0, <2>1, <2>2, <2>3, <2>4 DEF TypeOK, ConfirmProceed
<1>26. ASSUME NEW f \in frames, ConfirmModify(f) PROVE TypeOK'
  <2>0. /\ f.call \in Calls \cup {None} /\ f.sig \in Requests
        /\ f.root \in Requests \cup {None} /\ f.ver \in 0..MaxArgs
        /\ f.out \in Outcomes \cup {None} /\ frames \ {f} \in SUBSET Frame
    BY FrameFields
  <2>1. trail' \in [Calls -> SUBSET Events]
    BY <1>26, <2>0 DEF TypeOK, ConfirmModify, Confirmed, Events
  <2>2. status' \in [Calls -> Statuses]
    BY <1>26, <2>0, WithStatusType DEF TypeOK, ConfirmModify, Statuses
  <2>3. PICK n \in 0..MaxTwins :
          frames' = (frames \ {f}) \cup {Suspended(f.out, f.call, f.sig, None,
                                           f.out, f.ver, n)}
    BY <1>26, <2>0 DEF ConfirmModify, Suspend
  <2>4. f.out \in {"inline", "editor"}
    BY <1>26, <2>0 DEF ConfirmModify
  <2>5. Suspended(f.out, f.call, f.sig, None, f.out, f.ver, n) \in Frame
    BY <1>26, <2>0, <2>4 DEF Suspended, Frame
  <2>6. frames' \in SUBSET Frame
    BY <2>0, <2>3, <2>5
  <2> QED BY <1>26, <2>0, <2>1, <2>2, <2>3, <2>4, <2>5, <2>6
     DEF TypeOK, ConfirmModify
<1>27. ASSUME NEW f \in frames, EditorDone(f) PROVE TypeOK'
  <2>0. /\ f.call \in Calls \cup {None} /\ f.sig \in Requests
        /\ f.root \in Requests \cup {None} /\ f.ver \in 0..MaxArgs
        /\ f.out \in Outcomes \cup {None} /\ frames \ {f} \in SUBSET Frame
    BY FrameFields
  <2>1. args' \in [Calls -> 0..MaxArgs]
    BY <1>27, <2>0, NewArgsType DEF TypeOK, EditorDone
  <2>2. status' \in [Calls -> Statuses]
    BY <1>27, <2>0, WithStatusType DEF TypeOK, EditorDone, Statuses
  <2>3. jobs' \in Seq(Job)
    BY <1>27, <2>0, RunType, StartType DEF TypeOK, EditorDone
  <2> QED BY <1>27, <2>0, <2>1, <2>2, <2>3 DEF TypeOK, EditorDone
<1>28. ASSUME NEW f \in frames, EditorFails(f) PROVE TypeOK'
  <2>0. /\ f.call \in Calls \cup {None} /\ f.sig \in Requests
        /\ f.root \in Requests \cup {None} /\ f.ver \in 0..MaxArgs
        /\ f.out \in Outcomes \cup {None} /\ frames \ {f} \in SUBSET Frame
    BY FrameFields
  <2> QED BY <1>28, <2>0 DEF TypeOK, EditorFails
<1>29. ASSUME NEW f \in frames, InlineDone(f) PROVE TypeOK'
  <2>0. /\ f.call \in Calls \cup {None} /\ f.sig \in Requests
        /\ f.root \in Requests \cup {None} /\ f.ver \in 0..MaxArgs
        /\ f.out \in Outcomes \cup {None} /\ frames \ {f} \in SUBSET Frame
    BY FrameFields
  <2>1. args' \in [Calls -> 0..MaxArgs]
    BY <1>29, <2>0, NewArgsType DEF TypeOK, InlineDone
  <2>2. status' \in [Calls -> Statuses]
    BY <1>29, <2>0, WithStatusType DEF TypeOK, InlineDone, Statuses
  <2>3. f.call \in Calls => args'[f.call] \in 0..MaxArgs
    BY <1>29, <2>0, <2>1 DEF TypeOK, InlineDone
  <2>4. granted' \in [Calls -> SUBSET (0..MaxArgs)]
    BY <1>29, <2>0, <2>3 DEF TypeOK, InlineDone
  <2>5. jobs' \in Seq(Job)
    BY <1>29, <2>0, RunType, StartType DEF TypeOK, InlineDone
  <2> QED BY <1>29, <2>0, <2>1, <2>2, <2>3, <2>4, <2>5 DEF TypeOK, InlineDone
<1>30. ASSUME NEW f \in frames, ModifyInvalid(f) PROVE TypeOK'
  <2>0. /\ f.call \in Calls \cup {None} /\ f.sig \in Requests
        /\ f.root \in Requests \cup {None} /\ f.ver \in 0..MaxArgs
        /\ f.out \in Outcomes \cup {None} /\ frames \ {f} \in SUBSET Frame
    BY FrameFields
  <2>1. status' \in [Calls -> Statuses]
    BY <1>30, <2>0 DEF TypeOK, ModifyInvalid, Statuses, Terminal
  <2>2. jobs' \in Seq(Job)
    BY <1>30, <2>0, RunType, StartType DEF TypeOK, ModifyInvalid
  <2> QED BY <1>30, <2>0, <2>1, <2>2 DEF TypeOK, ModifyInvalid
<1>31. ASSUME NEW f \in frames,
              NEW result \in {"success", "saved", "failure", "throw"},
              ExecDone(f, result)
       PROVE  TypeOK'
  <2>0. /\ f.call \in Calls \cup {None} /\ f.sig \in Requests
        /\ f.root \in Requests \cup {None} /\ f.ver \in 0..MaxArgs
        /\ f.out \in Outcomes \cup {None} /\ frames \ {f} \in SUBSET Frame
    BY FrameFields
  <2>1. status' \in [Calls -> Statuses]
    BY <1>31, <2>0, WithStatusType DEF TypeOK, ExecDone, Statuses, Terminal
  <2>2. trail' \in [Calls -> SUBSET Events]
    BY <1>31, <2>0, AuditType DEF TypeOK, ExecDone, Events
  <2>3. jobs' \in Seq(Job)
    BY <1>31, <2>0, RunType, StartType DEF TypeOK, ExecDone
  <2> QED BY <1>31, <2>0, <2>1, <2>2, <2>3 DEF TypeOK, ExecDone
<1>32. ASSUME NEW f \in frames, ReportDone(f) PROVE TypeOK'
  <2>0. /\ f.call \in Calls \cup {None} /\ f.sig \in Requests
        /\ f.root \in Requests \cup {None} /\ f.ver \in 0..MaxArgs
        /\ f.out \in Outcomes \cup {None} /\ frames \ {f} \in SUBSET Frame
    BY FrameFields
  <2>1. /\ jobs' \in Seq(Job) /\ requestQueue' \in Seq(Requests)
        /\ isScheduling' \in BOOLEAN /\ promise' \in [Requests -> Promises]
    BY <1>32, <2>0, StartNextType DEF TypeOK, ReportDone
  <2>2. completed' \in Seq(Calls)
    BY <1>32, <2>0 DEF TypeOK, ReportDone
  <2> QED BY <1>32, <2>0, <2>1, <2>2 DEF TypeOK, ReportDone
<1>33. ASSUME NEW f \in frames, ReportThrows(f) PROVE TypeOK'
  <2>0. /\ f.call \in Calls \cup {None} /\ f.sig \in Requests
        /\ f.root \in Requests \cup {None} /\ f.ver \in 0..MaxArgs
        /\ f.out \in Outcomes \cup {None} /\ frames \ {f} \in SUBSET Frame
    BY FrameFields
  <2>1. /\ isScheduling' \in BOOLEAN /\ promise' \in [Requests -> Promises]
    BY <1>33, <2>0, UnwindType DEF TypeOK, ReportThrows
  <2> QED BY <1>33, <2>0, <2>1 DEF TypeOK, ReportThrows
<1>34. ASSUME NEW c \in Calls, NEW o \in Outcomes, Respond(c, o) PROVE TypeOK'
  <2>1. prompt[c].sig \in Requests
    BY <1>34 DEF TypeOK, Respond, CanAnswer, Prompted
  <2>2. answered' \in [Calls -> Nat]
    BY <1>34, <2>1 DEF TypeOK, Respond
  <2>3. frames' \in SUBSET Frame
    BY <1>34, <2>1, SuspendType DEF TypeOK, Respond
  <2> QED BY <1>34, <2>1, <2>2, <2>3 DEF TypeOK, Respond
<1>35. ASSUME NEW c \in Calls,
              NEW o \in Outcomes,
              RespondBadPin(c, o)
       PROVE  TypeOK'
  <2>1. prompt[c].sig \in Requests
    BY <1>35 DEF TypeOK, RespondBadPin, CanAnswer, Prompted
  <2>2. answered' \in [Calls -> Nat]
    BY <1>35, <2>1 DEF TypeOK, RespondBadPin
  <2>3. status' \in [Calls -> Statuses]
    BY <1>35, <2>1, WithStatusType
       DEF TypeOK, RespondBadPin, Statuses, Terminal
  <2>4. jobs' \in Seq(Job)
    BY <1>35, <2>1, RunType, StartType DEF TypeOK, RespondBadPin
  <2> QED BY <1>35, <2>1, <2>2, <2>3, <2>4 DEF TypeOK, RespondBadPin
<1>36. ASSUME NEW c \in Calls,
              NEW o \in Outcomes,
              RespondLate(c, o)
       PROVE  TypeOK'
  <2>1. prompt[c].sig \in Requests
    BY <1>36 DEF TypeOK, RespondLate, CanAnswer, Prompted
  <2>2. answered' \in [Calls -> Nat]
    BY <1>36, <2>1 DEF TypeOK, RespondLate
  <2>3. status' = status \/ status' = WithStatus(c, "scheduled")
    BY <1>36, <2>1 DEF TypeOK, RespondLate
  <2>4. status' \in [Calls -> Statuses]
    BY <1>36, <2>1, <2>3, WithStatusType DEF TypeOK, RespondLate, Statuses
  <2>5. jobs' \in Seq(Job)
    BY <1>36, <2>1, RunType, StartType DEF TypeOK, RespondLate
  <2> QED BY <1>36, <2>1, <2>2, <2>3, <2>4, <2>5 DEF TypeOK, RespondLate
<1>37. CASE UNCHANGED vars BY <1>37 DEF TypeOK, vars
<1> QED
  BY <1>1, <1>2, <1>3, <1>4, <1>5, <1>6, <1>7, <1>8, <1>9, <1>10, <1>11,
     <1>12, <1>13, <1>14, <1>15, <1>16, <1>17, <1>18, <1>19, <1>20, <1>21,
     <1>22, <1>23, <1>24, <1>25, <1>26, <1>27, <1>28, <1>29, <1>30, <1>31,
     <1>32, <1>33, <1>34, <1>35, <1>36, <1>37
     DEF Next, Method, Resume, Answer

-----------------------------------------------------------------------------
(***************************************************************************)
(* What the steps do, as far as the invariant is concerned.                *)
(***************************************************************************)

\* An awaited result or an answer starts at most one step ...
StartsOne ==
    \/ jobs' = <<>>
    \/ \E job \in Job : /\ job.fn \in {"check", "attempt", "cancelAll"}
                        /\ jobs' = <<job>>

\* ... may change the status of the active call, which it grants if it is to run
\* and collects if it is done ...
StatusMoves(c) ==
    status'[c] # status[c] =>
        /\ c = active
        /\ status[c] \notin Terminal
        /\ status'[c] \notin {"new", "validating", "executing"}
        /\ status'[c] = "scheduled" => granted'[c] # {}
        /\ status'[c] \in {"success", "cancelled"} =>
              jobs' # <<>> /\ Head(jobs').fn = "check"

\* ... takes no grant back, prompts for a call only when its check is over ...
GrantStays(c) == granted[c] \subseteq granted'[c]
PromptMoves(c) ==
    prompt'[c].sig # None =>
        \/ prompt[c].sig # None
        \/ status'[c] \notin {"new", "validating"}

\* ... and suspends no other call than the active one or its own.
FramesMove ==
    \A f \in frames' :
        \/ f \in frames
        \/ f.call = active /\ active # None
        \/ \E g \in frames : g.at # "report" /\ f.call = g.call

Handled ==
    /\ jobs = <<>>
    /\ UNCHANGED <<active, queue, completed, requestQueue, ran, reports>>
    /\ StartsOne
    /\ \A r \in Requests : \/ promise'[r] = promise[r]
                           \/ promise'[r] = "rejected" /\ "report" \in Faults
    /\ \A c \in Calls : StatusMoves(c) /\ GrantStays(c) /\ PromptMoves(c)
    /\ FramesMove

\* A step ends, and with it the part of a chain it was; only promises settle.
Ended ==
    /\ jobs # <<>> /\ Head(jobs).fn # "schedule"
    /\ jobs' = Tail(jobs)
    /\ UNCHANGED <<active, status, queue, completed, requestQueue, prompt,
                   frames, granted, ran, reports>>
    /\ \A r \in Requests : promise'[r] \in {promise[r], "resolved"}
    /\ Head(jobs).fn = "check" =>
          active = None \/ status[active] \notin Terminal

\* What setStatusInternal does to each call: the active one changes unless its
\* status is final.
LEMMA WithStatusAt ==
    ASSUME TypeOK, NEW c, NEW s, NEW d \in Calls
    PROVE  WithStatus(c, s)[d] =
              IF d = c /\ active = c /\ status[d] \notin Terminal
              THEN s ELSE status[d]
  BY SchedulerAssumption DEF TypeOK, WithStatus, Settable

\* After an event one job is there to run.
LEMMA StartJobs ==
    ASSUME NEW job, Start(job)
    PROVE  jobs' # <<>> /\ Head(jobs') = job /\ UnwindsBehind(jobs')
  BY DEF Start, UnwindsBehind

\* The fields of a job.
LEMMA RunFields ==
    ASSUME NEW fn, NEW sig, NEW root
    PROVE  /\ Run(fn, sig, root).fn = fn
           /\ Run(fn, sig, root).sig = sig
           /\ Run(fn, sig, root).root = root
  BY DEF Run

\* The frames after a suspension are those before it and one more.
LEMMA SuspendAdds ==
    ASSUME NEW rest, NEW at, NEW c, NEW sig, NEW root, NEW out, NEW ver,
           Suspend(rest, at, c, sig, root, out, ver),
           NEW f \in frames'
    PROVE  f \in rest \/ (f.call = c /\ f.at = at)
  BY DEF Suspend, Suspended

\* A call whose check is over is new no longer, and not queued.
LEMMA FrameCall ==
    ASSUME PlaceInv, NEW f \in frames, f.at # "report"
    PROVE  /\ f.call \in Calls
           /\ status[f.call] # "new"
           /\ f.call \notin Elements(queue)
  BY DEF PlaceInv

\* Every handler of an awaited result but one, and every answer, is Handled.
LEMMA HandledSteps ==
    ASSUME TypeOK, IInv
    PROVE  /\ \A f \in frames : Resume(f) => Handled \/ ReportDone(f)
           /\ \A c \in Calls : Answer(c) => Handled
<1> USE SchedulerAssumption
<1>1. ASSUME NEW f \in frames, ValidateFree(f) PROVE Handled
  <2>1. f.call \in Calls /\ status[f.call] # "new"
        /\ f.call \notin Elements(queue)
    BY <1>1, FrameCall DEF ValidateFree, IInv
  <2>2. StartsOne
    BY <1>1, FrameFields, RunType, RunFields
       DEF ValidateFree, StartsOne, Idle, Start
  <2>3. Settable(f.call) => granted'[f.call] # {}
    BY <1>1, <2>1 DEF ValidateFree, TypeOK
  <2>4. ASSUME NEW d \in Calls PROVE StatusMoves(d)
    <3>1. status'[d] # status[d] =>
             /\ d = f.call /\ active = f.call /\ status[d] \notin Terminal
             /\ status'[d] = "scheduled"
      BY <1>1, <2>1, WithStatusAt DEF ValidateFree
    <3>2. d = f.call /\ active = f.call /\ status[d] \notin Terminal =>
             granted'[d] # {}
      BY <2>1, <2>3 DEF Settable
    <3> QED BY <3>1, <3>2 DEF StatusMoves
  <2>5. \A d \in Calls : GrantStays(d)
    BY <1>1, <2>1 DEF ValidateFree, GrantStays, TypeOK
  <2>6. FramesMove
    BY <1>1, <2>1 DEF ValidateFree, FramesMove
  <2> QED BY <1>1, <2>1, <2>2, <2>3, <2>4, <2>5, <2>6
    DEF ValidateFree, Handled, Idle, PromptMoves
<1>2. ASSUME NEW f \in frames, ValidateThrows(f) PROVE Handled
  <2>1. f.call \in Calls /\ status[f.call] # "new"
        /\ f.call \notin Elements(queue)
    BY <1>2, FrameCall DEF ValidateThrows, IInv
  <2>2. StartsOne
    BY <1>2, FrameFields, RunType, RunFields
       DEF ValidateThrows, StartsOne, Idle, Start
  <2>3. \A d \in Calls : StatusMoves(d)
    BY <1>2, <2>1, WithStatusAt, StartJobs, RunFields
       DEF ValidateThrows, StatusMoves, Terminal
  <2>4. FramesMove
    BY <1>2, <2>1 DEF ValidateThrows, FramesMove
  <2> QED BY <1>2, <2>1, <2>2, <2>3, <2>4
    DEF ValidateThrows, Handled, Idle, GrantStays, PromptMoves
<1>3. ASSUME NEW f \in frames,
             NEW pin \in BOOLEAN,
             ValidatePrompt(f, pin)
      PROVE  Handled
  <2>1. f.call \in Calls /\ status[f.call] # "new"
        /\ f.call \notin Elements(queue)
    BY <1>3, FrameCall DEF ValidatePrompt, IInv
  <2>2. StartsOne
    BY <1>3, FrameFields, RunType, RunFields
       DEF ValidatePrompt, StartsOne, Idle, ShowPrompt, Start
  <2>3. \A d \in Calls : StatusMoves(d)
    BY <1>3, <2>1, WithStatusAt, StartJobs, RunFields
       DEF ValidatePrompt, StatusMoves, Terminal, ShowPrompt
  <2>4. status'[f.call] \notin {"new", "validating"}
    BY <1>3, <2>1, WithStatusAt
       DEF ValidatePrompt, ShowPrompt, IInv, PlaceInv, Terminal
  <2>5. ASSUME NEW d \in Calls PROVE PromptMoves(d)
    BY <1>3, <2>1, <2>4 DEF ValidatePrompt, PromptMoves, ShowPrompt, TypeOK
  <2>6. FramesMove
    BY <1>3, <2>1 DEF ValidatePrompt, FramesMove
  <2> QED BY <1>3, <2>1, <2>2, <2>3, <2>4, <2>5, <2>6
    DEF ValidatePrompt, Handled, Idle, GrantStays, ShowPrompt
<1>4. ASSUME NEW f \in frames,
             NEW pin \in BOOLEAN,
             ValidateHook(f, pin)
      PROVE  Handled
  <2>1. f.call \in Calls /\ status[f.call] # "new"
        /\ f.call \notin Elements(queue)
    BY <1>4, FrameCall DEF ValidateHook, IInv
  <2>2. StartsOne
    BY <1>4, FrameFields DEF ValidateHook, StartsOne, Idle
  <2>3. FramesMove
    BY <1>4, <2>1, SuspendAdds DEF ValidateHook, FramesMove
  <2> QED BY <1>4, <2>1, <2>2, <2>3
    DEF ValidateHook, Handled, Idle, StatusMoves, GrantStays, PromptMoves
<1>5. ASSUME NEW f \in frames, HookDone(f) PROVE Handled
  <2>1. f.call \in Calls /\ status[f.call] # "new"
        /\ f.call \notin Elements(queue)
    BY <1>5, FrameCall DEF HookDone, IInv
  <2>2. StartsOne
    BY <1>5, FrameFields, RunType, RunFields
       DEF HookDone, StartsOne, Idle, ShowPrompt, Start
  <2>3. \A d \in Calls : StatusMoves(d)
    BY <1>5, <2>1, WithStatusAt, StartJobs, RunFields
       DEF HookDone, StatusMoves, Terminal, ShowPrompt
  <2>4. status'[f.call] \notin {"new", "validating"}
    BY <1>5, <2>1, WithStatusAt
       DEF HookDone, ShowPrompt, IInv, PlaceInv, Terminal
  <2>5. ASSUME NEW d \in Calls PROVE PromptMoves(d)
    BY <1>5, <2>1, <2>4 DEF HookDone, PromptMoves, ShowPrompt, TypeOK
  <2>6. FramesMove
    BY <1>5, <2>1 DEF HookDone, FramesMove
  <2> QED BY <1>5, <2>1, <2>2, <2>3, <2>4, <2>5, <2>6
    DEF HookDone, Handled, Idle, GrantStays, ShowPrompt
<1>6. ASSUME NEW f \in frames, ConfirmThrows(f) PROVE Handled
  <2>1. f.call \in Calls /\ status[f.call] # "new"
        /\ f.call \notin Elements(queue)
    BY <1>6, FrameCall DEF ConfirmThrows, IInv
  <2>2. StartsOne
    BY <1>6, FrameFields, RunType, RunFields
       DEF ConfirmThrows, StartsOne, Idle, Start
  <2>3. \A d \in Calls : StatusMoves(d)
    BY <1>6, <2>1, WithStatusAt, StartJobs, RunFields
       DEF ConfirmThrows, StatusMoves, Terminal
  <2>4. FramesMove
    BY <1>6, <2>1 DEF ConfirmThrows, FramesMove
  <2> QED BY <1>6, <2>1, <2>2, <2>3, <2>4
    DEF ConfirmThrows, Handled, Idle, GrantStays, PromptMoves
<1>7. ASSUME NEW f \in frames, ConfirmCancel(f) PROVE Handled
  <2>1. f.call \in Calls /\ status[f.call] # "new"
        /\ f.call \notin Elements(queue)
    BY <1>7, FrameCall DEF ConfirmCancel, IInv, Confirmed
  <2>2. StartsOne
    BY <1>7, FrameFields, RunType, RunFields
       DEF ConfirmCancel, StartsOne, Confirmed, Idle, Start
  <2>3. FramesMove
    BY <1>7, <2>1 DEF ConfirmCancel, FramesMove
  <2> QED BY <1>7, <2>1, <2>2, <2>3
    DEF ConfirmCancel, Handled, Confirmed, Idle, StatusMoves, GrantStays, PromptMoves
<1>8. ASSUME NEW f \in frames, ConfirmProceed(f) PROVE Handled
  <2>1. f.call \in Calls /\ status[f.call] # "new"
        /\ f.call \notin Elements(queue)
    BY <1>8, FrameCall DEF ConfirmProceed, IInv, Confirmed
  <2>2. StartsOne
    BY <1>8, FrameFields, RunType, RunFields
       DEF ConfirmProceed, StartsOne, Confirmed, Idle, Start
  <2>3. Settable(f.call) => granted'[f.call] # {}
    BY <1>8, <2>1 DEF ConfirmProceed, TypeOK
  <2>4. ASSUME NEW d \in Calls PROVE StatusMoves(d)
    <3>1. status'[d] # status[d] =>
             /\ d = f.call /\ active = f.call /\ status[d] \notin Terminal
             /\ status'[d] = "scheduled"
      BY <1>8, <2>1, WithStatusAt DEF ConfirmProceed
    <3>2. d = f.call /\ active = f.call /\ status[d] \notin Terminal =>
             granted'[d] # {}
      BY <2>1, <2>3 DEF Settable
    <3> QED BY <3>1, <3>2 DEF StatusMoves
  <2>5. \A d \in Calls : GrantStays(d)
    BY <1>8, <2>1 DEF ConfirmProceed, GrantStays, TypeOK
  <2>6. FramesMove
    BY <1>8, <2>1 DEF ConfirmProceed, FramesMove
  <2> QED BY <1>8, <2>1, <2>2, <2>3, <2>4, <2>5, <2>6
    DEF ConfirmProceed, Handled, Confirmed, Idle, PromptMoves
<1>9. ASSUME NEW f \in frames, ConfirmModify(f) PROVE Handled
  <2>1. f.call \in Calls /\ status[f.call] # "new"
        /\ f.call \notin Elements(queue)
    BY <1>9, FrameCall DEF ConfirmModify, IInv, Confirmed
  <2>2. StartsOne
    BY <1>9, FrameFields DEF ConfirmModify, StartsOne, Confirmed, Idle
  <2>3. \A d \in Calls : StatusMoves(d)
    BY <1>9, <2>1, WithStatusAt, StartJobs, RunFields
       DEF ConfirmModify, StatusMoves, Terminal
  <2>4. FramesMove
    BY <1>9, <2>1, SuspendAdds DEF ConfirmModify, FramesMove, Confirmed
  <2> QED BY <1>9, <2>1, <2>2, <2>3, <2>4
    DEF ConfirmModify, Handled, Confirmed, Idle, GrantStays, PromptMoves
<1>10. ASSUME NEW f \in frames, EditorDone(f) PROVE Handled
  <2>1. f.call \in Calls /\ status[f.call] # "new"
        /\ f.call \notin Elements(queue)
    BY <1>10, FrameCall DEF EditorDone, IInv
  <2>2. StartsOne
    BY <1>10, FrameFields, RunType, RunFields
       DEF EditorDone, StartsOne, Idle, Start
  <2>3. \A d \in Calls : StatusMoves(d)
    BY <1>10, <2>1, WithStatusAt, StartJobs, RunFields
       DEF EditorDone, StatusMoves, Terminal
  <2>4. FramesMove
    BY <1>10, <2>1 DEF EditorDone, FramesMove
  <2> QED BY <1>10, <2>1, <2>2, <2>3, <2>4
    DEF EditorDone, Handled, Idle, GrantStays, PromptMoves
<1>11. ASSUME NEW f \in frames, EditorFails(f) PROVE Handled
  <2>1. f.call \in Calls /\ status[f.call] # "new"
        /\ f.call \notin Elements(queue)
    BY <1>11, FrameCall DEF EditorFails, IInv
  <2>2. StartsOne
    BY <1>11, FrameFields DEF EditorFails, StartsOne, Idle
  <2>3. FramesMove
    BY <1>11, <2>1 DEF EditorFails, FramesMove
  <2> QED BY <1>11, <2>1, <2>2, <2>3
    DEF EditorFails, Handled, Idle, StatusMoves, GrantStays, PromptMoves
<1>12. ASSUME NEW f \in frames, InlineDone(f) PROVE Handled
  <2>1. f.call \in Calls /\ status[f.call] # "new"
        /\ f.call \notin Elements(queue)
    BY <1>12, FrameCall DEF InlineDone, IInv
  <2>2. StartsOne
    BY <1>12, FrameFields, RunType, RunFields
       DEF InlineDone, StartsOne, Idle, Start
  <2>3. Settable(f.call) => granted'[f.call] # {}
    BY <1>12, <2>1 DEF InlineDone, TypeOK
  <2>4. ASSUME NEW d \in Calls PROVE StatusMoves(d)
    <3>1. status'[d] # status[d] =>
             /\ d = f.call /\ active = f.call /\ status[d] \notin Terminal
             /\ status'[d] = "scheduled"
      BY <1>12, <2>1, WithStatusAt DEF InlineDone
    <3>2. d = f.call /\ active = f.call /\ status[d] \notin Terminal =>
             granted'[d] # {}
      BY <2>1, <2>3 DEF Settable
    <3> QED BY <3>1, <3>2 DEF StatusMoves
  <2>5. \A d \in Calls : GrantStays(d)
    BY <1>12, <2>1 DEF InlineDone, GrantStays, TypeOK
  <2>6. FramesMove
    BY <1>12, <2>1 DEF InlineDone, FramesMove
  <2> QED BY <1>12, <2>1, <2>2, <2>3, <2>4, <2>5, <2>6
    DEF InlineDone, Handled, Idle, PromptMoves
<1>13. ASSUME NEW f \in frames, ModifyInvalid(f) PROVE Handled
  <2>1. f.call \in Calls /\ status[f.call] # "new"
        /\ f.call \notin Elements(queue)
    BY <1>13, FrameCall DEF ModifyInvalid, IInv
  <2>2. StartsOne
    BY <1>13, FrameFields, RunType, RunFields
       DEF ModifyInvalid, StartsOne, Idle, Start
  <2>3. \A d \in Calls : StatusMoves(d)
    BY <1>13, <2>1, WithStatusAt, StartJobs, RunFields
       DEF ModifyInvalid, StatusMoves, Terminal, TypeOK, IInv, GateInv,
           FinalInv, PlaceInv, Prompted, CanAnswer, Waiting, Idle
  <2>4. FramesMove
    BY <1>13, <2>1 DEF ModifyInvalid, FramesMove
  <2> QED BY <1>13, <2>1, <2>2, <2>3, <2>4
    DEF ModifyInvalid, Handled, Idle, GrantStays, PromptMoves
<1>14. ASSUME NEW f \in frames,
              NEW result \in {"success", "saved", "failure", "throw"},
              ExecDone(f, result)
       PROVE  Handled
  <2>1. f.call \in Calls /\ status[f.call] # "new"
        /\ f.call \notin Elements(queue)
    BY <1>14, FrameCall DEF ExecDone, IInv
  <2>2. StartsOne
    BY <1>14, FrameFields, RunType, RunFields
       DEF ExecDone, StartsOne, Idle, Start
  <2>3. \A d \in Calls : StatusMoves(d)
    BY <1>14, <2>1, WithStatusAt, StartJobs, RunFields
       DEF ExecDone, StatusMoves, Terminal
  <2>4. FramesMove
    BY <1>14, <2>1 DEF ExecDone, FramesMove
  <2> QED BY <1>14, <2>1, <2>2, <2>3, <2>4
    DEF ExecDone, Handled, Idle, GrantStays, PromptMoves
<1>15. ASSUME NEW f \in frames, ReportThrows(f) PROVE Handled
  <2>1. StartsOne
    BY <1>15, FrameFields DEF ReportThrows, StartsOne, Idle
  <2>2. FramesMove
    BY <1>15 DEF ReportThrows, FramesMove
  <2> QED BY <1>15, <2>1, <2>2
    DEF ReportThrows, Handled, Idle, StatusMoves, GrantStays, PromptMoves, Unwind, TypeOK
<1>16. ASSUME NEW c \in Calls, NEW o \in Outcomes, Respond(c, o) PROVE Handled
  <2>1. prompt[c].sig \in Requests
    BY <1>16 DEF Respond, CanAnswer, Prompted, TypeOK
  <2>2. StartsOne
    BY <1>16, <2>1 DEF Respond, StartsOne, CanAnswer, Idle
  <2>3. FramesMove
    BY <1>16, <2>1, SuspendAdds
       DEF Respond, FramesMove, Waiting, IInv, PlaceInv, TypeOK
  <2> QED BY <1>16, <2>1, <2>2, <2>3
    DEF Respond, Handled, CanAnswer, Idle, StatusMoves, GrantStays, PromptMoves
<1>17. ASSUME NEW c \in Calls,
              NEW o \in Outcomes,
              RespondBadPin(c, o)
       PROVE  Handled
  <2>1. prompt[c].sig \in Requests
    BY <1>17 DEF RespondBadPin, CanAnswer, Prompted, TypeOK
  <2>2. StartsOne
    BY <1>17, <2>1, RunType, RunFields
       DEF RespondBadPin, StartsOne, CanAnswer, Idle, Start
  <2>3. \A d \in Calls : StatusMoves(d)
    BY <1>17, <2>1, WithStatusAt, StartJobs, RunFields
       DEF RespondBadPin, StatusMoves, Terminal
  <2>4. FramesMove
    BY <1>17, <2>1 DEF RespondBadPin, FramesMove
  <2> QED BY <1>17, <2>1, <2>2, <2>3, <2>4
    DEF RespondBadPin, Handled, CanAnswer, Idle, GrantStays, PromptMoves
<1>18. ASSUME NEW c \in Calls,
              NEW o \in Outcomes,
              RespondLate(c, o)
       PROVE  Handled
  <2>1. prompt[c].sig \in Requests
    BY <1>18 DEF RespondLate, CanAnswer, Prompted, TypeOK
  <2>2. StartsOne
    BY <1>18, <2>1, RunType, RunFields
       DEF RespondLate, StartsOne, CanAnswer, Idle, Start
  <2>3. ASSUME Settable(c), o \notin {"cancel", "editor"}
        PROVE  granted[c] # {}
    <3>1. active = c /\ status[c] \notin Terminal BY <2>3 DEF Settable
    <3>2. status[c] # "awaiting_approval"
      BY <1>18, <3>1 DEF RespondLate, Waiting
    <3>3. prompt[c].sig # None BY <1>18 DEF RespondLate, CanAnswer, Prompted
    <3>4. status[c] \notin {"new", "validating"} BY <3>3 DEF IInv, GateInv
    <3>5. status[c] \in Statuses BY DEF TypeOK
    <3>6. status[c] \in {"scheduled", "executing"}
      BY <3>1, <3>2, <3>4, <3>5 DEF Statuses
    <3> QED BY <3>6 DEF IInv, GateInv
  <2>4. ASSUME NEW d \in Calls PROVE StatusMoves(d)
    BY <1>18, <2>1, <2>3, WithStatusAt DEF RespondLate, StatusMoves, Settable
  <2>5. FramesMove
    BY <1>18, <2>1 DEF RespondLate, FramesMove
  <2> QED BY <1>18, <2>1, <2>2, <2>3, <2>4, <2>5
    DEF RespondLate, Handled, CanAnswer, Idle, GrantStays, PromptMoves
<1> QED BY <1>1, <1>2, <1>3, <1>4, <1>5, <1>6, <1>7, <1>8, <1>9, <1>10, <1>11,
           <1>12, <1>13, <1>14, <1>15, <1>16, <1>17, <1>18
     DEF Resume, Answer

\* The steps that only end are Ended.
LEMMA EndedSteps ==
    ASSUME TypeOK, IInv,
           \/ ProcessNothing \/ AttemptNothing \/ CancelAllAgain \/ CheckBusy
           \/ CheckNothing \/ UnwindJob
    PROVE  Ended
<1> USE SchedulerAssumption DEF End, Ended, Running, Me, Unwind
<1>1. ASSUME TypeOK, NEW root, Unwind(root, "resolved")
      PROVE  \A r \in Requests : promise'[r] \in {promise[r], "resolved"}
  BY <1>1 DEF TypeOK
<1>2. CASE ProcessNothing BY <1>1, <1>2 DEF ProcessNothing
<1>3. CASE AttemptNothing BY <1>1, <1>3 DEF AttemptNothing
<1>4. CASE CancelAllAgain BY <1>4 DEF CancelAllAgain
<1>5. CASE CheckBusy BY <1>1, <1>5 DEF CheckBusy, Busy
<1>6. CASE CheckNothing
  <2>1. active = None
    <3>1. Batch = <<>> BY <1>6 DEF CheckNothing, WholeBatch
    <3>2. completed \in Seq(Calls) /\ (active # None => active \in Calls)
      BY DEF TypeOK
    <3>3. active # None => Append(completed, active) # <<>> BY <3>2
    <3> QED BY <3>1, <3>3 DEF Batch
  <2> QED BY <1>1, <1>6, <2>1 DEF CheckNothing
<1>7. CASE UnwindJob BY <1>1, <1>7 DEF UnwindJob
<1> QED BY <1>2, <1>3, <1>4, <1>5, <1>6, <1>7

\* When a step ends, a chain that unwinds comes next.
LEMMA TailJobs ==
    ASSUME TypeOK, UnwindsBehind(jobs), jobs # <<>>, jobs' = Tail(jobs)
    PROVE  /\ UnwindsBehind(jobs')
           /\ jobs' # <<>> => Head(jobs').fn = "unwind"
<1>1. jobs \in Seq(Job) BY DEF TypeOK
<1>2. /\ Len(jobs) \in Nat /\ DOMAIN jobs = 1..Len(jobs)
      /\ DOMAIN jobs' = 1..(Len(jobs) - 1)
      /\ \A i \in 1..(Len(jobs) - 1) : jobs'[i] = jobs[i + 1]
      /\ jobs' # <<>> => Head(jobs') = jobs'[1] /\ 1 \in 1..(Len(jobs) - 1)
  BY <1>1
<1>3. \A i \in 1..(Len(jobs) - 1) : i + 1 \in 1..Len(jobs) /\ i + 1 > 1
  BY <1>2
<1>4. \A i \in 1..(Len(jobs) - 1) : jobs'[i].fn = "unwind"
  BY <1>2, <1>3 DEF UnwindsBehind
<1> QED BY <1>2, <1>4 DEF UnwindsBehind

\* When a step goes on as another, the rest waits to unwind.
LEMMA ContinueJobs ==
    ASSUME TypeOK, UnwindsBehind(jobs), jobs # <<>>, NEW job \in Job,
           Continue(job)
    PROVE  jobs' # <<>> /\ Head(jobs') = job /\ UnwindsBehind(jobs')
<1>1. jobs \in Seq(Job) /\ Tail(jobs) \in Seq(Job) /\ jobs' = <<job>> \o Tail(jobs)
  BY DEF TypeOK, Continue
<1>2. /\ Len(jobs) \in Nat /\ Len(jobs) > 0 /\ DOMAIN jobs = 1..Len(jobs)
      /\ jobs' # <<>> /\ Head(jobs') = job
      /\ DOMAIN jobs' = 1..Len(jobs)
      /\ \A i \in 2..Len(jobs) : jobs'[i] = jobs[i]
  BY <1>1
<1>3. \A i \in 1..Len(jobs) : i > 1 => i \in 2..Len(jobs) BY <1>2
<1> QED BY <1>2, <1>3 DEF UnwindsBehind

\* What is Handled keeps the invariant.
LEMMA HandledKeeps ==
    ASSUME TypeOK, TypeOK', IInv, Handled
    PROVE  IInv'
<1> USE SchedulerAssumption
<1>1. \A c \in Calls : status'[c] = "new" <=> status[c] = "new"
  BY DEF Handled, StatusMoves, IInv, PlaceInv
<1>2. RequestInv'
  <2>1. UnwindsBehind(jobs')
    BY DEF Handled, StartsOne, UnwindsBehind
  <2>2. jobs' # <<>> => Head(jobs').fn # "schedule"
    BY DEF Handled, StartsOne
  <2>3. \A r \in Requests : ~Starting(r)' /\ ~Starting(r)
    BY <2>2 DEF Handled, Starting
  <2>4. \A r \in Requests : Fresh(r)' <=> Fresh(r)
    BY <1>1 DEF Fresh, Elements
  <2>5. Elements(requestQueue)' = Elements(requestQueue)
    BY DEF Handled
  <2> QED BY <2>1, <2>2, <2>3, <2>4, <2>5 DEF Handled, IInv, RequestInv
<1>3. PlaceInv'
  <2>1. Elements(queue)' = Elements(queue) BY DEF Handled
  <2>2. \A c \in Elements(queue) : c \in Calls /\ c # active
    BY DEF TypeOK, Elements, IInv, PlaceInv
  <2>3. active # None => active \in Calls /\ status[active] # "new"
    BY DEF IInv, PlaceInv, TypeOK
  <2>4. ASSUME NEW f \in frames', f.at # "report"
        PROVE  f.call \in Calls /\ status[f.call] # "new"
               /\ f.call \notin Elements(queue)
    <3>1. CASE f \in frames BY <2>4, <3>1, FrameCall DEF IInv
    <3>2. CASE f.call = active /\ active # None BY <2>2, <2>3, <3>2
    <3>3. CASE \E g \in frames : g.at # "report" /\ f.call = g.call
      BY <3>3, FrameCall DEF IInv
    <3> QED BY <3>1, <3>2, <3>3 DEF Handled, FramesMove
  <2>5. \A c \in Calls : status'[c] = "validating" => status[c] = "validating"
    BY DEF Handled, StatusMoves
  <2>6. \A c \in Elements(queue) : status'[c] = status[c]
    BY <2>2 DEF Handled, StatusMoves
  <2>7. active' = active BY DEF Handled
  <2> QED BY <1>1, <2>1, <2>2, <2>3, <2>4, <2>5, <2>6, <2>7
        DEF Handled, IInv, PlaceInv
<1>4. GateInv'
  BY DEF Handled, StatusMoves, GrantStays, PromptMoves, IInv, GateInv, TypeOK,
         Statuses, Terminal
<1>5. FinalInv'
  <2>1. \A c \in Calls : status[c] \in Terminal => status'[c] = status[c]
    BY DEF Handled, StatusMoves
  <2>2. Elements(completed)' = Elements(completed)
        /\ \A c \in Elements(completed) : c \in Calls
    BY DEF Handled, TypeOK, Elements
  <2>3. active # None => active \in Calls BY DEF TypeOK
  <2>4. active' = active /\ reports' = reports BY DEF Handled
  <2>5. active # None /\ status[active] \in {"success", "cancelled"} => FALSE
    BY DEF Handled, IInv, FinalInv
  <2>6. active # None /\ status'[active] \in {"success", "cancelled"} =>
           jobs' # <<>> /\ Head(jobs').fn = "check"
    BY <2>3, <2>5 DEF Handled, StatusMoves
  <2> QED BY <2>1, <2>2, <2>4, <2>6 DEF IInv, FinalInv
<1> QED BY <1>2, <1>3, <1>4, <1>5 DEF IInv

\* What is Ended keeps the invariant.
LEMMA EndedKeeps ==
    ASSUME TypeOK, IInv, Ended
    PROVE  IInv'
<1>1. /\ UnwindsBehind(jobs')
      /\ jobs' # <<>> => Head(jobs').fn = "unwind"
  BY TailJobs DEF Ended, IInv, RequestInv
<1>2. RequestInv'
  <2>1. \A r \in Requests : ~Starting(r) /\ ~Starting(r)'
    BY <1>1 DEF Ended, Starting
  <2>2. /\ Elements(requestQueue)' = Elements(requestQueue)
        /\ \A r \in Requests : Fresh(r)' <=> Fresh(r)
    BY DEF Ended, Fresh
  <2> QED BY <1>1, <2>1, <2>2 DEF Ended, IInv, RequestInv
<1>3. PlaceInv' BY DEF Ended, IInv, PlaceInv
<1>4. GateInv' BY DEF Ended, IInv, GateInv
<1>5. FinalInv' BY DEF Ended, IInv, FinalInv, Terminal
<1> QED BY <1>2, <1>3, <1>4, <1>5 DEF IInv

\* Steps that leave the calls alone: only requests and promises change.
LEMMA CallsKept ==
    ASSUME IInv, UNCHANGED <<active, status, queue, completed, prompt, frames,
                             granted, ran, reports>>
    PROVE  PlaceInv' /\ GateInv'
           /\ (jobs = <<>> \/ jobs' = jobs => FinalInv')
<1>1. PlaceInv' BY DEF IInv, PlaceInv
<1>2. GateInv' BY DEF IInv, GateInv
<1>3. jobs = <<>> \/ jobs' = jobs => FinalInv' BY DEF IInv, FinalInv
<1> QED BY <1>1, <1>2, <1>3

\* The queues hold requests and calls.
LEMMA QueueType ==
    ASSUME TypeOK
    PROVE  /\ requestQueue \in Seq(Requests) /\ queue \in Seq(Calls)
           /\ completed \in Seq(Calls)
           /\ Elements(requestQueue) \subseteq Requests
           /\ Elements(queue) \subseteq Calls
           /\ Elements(completed) \subseteq Calls
<1>1. /\ requestQueue \in Seq(Requests) /\ queue \in Seq(Calls)
      /\ completed \in Seq(Calls)
  BY DEF TypeOK
<1> QED BY <1>1 DEF Elements

\* schedule()
LEMMA ScheduleKeeps ==
    ASSUME TypeOK, IInv, NEW r \in Requests, Schedule(r)
    PROVE  IInv'
<1>1. r \notin Elements(requestQueue) /\ Fresh(r) /\ jobs = <<>>
  BY DEF Schedule, IInv, RequestInv, Idle
<1>2. \A q \in Requests : (Fresh(q)' <=> Fresh(q)) /\ ~Starting(q)
  BY <1>1 DEF Schedule, Fresh, Starting
<1>3. /\ promise'[r] = "pending"
      /\ \A q \in Requests : q # r => promise'[q] = promise[q]
  BY DEF Schedule, TypeOK
<1>4. CASE requestQueue' = Append(requestQueue, r) /\ UNCHANGED jobs
  <2>1. /\ Elements(requestQueue)' = Elements(requestQueue) \cup {r}
        /\ IsInjective(requestQueue)'
    BY <1>1, <1>4, QueueType, Appended DEF IInv, RequestInv
  <2>2. \A q \in Requests : ~Starting(q)' BY <1>1, <1>4 DEF Starting
  <2>3. UnwindsBehind(jobs)' /\ jobs' = <<>>
    BY <1>1, <1>4 DEF IInv, RequestInv
  <2>4. RequestInv'
    BY <1>1, <1>2, <1>3, <2>1, <2>2, <2>3 DEF IInv, RequestInv
  <2> QED BY <1>4, <2>4, CallsKept DEF IInv, Schedule
<1>5. CASE Start(Run("schedule", r, r)) /\ UNCHANGED requestQueue
  <2>1. /\ jobs' # <<>> /\ UnwindsBehind(jobs')
        /\ Head(jobs').fn = "schedule" /\ Head(jobs').sig = r
        /\ Head(jobs').root = r
    BY <1>5, StartJobs, RunFields
  <2>2. \A q \in Requests : Starting(q)' <=> q = r BY <2>1 DEF Starting
  <2>3. Elements(requestQueue)' = Elements(requestQueue) BY <1>5
  <2>4. RequestInv'
    BY <1>1, <1>2, <1>3, <1>5, <2>1, <2>2, <2>3 DEF IInv, RequestInv
  <2> QED BY <1>1, <2>4, CallsKept DEF IInv, Schedule
<1> QED BY <1>4, <1>5 DEF Schedule

\* An abort, with or without cancelAll.
LEMMA AbortSignalKeeps ==
    ASSUME TypeOK, IInv, NEW r \in Requests, AbortSignal(r), Idle,
           UNCHANGED <<active, status, queue, completed, prompt, frames, granted,
                       ran, reports>>,
           jobs' = jobs \/ Start(Run("cancelAll", r, None))
    PROVE  IInv'
<1>1. /\ UnwindsBehind(jobs')
      /\ \A q \in Requests : ~Starting(q) /\ ~Starting(q)'
      /\ ~(jobs' # <<>> /\ Head(jobs').fn = "schedule")
  BY StartJobs, RunFields DEF IInv, RequestInv, Starting, Idle
<1>2. \A q \in Requests : Fresh(q)' <=> Fresh(q) BY DEF Fresh
<1>3. RequestInv'
  <2>1. CASE AbortQueued(r)
    <3>1. PICK i \in DOMAIN requestQueue :
              /\ requestQueue[i] = r
              /\ requestQueue' = Without(requestQueue, i)
              /\ promise' = [promise EXCEPT ![r] = "rejected"]
      BY <2>1 DEF AbortQueued
    <3>2. r \in Elements(requestQueue) BY <3>1 DEF Elements
    <3>3. /\ Elements(requestQueue)' \subseteq Elements(requestQueue) \ {r}
          /\ IsInjective(requestQueue)'
      BY <3>1, QueueType, Removed DEF IInv, RequestInv
    <3>4. /\ promise'[r] = "rejected"
          /\ \A q \in Requests : q # r => promise'[q] = promise[q]
      BY <3>1 DEF TypeOK
    <3> QED BY <1>1, <1>2, <3>2, <3>3, <3>4 DEF IInv, RequestInv
  <2>2. CASE UNCHANGED <<requestQueue, promise>>
    BY <1>1, <1>2, <2>2 DEF IInv, RequestInv
  <2> QED BY <2>1, <2>2 DEF AbortSignal
<1> QED BY <1>3, CallsKept DEF IInv, Idle

\* _schedule that throws
LEMMA ScheduleThrowsKeeps ==
    ASSUME TypeOK, IInv, ScheduleThrows
    PROVE  IInv'
<1> DEFINE r == Head(jobs).sig
<1>1. /\ jobs # <<>> /\ Head(jobs).fn = "schedule" /\ Head(jobs).root = r
      /\ r \in Requests /\ Starting(r) /\ jobs' = Tail(jobs)
      /\ \A q \in Requests : Starting(q) <=> q = r
  BY MeType DEF ScheduleThrows, Running, Me, IInv, RequestInv, Starting, Job
<1>2. /\ UnwindsBehind(jobs')
      /\ jobs' # <<>> => Head(jobs').fn = "unwind"
  BY <1>1, TailJobs DEF IInv, RequestInv
<1>3. \A q \in Requests : ~Starting(q)' BY <1>2 DEF Starting
<1>4. /\ promise'[r] = "rejected"
      /\ \A q \in Requests : q # r => promise'[q] = promise[q]
  BY <1>1, SchedulerAssumption DEF ScheduleThrows, Me, Unwind, TypeOK
<1>5. \A q \in Requests : Fresh(q)' <=> Fresh(q)
  BY DEF Fresh, ScheduleThrows
<1>6. requestQueue' = requestQueue BY DEF ScheduleThrows
<1> HIDE DEF r
<1>7. RequestInv'
  BY <1>1, <1>2, <1>3, <1>4, <1>5, <1>6 DEF IInv, RequestInv
<1>8. PlaceInv' /\ GateInv' BY CallsKept DEF ScheduleThrows
<1>9. FinalInv' BY <1>1 DEF IInv, FinalInv, ScheduleThrows
<1> QED BY <1>7, <1>8, <1>9 DEF IInv

\* Methods other than _schedule take no call on and start no request.
LEMMA RequestsKept ==
    ASSUME TypeOK, IInv, jobs # <<>>, Head(jobs).fn # "schedule",
           UnwindsBehind(jobs'), jobs' # <<>> => Head(jobs').fn # "schedule",
           UNCHANGED <<requestQueue, promise>>,
           \A c \in Calls : status'[c] = "new" <=> status[c] = "new"
    PROVE  RequestInv'
<1>1. \A r \in Requests : ~Starting(r) /\ ~Starting(r)' BY DEF Starting
<1>2. \A r \in Requests : Fresh(r)' <=> Fresh(r)
  BY SchedulerAssumption DEF Fresh, Elements
<1>3. Elements(requestQueue)' = Elements(requestQueue) OBVIOUS
<1> QED BY <1>1, <1>2, <1>3 DEF IInv, RequestInv

\* _cancelAllQueuedCalls: what is queued ends, and nothing else changes.
LEMMA CancelQueuedAt ==
    ASSUME TypeOK, IInv, NEW st, NEW c \in Calls,
           \A d \in Elements(queue) : st[d] = status[d]
    PROVE  /\ c \in Elements(queue) => /\ CancelQueued(st)[c] \in {"error", "cancelled"}
                                       /\ status[c] \in {"validating", "error"}
                                       /\ status[c] \in Terminal =>
                                             CancelQueued(st)[c] = status[c]
           /\ c \notin Elements(queue) => CancelQueued(st)[c] = st[c]
<1>1. CancelQueued(st)[c] = IF c \in Elements(queue) /\ st[c] # "error"
                            THEN "cancelled" ELSE st[c]
  BY DEF CancelQueued
<1>2. c \in Elements(queue) => status[c] \in {"validating", "error"}
  BY DEF IInv, PlaceInv
<1> QED BY <1>1, <1>2 DEF Terminal

\* _schedule: the calls of the request are new and become queued.
LEMMA ScheduleBatchKeeps ==
    ASSUME TypeOK, IInv, ScheduleBatch
    PROVE  IInv'
<1> DEFINE r == Head(jobs).sig
           mine == Elements(CallsOf[r])
<1>1. /\ jobs # <<>> /\ Head(jobs).fn = "schedule" /\ r \in Requests
      /\ Head(jobs).root = r
      /\ \A q \in Requests : Starting(q) <=> q = r
  BY MeType DEF ScheduleBatch, Running, Me, IInv, RequestInv, Starting, Job
<1>2. /\ CallsOf[r] \in Seq(Calls) /\ mine \subseteq Calls
      /\ IsInjective(CallsOf[r])
  BY <1>1, SchedulerAssumption DEF Elements, IsInjective
<1>3. \A q \in Requests : q # r => Elements(CallsOf[q]) \cap mine = {}
  BY <1>1, SchedulerAssumption DEF Elements
<1>4. /\ \A c \in mine : status[c] = "new"
      /\ r \notin Elements(requestQueue)
      /\ promise[r] # "unsent"
      /\ promise[r] = "rejected" => "report" \in Faults
  BY <1>1 DEF IInv, RequestInv, Fresh
<1>5. /\ queue' = queue \o CallsOf[r] /\ completed' = <<>>
      /\ Continue(Run("process", r, r))
      /\ \A c \in Calls : c \notin mine => status'[c] = status[c]
      /\ \A c \in mine : status'[c] \in {"validating", "error"}
      /\ UNCHANGED <<active, requestQueue, promise, frames, prompt, granted, ran,
                     reports>>
  BY <1>1, <1>2 DEF ScheduleBatch, Me
<1> HIDE DEF r, mine
<1>6. /\ jobs' # <<>> /\ UnwindsBehind(jobs') /\ Head(jobs').fn = "process"
  BY <1>1, <1>5, RunType, RunFields, ContinueJobs DEF IInv, RequestInv
<1>7. /\ active \notin mine
      /\ mine \cap Elements(queue) = {}
      /\ Elements(queue) \subseteq Calls /\ queue \in Seq(Calls)
      /\ active # None => active \in Calls
  <2>1. active \notin mine
    BY <1>2, <1>4, SchedulerAssumption DEF IInv, PlaceInv
  <2>2. mine \cap Elements(queue) = {}
    BY <1>4 DEF IInv, PlaceInv
  <2> QED BY <2>1, <2>2, QueueType DEF TypeOK
<1>8. Elements(queue') = Elements(queue) \cup mine /\ IsInjective(queue')
  BY <1>2, <1>5, <1>7, Joined DEF IInv, PlaceInv, mine
<1>9. RequestInv'
  <2>1. \A q \in Requests : ~Starting(q)' BY <1>6 DEF Starting
  <2>2. \A q \in Requests : q # r /\ Fresh(q) => Fresh(q)'
    <3> SUFFICES ASSUME NEW q \in Requests, q # r, Fresh(q),
                        NEW c \in Elements(CallsOf[q])
                 PROVE  status'[c] = "new"
      BY DEF Fresh
    <3>1. c \in Calls BY SchedulerAssumption DEF Elements
    <3>2. c \notin mine BY <1>3
    <3> QED BY <1>5, <3>1, <3>2 DEF Fresh
  <2>3. Elements(requestQueue)' = Elements(requestQueue) BY <1>5
  <2> QED BY <1>1, <1>4, <1>5, <1>6, <2>1, <2>2, <2>3 DEF IInv, RequestInv
<1>10. PlaceInv'
  <2>1. active' \notin Elements(queue)' BY <1>5, <1>7, <1>8 DEF IInv, PlaceInv
  <2>2. active' # None => status'[active'] # "new"
    BY <1>5, <1>7 DEF IInv, PlaceInv
  <2>3. \A c \in Elements(queue)' : status'[c] \in {"validating", "error"}
    BY <1>5, <1>7, <1>8 DEF IInv, PlaceInv
  <2>4. \A c \in Calls : status'[c] = "validating" =>
                            c = active' \/ c \in Elements(queue)'
    BY <1>5, <1>8 DEF IInv, PlaceInv
  <2>5. \A f \in frames' : f.at # "report" =>
           /\ f.call \in Calls /\ status'[f.call] # "new"
           /\ f.call \notin Elements(queue)'
    BY <1>4, <1>5, <1>8, FrameCall DEF IInv
  <2> QED BY <1>8, <2>1, <2>2, <2>3, <2>4, <2>5 DEF PlaceInv
<1>11. GateInv'
  BY <1>2, <1>4, <1>5 DEF IInv, GateInv
<1>12. FinalInv'
  <2>1. \A c \in Calls : reports'[c] > 0 => status'[c] \in Terminal
    BY <1>2, <1>4, <1>5 DEF IInv, FinalInv, Terminal
  <2>2. ~(active' # None /\ status'[active'] \in {"success", "cancelled"})
    BY <1>1, <1>5, <1>7 DEF IInv, FinalInv
  <2> QED BY <1>5, <2>1, <2>2, ElementsEmpty DEF FinalInv
<1> QED BY <1>9, <1>10, <1>11, <1>12 DEF IInv

\* _processNextInQueue after an abort
LEMMA ProcessAbortedKeeps ==
    ASSUME TypeOK, IInv, ProcessAborted
    PROVE  IInv'
<1>1. /\ jobs # <<>> /\ Head(jobs).fn = "process" /\ active = None
      /\ jobs' # <<>> /\ UnwindsBehind(jobs') /\ Head(jobs').fn = "check"
  BY MeType, RunType, RunFields, ContinueJobs
     DEF ProcessAborted, Running, Job, IInv, RequestInv
<1>2. /\ status' = CancelQueued(status) /\ queue' = <<>>
      /\ completed' = completed \o queue
      /\ UNCHANGED <<active, requestQueue, promise, frames, prompt, granted, ran,
                     reports>>
  BY DEF ProcessAborted
<1>3. \A c \in Calls :
         /\ c \in Elements(queue) => /\ status'[c] \in {"error", "cancelled"}
                                     /\ status[c] \in {"validating", "error"}
         /\ c \notin Elements(queue) => status'[c] = status[c]
  BY <1>2, CancelQueuedAt
<1>4. \A c \in Calls : status'[c] = "new" <=> status[c] = "new" BY <1>3
<1>5. Elements(queue)' = {} BY <1>2, ElementsEmpty
<1>6. RequestInv' BY <1>1, <1>2, <1>4, RequestsKept
<1>7. PlaceInv'
  <2>1. IsInjective(queue') BY <1>2 DEF IsInjective
  <2>2. \A f \in frames' : f.at # "report" =>
           f.call \in Calls /\ status'[f.call] # "new"
    BY <1>2, <1>4, FrameCall DEF IInv
  <2>3. \A c \in Calls : status'[c] # "validating"
    BY <1>1, <1>3, SchedulerAssumption DEF IInv, PlaceInv
  <2> QED BY <1>1, <1>2, <1>5, <2>1, <2>2, <2>3 DEF PlaceInv
<1>8. GateInv' BY <1>2, <1>3 DEF IInv, GateInv
<1>9. FinalInv'
  <2>1. Elements(completed)' = Elements(completed) \cup Elements(queue)
    BY <1>2, QueueType, Joined
  <2>2. \A c \in Calls : status[c] \in Terminal => status'[c] \in Terminal
    BY <1>3 DEF Terminal
  <2>3. \A c \in Elements(queue) : status'[c] \in Terminal
    BY <1>3, QueueType DEF Terminal
  <2> QED BY <1>1, <1>2, <2>1, <2>2, <2>3, QueueType DEF IInv, FinalInv
<1> QED BY <1>6, <1>7, <1>8, <1>9 DEF IInv

\* _processNextInQueue
LEMMA ProcessNextKeeps ==
    ASSUME TypeOK, IInv, ProcessNext
    PROVE  IInv'
<1> DEFINE n == Head(queue)
<1>1. /\ jobs # <<>> /\ Head(jobs).fn = "process" /\ active = None
      /\ UnwindsBehind(jobs') /\ (jobs' # <<>> => Head(jobs').fn # "schedule")
  BY MeType, RunType, RunFields, ContinueJobs, TailJobs
     DEF ProcessNext, Running, Job, IInv, RequestInv
<1>2. /\ queue # <<>> /\ active' = n /\ queue' = Tail(queue)
      /\ UNCHANGED <<status, completed, requestQueue, promise, prompt, granted,
                     ran, reports>>
      /\ frames' = frames \/ Suspend(frames, "validate", n, Me.sig, Me.root, None, 0)
  BY DEF ProcessNext
<1>3. /\ n \in Calls /\ n \in Elements(queue) /\ IsInjective(queue')
      /\ Elements(queue) = Elements(queue') \cup {n} /\ n \notin Elements(queue')
  BY <1>2, QueueType, HeadTail DEF IInv, PlaceInv
<1>4. \A f \in frames' : f \in frames \/ f.call = n BY <1>2, SuspendAdds
<1> HIDE DEF n
<1>5. status[n] \in {"validating", "error"} BY <1>3 DEF IInv, PlaceInv
<1>6. RequestInv' BY <1>1, <1>2, RequestsKept
<1>7. PlaceInv'
  <2>1. \A c \in Calls : status'[c] = "validating" =>
           c = active' \/ c \in Elements(queue')
    BY <1>1, <1>2, <1>3, SchedulerAssumption DEF IInv, PlaceInv
  <2>2. \A f \in frames' : f.at # "report" =>
           /\ f.call \in Calls /\ status'[f.call] # "new"
           /\ f.call \notin Elements(queue')
    BY <1>2, <1>3, <1>4, <1>5, FrameCall DEF IInv
  <2> QED BY <1>2, <1>3, <1>5, <2>1, <2>2 DEF IInv, PlaceInv
<1>8. GateInv' BY <1>2 DEF IInv, GateInv
<1>9. FinalInv' BY <1>2, <1>5 DEF IInv, FinalInv
<1> QED BY <1>6, <1>7, <1>8, <1>9 DEF IInv

\* attemptExecutionOfScheduledCalls
LEMMA AttemptStartKeeps ==
    ASSUME TypeOK, IInv, AttemptStart
    PROVE  IInv'
<1>1. /\ jobs # <<>> /\ Head(jobs).fn = "attempt" /\ jobs' = Tail(jobs)
      /\ active # None /\ active \in Calls /\ status[active] = "scheduled"
      /\ UNCHANGED <<active, queue, completed, requestQueue, promise, prompt,
                     granted, reports>>
  BY DEF AttemptStart, CanStart, Running, TypeOK
<1>2. /\ status'[active] = "executing"
      /\ \A c \in Calls : c # active => status'[c] = status[c] /\ ran'[c] = ran[c]
  BY <1>1 DEF AttemptStart, TypeOK
<1>3. \A f \in frames' : f \in frames \/ f.call = active
  BY SuspendAdds DEF AttemptStart
<1>4. \A c \in Calls : status'[c] = "new" <=> status[c] = "new" BY <1>1, <1>2
<1>5. /\ UnwindsBehind(jobs')
      /\ jobs' # <<>> => Head(jobs').fn = "unwind"
  BY <1>1, TailJobs DEF IInv, RequestInv
<1>6. RequestInv' BY <1>1, <1>4, <1>5, RequestsKept
<1>7. active \notin Elements(queue) BY DEF IInv, PlaceInv
<1>8. PlaceInv'
  <2>1. \A f \in frames' : f.at # "report" =>
           /\ f.call \in Calls /\ status'[f.call] # "new"
           /\ f.call \notin Elements(queue)
    BY <1>1, <1>3, <1>4, <1>7, FrameCall DEF IInv
  <2>2. \A c \in Elements(queue) : status'[c] = status[c]
    BY <1>2, <1>7, QueueType
  <2>3. \A c \in Calls : status'[c] = "validating" => status[c] = "validating"
    BY <1>2
  <2> QED BY <1>1, <1>2, <2>1, <2>2, <2>3 DEF IInv, PlaceInv
<1>9. GateInv' BY <1>1, <1>2 DEF IInv, GateInv
<1>10. FinalInv'
  <2>1. \A c \in Calls : status[c] \in Terminal => status'[c] = status[c]
    BY <1>1, <1>2 DEF Terminal
  <2> QED BY <1>1, <1>2, <2>1, QueueType DEF IInv, FinalInv
<1> QED BY <1>6, <1>8, <1>9, <1>10 DEF IInv

\* cancelAll
LEMMA CancelAllKeeps ==
    ASSUME TypeOK, IInv, CancelAll
    PROVE  IInv'
<1>1. /\ jobs # <<>> /\ Head(jobs).fn = "cancelAll"
      /\ jobs' # <<>> /\ UnwindsBehind(jobs') /\ Head(jobs').fn = "check"
  BY MeType, RunType, RunFields, ContinueJobs
     DEF CancelAll, Running, Job, IInv, RequestInv
<1>2. /\ status' = CancelQueued(WithStatus(active, "cancelled")) /\ queue' = <<>>
      /\ completed' = completed \o queue
      /\ UNCHANGED <<active, requestQueue, promise, frames, prompt, granted, ran,
                     reports>>
  BY DEF CancelAll
<1>3. active \notin Elements(queue) BY DEF IInv, PlaceInv
<1>4. \A d \in Elements(queue) : WithStatus(active, "cancelled")[d] = status[d]
  BY <1>3, WithStatusAt, QueueType
<1>5. \A c \in Calls :
         /\ c \in Elements(queue) => /\ status'[c] \in {"error", "cancelled"}
                                     /\ status[c] \in {"validating", "error"}
         /\ c \notin Elements(queue) =>
               \/ status'[c] = status[c]
               \/ c = active /\ status[c] \notin Terminal /\ status'[c] = "cancelled"
  BY <1>2, <1>4, CancelQueuedAt, WithStatusAt
<1>6. active # None => active \in Calls /\ status[active] # "new"
  BY DEF IInv, PlaceInv, TypeOK
<1>7. \A c \in Calls : status'[c] = "new" <=> status[c] = "new"
  BY <1>5, <1>6, SchedulerAssumption
<1>8. Elements(queue)' = {} BY <1>2, ElementsEmpty
<1>9. RequestInv' BY <1>1, <1>2, <1>7, RequestsKept
<1>10. PlaceInv'
  <2>1. IsInjective(queue') BY <1>2 DEF IsInjective
  <2>2. \A f \in frames' : f.at # "report" =>
           f.call \in Calls /\ status'[f.call] # "new"
    BY <1>2, <1>7, FrameCall DEF IInv
  <2>3. \A c \in Calls : status'[c] = "validating" => c = active
    BY <1>5 DEF IInv, PlaceInv
  <2> QED BY <1>2, <1>6, <1>7, <1>8, <2>1, <2>2, <2>3 DEF PlaceInv
<1>11. GateInv' BY <1>2, <1>5 DEF IInv, GateInv
<1>12. FinalInv'
  <2>1. Elements(completed)' = Elements(completed) \cup Elements(queue)
    BY <1>2, QueueType, Joined
  <2>2. \A c \in Calls : status[c] \in Terminal => status'[c] \in Terminal
    BY <1>5 DEF Terminal
  <2>3. \A c \in Elements(queue) : status'[c] \in Terminal
    BY <1>5, QueueType DEF Terminal
  <2> QED BY <1>1, <1>2, <2>1, <2>2, <2>3, QueueType DEF IInv, FinalInv
<1> QED BY <1>9, <1>10, <1>11, <1>12 DEF IInv

\* The batch that is collected when no call is busy is final.
LEMMA BatchFinal ==
    ASSUME TypeOK, IInv, ~Busy
    PROVE  /\ \A c \in Elements(Batch) : c \in Calls /\ status[c] \in Terminal
           /\ Elements(WholeBatch) \subseteq Elements(Batch) \cup
                 (IF Me.sig \in aborted THEN Elements(queue) ELSE {})
<1>1. \A c \in Elements(Batch) : c \in Calls /\ status[c] \in Terminal
  <2>1. CASE active = None
    BY <2>1, QueueType DEF Batch, IInv, FinalInv
  <2>2. CASE active # None
    <3>1. active \in Calls /\ status[active] \in Terminal
      BY <2>2 DEF Busy, TypeOK
    <3>2. Elements(Batch) = Elements(completed) \cup {active}
      BY <2>2, <3>1, QueueType, Appended DEF Batch
    <3> QED BY <3>1, <3>2, QueueType DEF IInv, FinalInv
  <2> QED BY <2>1, <2>2
<1>2. Elements(WholeBatch) \subseteq Elements(Batch) \cup
         (IF Me.sig \in aborted THEN Elements(queue) ELSE {})
  BY BatchType, QueueType, Joined DEF WholeBatch
<1> QED BY <1>1, <1>2

\* checkAndNotifyCompletion: the next call
LEMMA CheckNextKeeps ==
    ASSUME TypeOK, IInv, CheckNext
    PROVE  IInv'
<1>1. /\ jobs # <<>> /\ Head(jobs).fn = "check"
      /\ jobs' # <<>> /\ UnwindsBehind(jobs') /\ Head(jobs').fn = "process"
  BY MeType, RunType, RunFields, ContinueJobs
     DEF CheckNext, Running, Job, IInv, RequestInv
<1>2. /\ ~Busy /\ completed' = Batch /\ active' = None
      /\ UNCHANGED <<status, queue, requestQueue, promise, frames, prompt, granted,
                     ran, reports>>
  BY DEF CheckNext
<1>3. RequestInv' BY <1>1, <1>2, RequestsKept
<1>4. PlaceInv'
  <2>1. active # None => status[active] \in Terminal BY <1>2 DEF Busy
  <2>2. None \notin Elements(queue) BY QueueType, SchedulerAssumption
  <2> QED BY <1>2, <2>1, <2>2 DEF IInv, PlaceInv, Terminal
<1>5. GateInv' BY <1>2 DEF IInv, GateInv
<1>6. FinalInv' BY <1>2, BatchFinal DEF IInv, FinalInv
<1> QED BY <1>3, <1>4, <1>5, <1>6 DEF IInv

\* checkAndNotifyCompletion: the report
LEMMA CheckReportKeeps ==
    ASSUME TypeOK, IInv, CheckReport
    PROVE  IInv'
<1>1. /\ jobs # <<>> /\ Head(jobs).fn = "check" /\ jobs' = Tail(jobs)
      /\ ~Busy /\ BatchOver
      /\ completed' = WholeBatch /\ active' = None /\ queue' = <<>>
      /\ status' = IF Me.sig \in aborted THEN CancelQueued(status) ELSE status
      /\ reports' = CountReports(WholeBatch)
      /\ UNCHANGED <<requestQueue, promise, prompt, granted, ran>>
  BY DEF CheckReport, Running
<1>2. /\ UnwindsBehind(jobs')
      /\ jobs' # <<>> => Head(jobs').fn = "unwind"
  BY <1>1, TailJobs DEF IInv, RequestInv
<1>3. \A f \in frames' : f \in frames \/ f.at = "report"
  BY SuspendAdds DEF CheckReport
<1>4. Me.sig \notin aborted => queue = <<>> BY <1>1 DEF BatchOver
<1>5. \A c \in Calls :
         /\ c \in Elements(queue) => /\ status'[c] \in {"error", "cancelled"}
                                     /\ status[c] \in {"validating", "error"}
         /\ c \notin Elements(queue) => status'[c] = status[c]
  BY <1>1, <1>4, CancelQueuedAt, ElementsEmpty
<1>6. \A c \in Calls : status'[c] = "new" <=> status[c] = "new" BY <1>5
<1>7. RequestInv' BY <1>1, <1>2, <1>6, RequestsKept
<1>8. Elements(queue)' = {} BY <1>1, ElementsEmpty
<1>9. PlaceInv'
  <2>1. IsInjective(queue') BY <1>1 DEF IsInjective
  <2>2. \A f \in frames' : f.at # "report" =>
           f.call \in Calls /\ status'[f.call] # "new"
    BY <1>3, <1>6, FrameCall DEF IInv
  <2>3. active # None => status[active] \in Terminal BY <1>1 DEF Busy
  <2>4. \A c \in Calls : status'[c] # "validating"
    BY <1>5, <2>3, SchedulerAssumption DEF IInv, PlaceInv, Terminal
  <2> QED BY <1>1, <1>8, <2>1, <2>2, <2>4 DEF PlaceInv
<1>10. GateInv' BY <1>1, <1>5 DEF IInv, GateInv
<1>11. FinalInv'
  <2>1. \A c \in Calls : status[c] \in Terminal => status'[c] \in Terminal
    BY <1>5 DEF Terminal
  <2>2. \A c \in Elements(queue) : status'[c] \in Terminal
    BY <1>5, QueueType DEF Terminal
  <2>3. \A c \in Elements(WholeBatch) : status'[c] \in Terminal
    BY <1>1, <2>1, <2>2, BatchFinal
  <2>4. \A c \in Calls : reports'[c] > 0 =>
                            reports[c] > 0 \/ c \in Elements(WholeBatch)
    BY <1>1, CountedOnlyInBatch, BatchType
  <2> QED BY <1>1, <2>1, <2>3, <2>4 DEF IInv, FinalInv
<1> QED BY <1>7, <1>9, <1>10, <1>11 DEF IInv

\* onAllToolCallsComplete resolved
LEMMA ReportDoneKeeps ==
    ASSUME TypeOK, IInv, NEW f \in frames, ReportDone(f)
    PROVE  IInv'
<1>1. /\ jobs = <<>> /\ frames' \subseteq frames /\ completed' = <<>>
      /\ StartNext(f)
      /\ UNCHANGED <<active, status, queue, prompt, granted, ran, reports>>
  BY DEF ReportDone, Idle
<1>2. \A q \in Requests : (Fresh(q)' <=> Fresh(q)) /\ ~Starting(q)
  BY <1>1 DEF Fresh, Starting
<1>3. RequestInv'
  <2>1. CASE requestQueue = <<>>
    <3>1. /\ jobs' = <<>> /\ requestQueue' = requestQueue
          /\ \A q \in Requests : promise'[q] \in {promise[q], "resolved"}
      BY <2>1 DEF StartNext, Return, Unwind, TypeOK, ReportDone
    <3>2. UnwindsBehind(jobs') /\ \A q \in Requests : ~Starting(q)'
      BY <3>1 DEF UnwindsBehind, Starting
    <3> QED BY <1>2, <3>1, <3>2 DEF IInv, RequestInv
  <2>2. CASE requestQueue # <<>>
    <3> DEFINE r == Head(requestQueue)
    <3>1. /\ jobs' = <<Run("schedule", r, r), Run("unwind", f.sig, f.root)>>
          /\ requestQueue' = Tail(requestQueue) /\ promise' = promise
      BY <1>1, <2>2 DEF StartNext
    <3>2. /\ r \in Requests /\ r \in Elements(requestQueue)
          /\ Elements(requestQueue)' \subseteq Elements(requestQueue)
          /\ r \notin Elements(requestQueue)' /\ IsInjective(requestQueue')
      BY <2>2, <3>1, QueueType, HeadTail DEF IInv, RequestInv
    <3> HIDE DEF r
    <3>3. /\ jobs' # <<>> /\ Head(jobs') = Run("schedule", r, r)
          /\ DOMAIN jobs' = 1..2 /\ jobs'[2] = Run("unwind", f.sig, f.root)
      BY <3>1
    <3>4. UnwindsBehind(jobs') BY <3>3, RunFields DEF UnwindsBehind
    <3>5. /\ Head(jobs').fn = "schedule" /\ Head(jobs').sig = r
          /\ Head(jobs').root = r
      BY <3>3, RunFields
    <3>6. \A q \in Requests : Starting(q)' <=> q = r
      BY <3>3, <3>5 DEF Starting
    <3> QED BY <1>2, <3>1, <3>2, <3>3, <3>4, <3>5, <3>6 DEF IInv, RequestInv
  <2> QED BY <2>1, <2>2
<1>4. PlaceInv' BY <1>1 DEF IInv, PlaceInv
<1>5. GateInv' BY <1>1 DEF IInv, GateInv
<1>6. FinalInv' BY <1>1, ElementsEmpty DEF IInv, FinalInv
<1> QED BY <1>3, <1>4, <1>5, <1>6 DEF IInv

-----------------------------------------------------------------------------
(***************************************************************************)
(* The theorems.                                                           *)
(***************************************************************************)
LEMMA InitInv == Init => TypeOK /\ IInv
<1> SUFFICES ASSUME Init PROVE TypeOK /\ IInv OBVIOUS
<1> USE SchedulerAssumption
<1>1. TypeOK
  <2>1. 0 \in 0..MaxArgs /\ 0 \in 0..2 BY DEF MaxArgs
  <2>2. status \in [Calls -> Statuses] BY DEF Init, Statuses
  <2>3. prompt \in [Calls -> [sig : Requests \cup {None}, pin : BOOLEAN]]
    BY DEF Init
  <2>4. /\ args \in [Calls -> 0..MaxArgs] /\ reports \in [Calls -> 0..2]
        /\ answered \in [Calls -> Nat]
    BY <2>1 DEF Init
  <2>5. /\ queue \in Seq(Calls) /\ completed \in Seq(Calls)
        /\ requestQueue \in Seq(Requests) /\ jobs \in Seq(Job)
        /\ ran \in [Calls -> Seq(0..MaxArgs)]
    BY DEF Init
  <2>6. /\ promise \in [Requests -> Promises]
        /\ trail \in [Calls -> SUBSET Events]
        /\ granted \in [Calls -> SUBSET (0..MaxArgs)]
        /\ active \in Calls \cup {None} /\ frames \in SUBSET Frame
        /\ aborted \in SUBSET Requests
        /\ {isFinalizingToolCalls, isScheduling, isCancelling} \subseteq BOOLEAN
    BY DEF Init, Promises
  <2> QED BY <2>2, <2>3, <2>4, <2>5, <2>6 DEF TypeOK
<1>2. /\ Elements(queue) = {} /\ Elements(requestQueue) = {}
      /\ Elements(completed) = {}
  BY ElementsEmpty DEF Init
<1>3. RequestInv
  BY <1>2
     DEF Init, RequestInv, UnwindsBehind, IsInjective, Starting, Fresh,
         Elements
<1>4. PlaceInv BY <1>2 DEF Init, PlaceInv, IsInjective
<1>5. GateInv BY DEF Init, GateInv
<1>6. FinalInv BY <1>2 DEF Init, FinalInv
<1> QED BY <1>1, <1>3, <1>4, <1>5, <1>6 DEF IInv

\* Every step keeps the inductive invariant.
LEMMA InvStep ==
    ASSUME TypeOK, IInv, [Next]_vars
    PROVE  TypeOK' /\ IInv'
<1>1. TypeOK' BY TypeStep
<1>2. CASE Method
  <2>1. CASE \/ ProcessNothing \/ AttemptNothing \/ CancelAllAgain \/ CheckBusy
             \/ CheckNothing \/ UnwindJob
    BY <1>1, <2>1, EndedSteps, EndedKeeps
  <2> QED
    BY <1>1, <1>2, <2>1, ScheduleThrowsKeeps, ScheduleBatchKeeps,
       ProcessAbortedKeeps,
       ProcessNextKeeps, AttemptStartKeeps, CancelAllKeeps, CheckNextKeeps,
       CheckReportKeeps
       DEF Method
<1>3. ASSUME NEW f \in frames, Resume(f) PROVE IInv'
  BY <1>1, <1>3, HandledSteps, HandledKeeps, ReportDoneKeeps
<1>4. ASSUME NEW c \in Calls, Answer(c) PROVE IInv'
  BY <1>1, <1>4, HandledSteps, HandledKeeps
<1>5. ASSUME NEW r \in Requests, Schedule(r) PROVE IInv'
  BY <1>5, ScheduleKeeps
<1>6. ASSUME NEW r \in Requests, Abort(r) PROVE IInv'
  BY <1>6, AbortSignalKeeps DEF Abort, CanCancel
<1>7. ASSUME NEW r \in Requests, UserCancel(r) PROVE IInv'
  BY <1>7, AbortSignalKeeps DEF UserCancel, CanCancel
<1>8. CASE UNCHANGED vars
  <2>1. RequestInv' BY <1>8 DEF vars, IInv, RequestInv, Starting, Fresh
  <2>2. PlaceInv' /\ GateInv' /\ FinalInv' BY <1>8, CallsKept DEF vars
  <2> QED BY <1>1, <2>1, <2>2 DEF IInv
<1> QED BY <1>1, <1>2, <1>3, <1>4, <1>5, <1>6, <1>7, <1>8 DEF Next

\* What a step does to a call whose status is final.
LEMMA FinalStep ==
    ASSUME TypeOK, IInv, [Next]_vars, NEW c \in Calls, status[c] \in Terminal
    PROVE  status'[c] = status[c] /\ ran'[c] = ran[c]
<1> USE SchedulerAssumption
<1>1. CASE Method
  <2>1. CASE \/ ProcessNothing \/ AttemptNothing \/ CancelAllAgain \/ CheckBusy
             \/ CheckNothing \/ UnwindJob
    BY <2>1, EndedSteps DEF Ended
  <2>2. CASE ScheduleThrows \/ ProcessNext \/ CheckNext
    BY <2>2 DEF ScheduleThrows, ProcessNext, CheckNext
  <2>3. CASE ScheduleBatch
    <3>1. \A d \in Elements(CallsOf[Me.sig]) : status[d] = "new"
      BY <2>3, MeType DEF ScheduleBatch, IInv, RequestInv, Starting, Fresh,
                          Running, Me, Job
    <3> QED BY <2>3, <3>1 DEF ScheduleBatch, Terminal
  <2>4. CASE ProcessAborted
    BY <2>4, CancelQueuedAt DEF ProcessAborted
  <2>5. CASE CheckReport
    BY <2>5, CancelQueuedAt DEF CheckReport
  <2>6. CASE CancelAll
    <3>1. \A d \in Elements(queue) :
             WithStatus(active, "cancelled")[d] = status[d]
      BY WithStatusAt, QueueType DEF IInv, PlaceInv
    <3>2. WithStatus(active, "cancelled")[c] = status[c] BY WithStatusAt
    <3> QED BY <2>6, <3>1, <3>2, CancelQueuedAt DEF CancelAll
  <2>7. CASE AttemptStart
    <3>1. c # active BY <2>7 DEF AttemptStart, CanStart, Terminal
    <3> QED BY <2>7, <3>1 DEF AttemptStart, TypeOK
  <2> QED BY <1>1, <2>1, <2>2, <2>3, <2>4, <2>5, <2>6, <2>7 DEF Method
<1>2. CASE Handled BY <1>2 DEF Handled, StatusMoves
<1>3. ASSUME NEW f \in frames, Resume(f)
      PROVE  status'[c] = status[c] /\ ran'[c] = ran[c]
  BY <1>2, <1>3, HandledSteps DEF ReportDone
<1>4. ASSUME NEW d \in Calls, Answer(d)
      PROVE  status'[c] = status[c] /\ ran'[c] = ran[c]
  BY <1>2, <1>4, HandledSteps
<1>5. ASSUME NEW r \in Requests, Schedule(r) \/ Abort(r) \/ UserCancel(r)
      PROVE  status'[c] = status[c] /\ ran'[c] = ran[c]
  BY <1>5 DEF Schedule, Abort, UserCancel
<1>6. CASE UNCHANGED vars BY <1>6 DEF vars
<1> QED BY <1>1, <1>3, <1>4, <1>5, <1>6 DEF Next

\* TypeOK and the inductive invariant hold in every reachable state.
THEOREM Invariant == Spec => [](TypeOK /\ IInv)
<1>1. (TypeOK /\ IInv) /\ [Next]_vars => (TypeOK /\ IInv)' BY InvStep
<1> QED BY InitInv, <1>1, PTL DEF Spec

\* Every variable stays in its domain.
THEOREM TypeCorrect == Spec => []TypeOK
BY Invariant, PTL

\* No call runs unless its check, or an answer that passed onConfirm, allowed it.
THEOREM Gate == Spec => []ApprovalGate
<1>1. TypeOK /\ IInv => ApprovalGate BY DEF IInv, GateInv, ApprovalGate
<1> QED BY Invariant, <1>1, PTL

\* A final status stays, and a call that has one is not started.
THEOREM Final == Spec => FinalIsFinal
<1>1. TypeOK /\ IInv /\ [Next]_vars =>
        [\A c \in Calls :
            status[c] \in Terminal \/ reports[c] > 0 =>
                status'[c] = status[c] /\ ran'[c] = ran[c]]_vars
  BY FinalStep DEF IInv, FinalInv
<1> QED BY Invariant, <1>1, PTL DEF Spec, FinalIsFinal

\* A request that is rejected leaves nothing behind.
THEOREM Untouched == Spec => []RejectedUntouched
<1>1. TypeOK /\ IInv => RejectedUntouched
  BY DEF IInv, RequestInv, Fresh, RejectedUntouched
<1> QED BY Invariant, <1>1, PTL
=============================================================================
