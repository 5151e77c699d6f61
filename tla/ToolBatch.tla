------------------------------ MODULE ToolBatch ------------------------------
(***************************************************************************)
(* What the tool scheduler promises its client, without queues, prompts or *)
(* promises: requests are accepted, the calls of a request run one at a    *)
(* time and in order, or end without running, and when all have ended the  *)
(* request is reported, once and as a whole.                               *)
(***************************************************************************)
EXTENDS Naturals, Sequences

CONSTANTS Requests, Calls, CallsOf

VARIABLE phase    \* of each call

Phases == {"idle", "accepted", "running", "ended", "reported"}

CallsIn(r) == {CallsOf[r][i] : i \in DOMAIN CallsOf[r]}

Init == phase = [c \in Calls |-> "idle"]

\* A request is taken on; its calls wait for their turn.
Accept(r) ==
    /\ \A c \in CallsIn(r) : phase[c] = "idle"
    /\ phase' = [c \in Calls |-> IF c \in CallsIn(r) THEN "accepted"
                                 ELSE phase[c]]

\* A call starts when no call runs and the calls before it have ended.
Begin(r, i) ==
    /\ phase[CallsOf[r][i]] = "accepted"
    /\ \A c \in Calls : phase[c] # "running"
    /\ \A j \in 1..(i - 1) : phase[CallsOf[r][j]] = "ended"
    /\ phase' = [phase EXCEPT ![CallsOf[r][i]] = "running"]

\* A call ends, by its own result or without having run.
Finish(c) ==
    /\ phase[c] \in {"accepted", "running"}
    /\ phase' = [phase EXCEPT ![c] = "ended"]

\* All calls not running any more, the request is reported.  Calls that an abort
\* drops before their turn end in this very step.
Report(r) ==
    /\ \A c \in CallsIn(r) : phase[c] \in {"accepted", "ended"}
    /\ phase' = [c \in Calls |-> IF c \in CallsIn(r) THEN "reported"
                                 ELSE phase[c]]

\* Calls that do not run end together: those that cannot be built when the request
\* is taken on, and those that a cancellation drops.
Drop(r, calls) ==
    /\ \A c \in calls : phase[c] \in {"accepted", "ended"}
    /\ phase' = [c \in Calls |-> IF c \in calls THEN "ended" ELSE phase[c]]

Next ==
    \/ \E r \in Requests :
          \/ Accept(r) \/ Report(r)
          \/ \E calls \in SUBSET CallsIn(r) : Drop(r, calls)
          \/ \E i \in DOMAIN CallsOf[r] : Begin(r, i)
    \/ \E c \in Calls : Finish(c)

Spec == Init /\ [][Next]_phase
=============================================================================
