--------------------------- MODULE MCToolScheduler ---------------------------
(* ToolScheduler for TLC: a request with two calls and one with a single call. *)
EXTENDS ToolSchedulerInv, TLC

CONSTANTS r1, r2, r3, call1, call2, call3

TwoAndOne == (r1 :> <<call1, call2>>) @@ (r2 :> <<call3>>)
OneEach == (r1 :> <<call1>>) @@ (r2 :> <<call2>>) @@ (r3 :> <<call3>>)

\* With one call in each request the requests can be exchanged, together with their calls.
CallOf(r) == OneEach[r][1]
Exchanges ==
  {p @@ [c \in Calls |-> CallOf(p[CHOOSE r \in Requests : CallOf(r) = c])] :
     p \in Permutations(Requests)}
=============================================================================
