-------------------------- MODULE ConfirmationBus --------------------------
(***************************************************************************)
(* How a tool invocation is confirmed: shouldConfirmExecute asks the policy *)
(* engine over the confirmation bus and waits for the answer, an abort or a *)
(* timer; the engine checks a shell command part by part, with parsers and  *)
(* safety checkers it awaits; when the user must be asked, the approval     *)
(* ladder decides whether and how.  Answers "for this session" add rules.   *)
(*                                                                         *)
(* JavaScript runs promise continuations (Match, Parse, NextPart, Decide)   *)
(* before the next timer, I/O or user event: those wait for Quiet.          *)
(***************************************************************************)
EXTENDS ApprovalLadder, SequencesExt

CONSTANTS
    Invocations,    \* tool invocations being validated
    Commands,       \* their argument values: shell commands, other tools' calls
    Tool,           \* [Commands -> tool names]
    Parts,          \* [Commands -> sequences]: splitCommands of a shell command
    Extends,        \* [Commands -> sets]: the commands a saved prefix matches
    Checkers,       \* sequence of the sets of commands a safety checker covers
    Policies,       \* what may be configured
    ActionsOf,      \* [Commands -> sets of action profiles]
    Assessments     \* what the brain may say of a shell command, None for nothing

Decisions == {"ALLOW", "DENY", "ASK_USER"}
Rules == [covers : SUBSET Commands, decision : Decisions, priority : Nat]
Authorities == {"advisory", "escalate-only", "governing"}
Sorted(rules) == \A j, k \in DOMAIN rules : j <= k => rules[j].priority >= rules[k].priority
PolicySettings ==
    [rules : {rules \in Seq(Rules) : Sorted(rules)}, nonInteractive : BOOLEAN,
     interactive : BOOLEAN, yolo : BOOLEAN, security : Securities,
     authority : Authorities]

ASSUME BusAssumption ==
    /\ Parts \in [Commands -> Seq(Commands)]
    /\ Extends \in [Commands -> SUBSET Commands]
    /\ Checkers \in Seq(SUBSET Commands)
    /\ \A q \in Policies : q \in PolicySettings
    /\ \A c \in Commands : ActionsOf[c] \subseteq ActionProfile
    /\ None \notin Decisions

Phases == {"new", "waiting", "allowed", "denied", "asked", "free", "prompt",
           "approved", "refused"}
Pcs == {"match", "parse", "parts", "check", "checker", "spin"}

VARIABLES
    policy,     \* the engine's rules, by falling priority, its own nonInteractive
                \* option, whether there is a user, the YOLO mode, and the settings
    phase,      \* [Invocations -> Phases]
    command,    \* [Invocations -> Commands]: what the invocation is to do
    stack,      \* [Invocations -> Seq]: the nested check calls of its request
    verdict,    \* [Invocations -> what the engine decided, None before]
    vetoed,     \* [Invocations -> whether a safety checker did not allow it]
    parsers,    \* whether the shell parsers are loaded
    review      \* the action the last step reviewed and its level, None otherwise

busVars == <<policy, phase, command, stack, verdict, vetoed, parsers, review>>

Frame == [command : Commands, pc : Pcs, next : Nat, decision : Decisions]
IsShell(c) == Tool[c] = "shell"
Top(i) == stack[i][Len(stack[i])]
At(i, pc) == stack[i] # <<>> /\ Top(i).pc = pc

\* No promise continuation is ready to run.
Quiet == \A i \in Invocations :
            \/ stack[i] = <<>> \/ At(i, "checker") \/ (At(i, "parse") /\ ~parsers)

------------------------------------------------------------------------------
(* The policy engine.                                                         *)

applyNonInteractiveMode(d) ==
    IF policy.nonInteractive /\ d = "ASK_USER" THEN "DENY" ELSE d

\* The first rule, in the order kept, that covers the command; ASK_USER without.
RuleFor(rules, c) ==
    LET k == {j \in DOMAIN rules : c \in rules[j].covers}
    IN IF k = {} THEN None ELSE rules[Min(k)]

\* A bug: a rule the user adds goes before all others.
BugAddRule(rules, rule) == <<rule>> \o rules

\* addRule: appended, then the rules are sorted by falling priority.  They were
\* sorted before and the sort is stable: the rule goes before the first lower one.
addRule(rules, rule) ==
    LET lower == {j \in DOMAIN rules : rules[j].priority < rule.priority}
    IN IF lower = {} THEN Append(rules, rule) ELSE InsertAt(rules, Min(lower), rule)

\* What "always" adds: for the session a rule for the whole tool, saved one for
\* the commands that begin as this one does.
AlwaysRule(c, outcome) ==
    [covers   |-> IF outcome = "save" /\ IsShell(c) THEN Extends[c]
                  ELSE {d \in Commands : Tool[d] = Tool[c]},
     decision |-> "ALLOW", priority |-> 2950]

CallOf(c) == [command |-> c, pc |-> "match", next |-> 1, decision |-> "ALLOW"]
SetTop(i, frame) == [stack EXCEPT ![i][Len(stack[i])] = frame]

\* The response on the bus: only an invocation still waiting listens.
Respond(i, d) ==
    phase' = [phase EXCEPT ![i] =
                IF @ # "waiting" THEN @
                ELSE CASE d = "ALLOW" -> "allowed" [] d = "DENY" -> "denied"
                       [] d = "ASK_USER" -> "asked"]

\* A bug: the last part decides.
BugCombine(before, d) == d

\* How the decision on a part changes the decision on the whole.
Combine(before, d) == IF d = "ALLOW" THEN before ELSE d

\* A bug: the next part is not taken.
BugPopped(i, d) ==
    LET rest  == Front(stack[i])
        outer == Last(rest)
    IN [stack EXCEPT ![i] =
          Append(Front(rest), [outer EXCEPT !.decision = Combine(@, d)])]

\* An inner check returns to the loop over the parts of the outer one.
Popped(i, d) ==
    LET rest  == Front(stack[i])
        outer == Last(rest)
    IN [stack EXCEPT ![i] =
          Append(Front(rest), [outer EXCEPT !.decision = Combine(@, d),
                                            !.next = @ + 1])]

\* check returns d; the outermost one's result is published.
Return(i, d) ==
    /\ IF Len(stack[i]) > 1
       THEN stack' = Popped(i, d) /\ UNCHANGED <<phase, verdict>>
       ELSE /\ stack' = [stack EXCEPT ![i] = <<>>]
            /\ verdict' = [verdict EXCEPT ![i] = d]
            /\ Respond(i, d)
    /\ UNCHANGED <<policy, command, parsers>>

Stay == UNCHANGED <<policy, phase, command, verdict, vetoed, parsers>>

Match(i) ==
    /\ At(i, "match")
    /\ LET c == Top(i).command
           rule == RuleFor(policy.rules, c)
           d == IF rule = None THEN "ASK_USER" ELSE rule.decision
       IN stack' = SetTop(i, IF d = "ALLOW" /\ IsShell(c)
                             THEN [Top(i) EXCEPT !.pc = "parse"]
                             ELSE [Top(i) EXCEPT !.pc = "check",
                                       !.decision = applyNonInteractiveMode(d)])
    /\ Stay

\* No parts: the text does not parse; one: the rule's ALLOW stands.
Parse(i) ==
    /\ At(i, "parse") /\ parsers
    /\ LET parts == Parts[Top(i).command]
       IN stack' = SetTop(i,
             CASE Len(parts) = 0 -> [Top(i) EXCEPT !.pc = "check",
                                       !.decision = applyNonInteractiveMode("ASK_USER")]
               [] Len(parts) = 1 -> [Top(i) EXCEPT !.pc = "check"]
               [] Len(parts) > 1 -> [Top(i) EXCEPT !.pc = "parts"])
    /\ Stay

\* The loop over the parts: a nested check for the next one, until one is denied.
\* A part that is already being checked is checked without end ("spin").
NextPart(i) ==
    /\ At(i, "parts")
    /\ LET parts == Parts[Top(i).command]
           part  == parts[Top(i).next]
       IN stack' = IF Top(i).decision = "DENY" \/ Top(i).next > Len(parts)
                   THEN SetTop(i, [Top(i) EXCEPT !.pc = "check", !.next = 1])
                   ELSE IF \E k \in DOMAIN stack[i] : stack[i][k].command = part
                   THEN SetTop(i, [Top(i) EXCEPT !.pc = "spin"])
                   ELSE [stack EXCEPT ![i] = Append(@, CallOf(part))]
    /\ Stay

\* The checkers, unless the rules deny: the next one that covers the command is
\* started; after the last, check returns.
Decide(i) ==
    /\ At(i, "check")
    /\ LET f == Top(i)
           left == {k \in f.next..Len(Checkers) : f.command \in Checkers[k]}
       IN IF f.decision = "DENY" \/ left = {}
          THEN Return(i, applyNonInteractiveMode(f.decision)) /\ UNCHANGED vetoed
          ELSE /\ stack' = SetTop(i, [f EXCEPT !.pc = "checker",
                                        !.next = Min(left)])
               /\ Stay

\* A checker's answer; one that fails or takes longer than its timer denies.
CheckerEnds(i) ==
    /\ At(i, "checker") /\ Quiet
    /\ \E d \in Decisions :
          /\ vetoed' = [vetoed EXCEPT ![i] = @ \/ d # "ALLOW"]
          /\ IF d = "DENY" THEN Return(i, "DENY")
             ELSE /\ stack' = SetTop(i, [Top(i) EXCEPT !.pc = "check",
                                          !.next = @ + 1,
                                          !.decision = IF d = "ASK_USER" THEN d ELSE @])
                  /\ UNCHANGED <<policy, phase, command, verdict, parsers>>

ParsersReady ==
    /\ Quiet /\ ~parsers
    /\ \E i \in Invocations : At(i, "parse")
    /\ parsers' = TRUE
    /\ UNCHANGED <<policy, phase, command, stack, verdict, vetoed>>

------------------------------------------------------------------------------
(* The invocation: shouldConfirmExecute and getMessageBusDecision.            *)

Request(i) ==
    /\ phase[i] = "new"
    /\ \/ /\ phase' = [phase EXCEPT ![i] = "denied"]    \* the signal is aborted
          /\ UNCHANGED stack
       \/ /\ phase' = [phase EXCEPT ![i] = "waiting"]
          /\ stack' = [stack EXCEPT ![i] = <<CallOf(command[i])>>]
    /\ UNCHANGED <<policy, command, verdict, vetoed, parsers>>

Abort(i) ==
    /\ Quiet /\ phase[i] = "waiting"
    /\ phase' = [phase EXCEPT ![i] = "denied"]
    /\ UNCHANGED <<policy, command, stack, verdict, vetoed, parsers>>

\* Thirty seconds without a response: the user is asked.
Timeout(i) ==
    /\ Quiet /\ phase[i] = "waiting"
    /\ phase' = [phase EXCEPT ![i] = "asked"]
    /\ UNCHANGED <<policy, command, stack, verdict, vetoed, parsers>>

\* The level of an action; the brain is asked about shell commands, unless its
\* authority is only advisory.
ReviewLevels(c, p) ==
    LET level == computeMinimumReviewLevel(p, policy.security)
    IN IF ~IsShell(c) \/ policy.authority = "advisory" THEN {level}
       ELSE {applyBrainAuthority(level, policy.authority, brain) : brain \in Assessments}

\* getConfirmationDetails, and what the scheduler does with its answer: level A runs; so
\* does level B, which has no PIN, in YOLO mode and when --allowed-tools names the call
\* (isAutoApproved); without a user the rest is refused.  Without a user, and not in YOLO
\* mode, a shell command is not reviewed: it runs when --allowed-tools names it.
Review(i) ==
    LET c == command[i]
        scripted == ~policy.interactive /\ ~policy.yolo /\ IsShell(c)
        Goto(p) == phase' = [phase EXCEPT ![i] = p]
    IN /\ phase[i] = "asked"
       /\ \/ /\ scripted
             /\ Goto("free") \/ Goto("refused")
             /\ review' = None
          \/ /\ ~scripted
             /\ \E p \in ActionsOf[c] : \E level \in ReviewLevels(c, p) :
                   /\ review' = [action |-> p, level |-> level]
                   /\ \E auto \in {TRUE, policy.yolo} :
                         Goto(IF level = "A" \/ (level = "B" /\ auto) THEN "free"
                              ELSE IF policy.interactive THEN "prompt" ELSE "refused")
       /\ UNCHANGED <<policy, command, stack, verdict, vetoed, parsers>>

\* The user's choice; publishPolicyUpdate reaches the policy updater at once.
Answer(i) ==
    /\ Quiet /\ phase[i] = "prompt"
    /\ \E outcome \in {"once", "session", "save", "cancel"} :
          /\ phase' = [phase EXCEPT ![i] =
                         IF outcome = "cancel" THEN "refused" ELSE "approved"]
          /\ IF outcome \in {"session", "save"}
             THEN policy' = [policy EXCEPT !.rules =
                               addRule(@, AlwaysRule(command[i], outcome))]
             ELSE UNCHANGED policy
    /\ UNCHANGED <<command, stack, verdict, vetoed, parsers>>

Continuation(i) == Match(i) \/ Parse(i) \/ NextPart(i) \/ Decide(i)
Event(i) == CheckerEnds(i) \/ Timeout(i)

BusInit ==
    /\ policy \in Policies
    /\ phase = [i \in Invocations |-> "new"]
    /\ command \in [Invocations -> Commands]
    /\ stack = [i \in Invocations |-> <<>>]
    /\ verdict = [i \in Invocations |-> None]
    /\ vetoed = [i \in Invocations |-> FALSE]
    /\ parsers = FALSE /\ review = None

BusNext ==
    \/ \E i \in Invocations :
          \/ /\ \/ Continuation(i) \/ Event(i) \/ Request(i) \/ Abort(i) \/ Answer(i)
             /\ review' = None
          \/ Review(i)
    \/ ParsersReady /\ review' = None

BusSpec == BusInit /\ [][BusNext]_busVars

\* What Node's scheduler owes: continuations run and the timer fires.  Nobody has to
\* answer, and neither a checker nor the loading of the parsers has to end.
Continues(i)  == Continuation(i) /\ review' = None
TimerFires(i) == Timeout(i) /\ review' = None

------------------------------------------------------------------------------
(* Properties.                                                                *)

BusTypeOK ==
    /\ policy \in PolicySettings
    /\ phase \in [Invocations -> Phases]
    /\ command \in [Invocations -> Commands]
    /\ stack \in [Invocations -> Seq(Frame)]
    /\ verdict \in [Invocations -> Decisions \cup {None}]
    /\ vetoed \in [Invocations -> BOOLEAN]
    /\ parsers \in BOOLEAN
    /\ review # None => review.action \in ActionProfile /\ review.level \in Levels

\* Some ALLOW rule covers the command and none of a higher priority says otherwise.
RuleAllows(c) ==
    \E j \in DOMAIN policy.rules :
       /\ c \in policy.rules[j].covers /\ policy.rules[j].decision = "ALLOW"
       /\ \A k \in DOMAIN policy.rules :
             c \in policy.rules[k].covers /\ policy.rules[k].decision # "ALLOW"
             => policy.rules[k].priority <= policy.rules[j].priority

\* Every command of the set may run, and so may each part of a compound one.
Justified(commands) ==
    \A c \in commands :
       /\ RuleAllows(c)
       /\ IsShell(c) => /\ Parts[c] # <<>>
                        /\ Len(Parts[c]) > 1 => Range(Parts[c]) \subseteq commands

\* An invocation that runs unasked may do so by the rules, down to the last part of a
\* compound command, and no checker objected, whatever rules are added and whatever
\* times out while it is checked (policy-engine.ts 165-206, 233-263).
AllowJustified ==
    \A i \in Invocations : phase[i] = "allowed" =>
       /\ ~vetoed[i]
       /\ \E commands \in SUBSET Commands : command[i] \in commands /\ Justified(commands)

\* Every invocation that waits for its decision gets one, in thirty seconds at the
\* latest (tools.ts 262-266): a request is made once, so from any time on there comes
\* one when none waits.
EveryInvocationDecided ==
    (\E i \in Invocations : phase[i] = "waiting")
      ~> (\A i \in Invocations : phase[i] # "waiting")

\* Whatever is reviewed, the level is not below the floors that the code keeps in every
\* profile (safetyInvariants.ts 48-73, computeMinimumReviewLevel.ts 34-151).
FloorsHold == review # None => Floors(review.action, policy.security, review.level)

\* An unbounded delete needs a PIN whatever the profile, as the comment above the rule
\* and the documents say (computeMinimumReviewLevel.ts 43, sandbox-governance-
\* integration.md 77): the code does not keep this.
UnboundedNeedsPin == review # None => PinWhenUnbounded(review.action, review.level)

\* Whatever is reviewed, a stricter security profile would not ask for less.
StricterAsksMore == review # None => Stricter(review.action)

=============================================================================
