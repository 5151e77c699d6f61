---------------------------- MODULE MCHostTools ----------------------------
(***************************************************************************)
(* Four independent parts of the host in one run: the confirmation of tool  *)
(* invocations, the REPL sessions, the process manager and the audit ledger. *)
(* They share no state, so a behaviour is one of a single part.              *)
(***************************************************************************)
EXTENDS ConfirmationBus, ReplSessions, ProcessSessions, AuditLedger

VARIABLE part   \* "awaited": the ledger, by callers that await one append() after another

hostVars == <<part, busVars, replVars, processVars, vars>>

Awaiting == INSTANCE AuditLedger WITH Serialized <- TRUE

\* "ls", "rm", "rm; ls", a text that does not parse, and the file tools.
MCCommands == {"ls", "rm", "both", "bad", "files"}
MCTool == [c \in MCCommands |-> IF c = "files" THEN "files" ELSE "shell"]
MCParts == [ls |-> <<"ls">>, rm |-> <<"rm">>, both |-> <<"rm", "ls">>, bad |-> <<>>,
            files |-> <<>>]
\* As above, but "both" is a command with a substitution, "echo $(ls)", which is one
\* of its own parts.
MCNestedParts == [MCParts EXCEPT !["both"] = <<"both", "ls">>]
MCExtends == [ls |-> {"ls"}, rm |-> {"rm", "both"}, both |-> {"both"}, bad |-> {"bad"},
              files |-> {"files"}]
MCCheckers == <<{"rm", "files"}>>

Rule(covers, decision, priority) ==
    [covers |-> covers, decision |-> decision, priority |-> priority]
Interactive(rules, security, authority) ==
    [rules |-> rules, nonInteractive |-> FALSE, interactive |-> TRUE, yolo |-> FALSE,
     security |-> security, authority |-> authority]
Shell == MCCommands \ {"files"}
DefaultPolicy == Interactive(<<>>, "balanced", "escalate-only")

\* Nothing configured; rm asked for and ls allowed; an administrator's ban on rm over
\* a permissive user, in an engine told that there is no user; everything allowed by the
\* YOLO mode but what an administrator wants asked, without a user.
MCPolicies ==
    {DefaultPolicy,
     Interactive(<<Rule({"rm"}, "ASK_USER", 2960), Rule({"ls", "both"}, "ALLOW", 2100)>>,
                 "minimal", "governing"),
     [Interactive(<<Rule({"rm"}, "DENY", 3100), Rule(Shell, "ALLOW", 2100)>>, "strict",
                  "advisory")
        EXCEPT !.nonInteractive = TRUE, !.interactive = FALSE],
     [Interactive(<<Rule({"rm"}, "ASK_USER", 3100), Rule(MCCommands, "ALLOW", 1999)>>,
                  "balanced", "escalate-only")
        EXCEPT !.interactive = FALSE, !.yolo = TRUE]}

MCAssessments == {None, [risk |-> "critical", confirm |-> FALSE],
                  [risk |-> "critical", confirm |-> TRUE],
                  [risk |-> "normal", confirm |-> TRUE]}

\* Actions: a listing, a chain for a remote user, a text that does not parse; deletes
\* of the user or the model, as root, and of what lies outside; a download to a device;
\* the file tools on paths of every kind.
ShellAction(roots, wide, outside, from) ==
    ShellProfile([roots |-> roots, words |-> {}, redirects |-> FALSE, device |-> FALSE,
                  git |-> "status", wide |-> wide, outside |-> outside, target |-> "other",
                  parses |-> roots # <<>>, provenance |-> {from}])
ToolAction(tool, path, from) ==
    ToolProfile([tool |-> tool, paths |-> {path}, target |-> None, named |-> TRUE,
                 long |-> FALSE, provenance |-> {from}])
MCActionsOf ==
    [ls |-> {ShellAction(<<"ls">>, FALSE, FALSE, "local_user")},
     rm |-> {ShellAction(<<"rm">>, TRUE, FALSE, "local_user"),
             ShellAction(<<"sudo", "rm">>, FALSE, FALSE, "local_user"),
             ShellAction(<<"rm">>, FALSE, TRUE, "tool_output"),
             ShellAction(<<"dd">>, FALSE, FALSE, "model_suggestion"),
             ShellAction(<<"curl", "dd">>, FALSE, FALSE, "local_user")},
     both |-> {ShellAction(<<"rm", "ls">>, FALSE, FALSE, "web_remote_user")},
     bad |-> {ShellAction(<<>>, FALSE, FALSE, "local_user")},
     files |-> {ToolAction("edit", "tracked", "local_user"),
                ToolAction("delete", "untracked", "tool_output"),
                ToolAction("delete", "workspace", "model_suggestion"),
                ToolAction("delete", "addedroot", "local_user"),
                ToolAction("edit", "sensitive", "local_user"),
                ToolAction("move", "added", "local_user"),
                ToolAction("move", "critical", "local_user")}]

HostInit ==
    /\ part \in {"approval", "repl", "process", "ledger", "awaited"}
    /\ BusInit /\ ReplInit /\ ProcessInit /\ Init
    /\ part # "approval" => /\ policy = DefaultPolicy
                            /\ command = [i \in Invocations |-> "ls"]
    /\ part # "process" => serial

HostNext ==
    /\ \/ part = "approval" /\ BusNext /\ UNCHANGED <<replVars, processVars, vars>>
       \/ part = "repl" /\ ReplNext /\ UNCHANGED <<busVars, processVars, vars>>
       \/ part = "process" /\ ProcessNext /\ UNCHANGED <<busVars, replVars, vars>>
       \/ /\ \/ part = "ledger" /\ Next
             \/ part = "awaited" /\ Awaiting!Next
          /\ UNCHANGED <<busVars, replVars, processVars>>
    /\ UNCHANGED part

HostSpec ==
    /\ HostInit /\ [][HostNext]_hostVars
    /\ \A i \in Invocations : /\ WF_busVars(part = "approval" /\ Continues(i))
                             /\ WF_busVars(part = "approval" /\ TimerFires(i))
    /\ \A a \in Appends : WF_vars(part \in {"ledger", "awaited"} /\ Step(a))

\* The variables of the four parts stay in their domains, and the policy engine's
\* rules sorted by priority whatever is added (policy-engine.ts 275-279).
HostTypeOK == BusTypeOK /\ ReplTypeOK /\ ProcessTypeOK /\ TypeOK

\* Callers that await one append() before the next never make "/audit verify"
\* report a broken chain in a file nobody but the ledger wrote (ledger.ts 70-95).
NoFalseTamperAwaited == part = "awaited" => NoFalseTamper
=============================================================================
