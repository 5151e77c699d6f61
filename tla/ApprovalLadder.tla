--------------------------- MODULE ApprovalLadder ---------------------------
(***************************************************************************)
(* safety/approval-ladder: the review level (A runs freely, B needs a      *)
(* click, C a click and a PIN) of one tool action.  A shell command or a    *)
(* tool call is turned into an action profile, the profile is classified on *)
(* three axes, and the axes and the user's security profile give a risk.    *)
(* Paths and network targets are the kinds the classifiers tell apart.      *)
(***************************************************************************)
EXTENDS Integers, Sequences, Functions

CONSTANT None

ASSUME LadderAssumption == None \notin {"pin", "confirm", "A", "B", "C"}

Levels    == {"A", "B", "C"}
Rank      == [A |-> 0, B |-> 1, C |-> 2]
Securities == {"strict", "balanced", "minimal"}
Outcomes  == {"reversible", "soft-irreversible", "irreversible"}
Intentions == {"explicit", "task-derived", "autonomous"}
Domains   == {"workspace", "localhost", "trusted", "untrusted", "system"}
OperationClass == {"read", "write", "delete", "privileged", "network", "process",
                   "ui", "device", "unknown"}
Provenance == {"local_user", "web_remote_user", "model_suggestion",
               "workspace_file", "web_content", "tool_output", "unknown"}
Targets   == {None, "localhost", "trusted", "other"}

\* Kinds of path.  In the target directory: tracked by git, not tracked, not tracked and
\* critical, the directory itself; in a directory added to the workspace, and such a
\* directory itself; elsewhere: critical, the file system's root, the user's home, others.
PathKinds == {"tracked", "untracked", "sensitive", "workspace", "added", "addedroot",
              "critical", "root", "home", "outside"}
InTargetDir == {"tracked", "untracked", "sensitive", "workspace"}
InWorkspace == InTargetDir \cup {"added", "addedroot"}
Critical    == {"sensitive", "critical", "root"}
Unbounded   == {"workspace", "addedroot", "root", "home"}

ActionProfile ==
    [operations : SUBSET OperationClass, paths : SUBSET PathKinds,
     privileged : BOOLEAN, commits : BOOLEAN, outside : BOOLEAN,
     unbounded : BOOLEAN, target : Targets, clear : BOOLEAN,
     provenance : SUBSET Provenance]

------------------------------------------------------------------------------
(* Building the profile of a shell command: its root commands, the mapped    *)
(* words its text mentions, and what the text's patterns say.                 *)

WordOperations ==
    [ls |-> {"read"}, touch |-> {"write"}, rm |-> {"delete"},
     sudo |-> {"privileged"}, curl |-> {"network"}, ping |-> {"network", "read"},
     kill |-> {"process"}, dd |-> {"device"}, npm |-> {"write", "network"},
     git |-> {"read"}, other |-> {}]

GitOperations(sub) ==
    (IF sub = "status" THEN {} ELSE {"write"})
      \cup (IF sub = "push" THEN {"network"} ELSE {})
      \cup (IF sub = "clean" THEN {"delete"} ELSE {})

ShellOperations(c) ==
    LET words == Range(c.roots) \cup c.words
        all   == UNION {WordOperations[w] : w \in words}
                   \cup (IF c.redirects THEN {"write"} ELSE {})
                   \cup (IF c.device THEN {"device"} ELSE {})
                   \cup (IF "git" \in Range(c.roots) THEN GitOperations(c.git) ELSE {})
    IN IF ~c.parses \/ c.roots = <<>> \/ all = {} THEN {"unknown"} ELSE all

\* The paths of a shell command are not extracted, so "paths" stays empty.
ShellProfile(c) ==
    LET operations == ShellOperations(c)
        roots == IF c.parses THEN c.roots ELSE <<>>
    IN [operations |-> operations, paths |-> {},
        privileged |-> "sudo" \in Range(roots),
        commits |-> roots # <<>> /\ roots[1] = "git" /\ c.git = "commit",
        outside |-> c.outside,
        unbounded |-> c.wide /\ "delete" \in operations,
        target |-> IF "network" \in operations THEN c.target ELSE None,
        clear |-> c.parses, provenance |-> c.provenance]

(* ... and of a call of another tool.                                         *)
ToolOperations ==
    [edit |-> {"write"}, delete |-> {"delete"}, move |-> {"write", "delete"},
     copy |-> {"write"}, mkdir |-> {"write"}, list_tree |-> {"read"},
     process_read |-> {"read"}, process |-> {"process"}, fetch |-> {"network"},
     search |-> {"network"}, repl |-> {"process"},
     repl_shell |-> {"process", "unknown"}, ui_read |-> {"read"},
     ui_click |-> {"ui"}, other |-> {"unknown"}]
OnPaths == {"edit", "delete", "move", "copy", "mkdir", "list_tree"}

ToolProfile(a) ==
    [operations |-> ToolOperations[a.tool],
     paths |-> IF a.tool \in OnPaths THEN a.paths ELSE {},
     privileged |-> FALSE, commits |-> FALSE,
     outside |-> a.tool \in OnPaths /\ \E p \in a.paths : p \notin InWorkspace,
     unbounded |-> a.tool = "delete" /\ a.paths \cap Unbounded # {},
     target |-> CASE a.tool = "fetch" -> a.target
                  [] a.tool = "search" -> "other"
                  [] OTHER -> None,
     clear |-> CASE a.tool \in OnPaths -> a.named
                 [] a.tool \in {"repl", "repl_shell"} -> ~a.long
                 [] OTHER -> a.tool # "other",
     provenance |-> a.provenance]

------------------------------------------------------------------------------
(* Classifying a profile.                                                     *)

classifyOutcome(p) ==
    IF p.unbounded THEN "irreversible"
    ELSE IF p.commits THEN "reversible"
    ELSE IF "device" \in p.operations THEN "irreversible"
    ELSE IF p.privileged THEN "soft-irreversible"
    ELSE IF "write" \in p.operations
    THEN IF ~(p.paths \subseteq InWorkspace) THEN "irreversible"
         ELSE IF p.paths = {"tracked"} THEN "reversible" ELSE "soft-irreversible"
    ELSE IF p.operations \cap {"network", "ui", "process"} # {} THEN "soft-irreversible"
    ELSE IF "delete" \in p.operations
    THEN IF p.paths \subseteq InWorkspace THEN "soft-irreversible" ELSE "irreversible"
    ELSE "reversible"

classifyDomain(p) ==
    IF p.privileged \/ p.paths \cap Critical # {} THEN "system"
    ELSE IF p.paths # {} /\ p.paths \subseteq InTargetDir THEN "workspace"
    ELSE IF "network" \in p.operations
    THEN IF p.target \in {"localhost", "trusted"} THEN p.target ELSE "untrusted"
    ELSE IF p.paths # {} THEN "untrusted" ELSE "workspace"

Intention(p) ==
    IF p.provenance \cap {"local_user", "web_remote_user"} # {} THEN "explicit"
    ELSE IF "tool_output" \in p.provenance THEN "task-derived"
    ELSE "autonomous"

------------------------------------------------------------------------------
(* The risk of the three axes, per security profile.                          *)

\* A bug: the rule for irreversible autonomous actions is dropped.
BugSafetyInvariants(outcome, intention, domain, unbounded) ==
    IF outcome = "irreversible" /\ domain = "system" THEN "pin"
    ELSE IF domain = "system" THEN "confirm" ELSE None

\* The invariants no profile overrides.
checkSafetyInvariants(outcome, intention, domain, unbounded) ==
    IF outcome = "irreversible" /\ domain = "system" /\ unbounded THEN "pin"
    ELSE IF outcome = "irreversible" /\ intention = "autonomous" THEN "pin"
    ELSE IF domain # "system" THEN None
    ELSE IF outcome = "irreversible" THEN "pin" ELSE "confirm"

\* A bug: what cannot be undone in an untrusted place only needs a click.
BugStrictRisk(outcome, intention, domain) ==
    IF outcome = "irreversible"
    THEN IF intention = "autonomous" \/ domain = "system" THEN "pin" ELSE "confirm"
    ELSE IF outcome = "soft-irreversible" \/ domain = "untrusted" THEN "confirm"
    ELSE IF domain \in {"trusted", "localhost"} THEN "log" ELSE "pass"

\* The risk by profile.
computeStrictRisk(outcome, intention, domain) ==
    IF outcome = "irreversible"
    THEN IF intention = "autonomous" \/ domain \in {"system", "untrusted"}
         THEN "pin" ELSE "confirm"
    ELSE IF outcome = "soft-irreversible" \/ domain = "untrusted" THEN "confirm"
    ELSE IF domain \in {"trusted", "localhost"} THEN "log" ELSE "pass"

computeBalancedRisk(outcome, intention, domain) ==
    IF outcome = "irreversible"
    THEN IF intention = "autonomous"
         THEN IF domain = "workspace" THEN "confirm" ELSE "pin"
         ELSE IF domain \in {"system", "untrusted"} THEN "pin" ELSE "confirm"
    ELSE IF outcome = "soft-irreversible" THEN "confirm"
    ELSE IF domain \in {"workspace", "trusted", "localhost"} THEN "pass"
    ELSE IF domain = "untrusted" THEN "log" ELSE "confirm"

computeMinimalRisk(outcome, intention, domain) ==
    IF outcome = "irreversible" /\ domain = "system" THEN "pin"
    ELSE IF outcome = "irreversible" /\ intention = "autonomous" THEN "confirm"
    ELSE "pass"

computeRisk(outcome, intention, domain, security, unbounded) ==
    LET fixed == checkSafetyInvariants(outcome, intention, domain, unbounded)
    IN IF fixed # None THEN fixed
       ELSE CASE security = "strict"   -> computeStrictRisk(outcome, intention, domain)
              [] security = "balanced" -> computeBalancedRisk(outcome, intention, domain)
              [] security = "minimal"  -> computeMinimalRisk(outcome, intention, domain)

computeMinimumReviewLevel(p, security) ==
    LET risk == computeRisk(classifyOutcome(p), Intention(p), classifyDomain(p),
                            security, p.unbounded)
    IN IF \/ ~p.clear
          \/ p.outside
          \/ "web_remote_user" \in p.provenance /\ ~(p.operations \subseteq {"read"})
          \/ risk = "pin"
       THEN "C"
       ELSE IF risk = "confirm" THEN "B" ELSE "A"

\* The level the brain asks for: brain.risk is its assessment, brain.confirm
\* whether it wants a confirmation.
getBrainReviewLevel(authority, brain) ==
    CASE authority = "escalate-only" /\ brain.confirm ->
           IF brain.risk = "critical" THEN "C" ELSE "B"
      [] authority = "governing" /\ brain.risk = "critical" -> "C"
      [] authority = "governing" /\ brain.risk \in {"elevated", "normal"} -> "B"
      [] OTHER -> None

\* The brain may raise the level of a shell command, never lower it.
applyBrainAuthority(level, authority, brain) ==
    LET required == IF brain = None THEN None ELSE getBrainReviewLevel(authority, brain)
    IN IF required = None THEN level
       ELSE IF Rank[level] >= Rank[required] THEN level ELSE required

------------------------------------------------------------------------------
(* What the classification promises of any profile.                           *)

\* A stricter security profile never asks for less.
Stricter(p) ==
    LET rank(security) == Rank[computeMinimumReviewLevel(p, security)]
    IN rank("strict") >= rank("balanced") /\ rank("balanced") >= rank("minimal")

\* What every security profile keeps, whatever the brain says of a shell command: a
\* PIN for what cannot be parsed, leaves the workspace, changes anything for a remote
\* user, cannot be undone and nobody asked for, or deletes without bounds what is
\* privileged or critical; a click at least for all privileged commands and critical
\* paths, and, but for the minimal profile, for what deletes and does not write.  A PIN
\* for every unbounded delete, which the documents ask for, is PinWhenUnbounded.
Floors(p, security, level) ==
    /\ \/ ~p.clear \/ p.outside
       \/ "web_remote_user" \in p.provenance /\ ~(p.operations \subseteq {"read"})
       \/ classifyOutcome(p) = "irreversible" /\ Intention(p) = "autonomous"
       \/ p.unbounded /\ classifyDomain(p) = "system"
       => level = "C"
    /\ \/ classifyDomain(p) = "system"
       \/ /\ "delete" \in p.operations /\ "write" \notin p.operations
          /\ ~p.commits /\ security # "minimal"
       => level # "A"

\* The rule as it is written down: unbounded scope needs a PIN in every profile.
PinWhenUnbounded(p, level) == p.unbounded => level = "C"

=============================================================================
