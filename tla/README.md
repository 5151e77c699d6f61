# TerminaI: formal models

TLA+ models of TerminaI, a terminal agent that lets a language model run tools
on its user's computer. The modules are written from the source under
`packages/`; `PROJECT.json` says which lines each definition stands for.

| Module | What it is |
|---|---|
| `ToolScheduler` | `CoreToolScheduler`: batches of tool calls, approval, execution, cancellation, reporting |
| `ToolBatch` | what the scheduler promises its client; `ToolScheduler` is checked to implement it |
| `ToolSchedulerInv` | its inductive invariants: of any scheduler, and of one that is given one batch at a time |
| `ToolSchedulerProofs`, `ToolSchedulerSerialProofs`, `ToolSchedulerClientProofs` | theorems: for any client, for one that gives one batch at a time, and the refinement of `ToolBatch` |
| `MCToolScheduler` + 4 `.cfg` | finite instances |
| `AuditLedger`, `AuditLedgerProofs` + 1 `.cfg` | the hash-chained audit log |
| `CloudRelay`, `CloudRelayProofs`, `MCCloudRelay` + 2 `.cfg` | the relay that pairs a host with a remote client |
| `AgentExecutor`, `AgentExecutorProofs`, `MCAgentExecutor` + 1 `.cfg` | the A2A server's executor and its Task objects, for one task id |
| `ApprovalLadder` | from an action to its review level: pure operators |
| `ConfirmationBus`, `ConfirmationBusProofs` | how an invocation is confirmed: bus, policy engine, checkers, ladder |
| `ReplSessions` | REPL sessions and their shells |
| `ProcessSessions` | the process manager's named background processes |
| `MCHostTools` + 4 `.cfg` | finite instances of the last three and of the ledger, which share no state |
| `HostToolsProofs` | theorems about the two kinds of sessions, and about `MCHostTools`' composition |

Check a run with `tlc -config X.cfg Module` (its `.cfg` and module are in `PROJECT.json`), a proof with `tlapm Module.tla`.

---

## 1. Inventory

The agent core (`packages/core`) is a library; the CLI, the A2A server and the
desktop application are front ends to it. It is single-threaded JavaScript, so
what interleaves is never two statements but the *continuations* of awaits,
timers, callbacks and socket events. State that was read before an await and is
used after it is the common hazard.

| Component (source) | State | Operations | Hard behaviour | What makes it correct |
|---|---|---|---|---|
| **Tool scheduler** (`core/coreToolScheduler.ts`) | active call, queue, finished batch, request queue, three flags, suspended handlers | `schedule`, `cancelAll`, abort signals, `handleConfirmationResponse`, execution, completion report | some ten awaits, at each of which requests, answers, cancels and aborts arrive; finalisation is itself an await | nothing runs unapproved or with other arguments than approved; final results stay; a request is reported once and whole; nobody waits forever |
| **Audit ledger** (`audit/`) | file, `lastHash`, `initialized` | `append`, initialisation, `verifyHashChain` | callers do not await `append`; crash or I/O error in mid-line | an untouched file verifies; acknowledged events stay recorded |
| **Cloud relay** (`cloud-relay/src/server.ts`) | sessions with a host and a client slot, per-address counters, sockets' liveness | connect, frame, pong, close, two 30 s timers | close events arrive after the slot was taken over; silent peers; objects that outlive their map entry | counts exact, slots name live sockets, each side is told the truth about the other, dead peers and empty sessions go |
| **Relay session and web client** (`a2a-server/src/http/relay.ts`, `web-client/relay-client.js`) | sequence numbers, epoch, version, paired | HELLO, HELLO_ACK, PAIR, RPC, reconnect with backoff | two re-handshake triggers, reconnects, frames of an earlier connection | a handshake completes; no frame is accepted twice or out of order; no RPC before pairing |
| **Agent executor, task** (`a2a-server/src/agent/`) | tasks in memory and in the store, executing set, task state | create, reconstruct, execute, secondary message, cancel, save | load/await/insert, primary and secondary loops, cancel while looping | one loop per task; a canceled task stays canceled, in the store too |
| **Confirmation bus** (`confirmation-bus/`, `tools/tools.ts`) | listeners by correlation id | publish, request, `getMessageBusDecision` | timeout or abort against a late answer; an error instead of an answer | one decision per request, no listener left, refusal never becomes consent |
| **Policy engine** (`policy/`) and safety checkers (`safety/`) | rule list, approval mode | `check`, `addRule`, `checkHook` | priorities, defaults, non-interactive mode, checker timeouts | first matching rule decides; a checker can only make it stricter |
| **Approval ladder** (`safety/approval-ladder/`) | none | review level of an action profile | several floors and ceilings combine | monotone in risk; its documented invariants |
| **Computer and REPL sessions** (`computer/`) | sessions by name, pty, output buffer | create, execute, kill, dispose, exit callback | a name is reused before the old process has exited; dispose during init | a live session is listed; no process without an owner |
| **Process manager** (`tools/process-manager.ts`) | sessions by name, pid, status | start, send, stop, restart, exit | restart waits up to a timeout; overlapping restarts | one process per name; every process is listed |
| **Model availability, fallback, retry** (`availability/`, `fallback/`, `utils/retry.ts`) | health of each model | mark, consume, select, reset | concurrent requests mark one model; one retry per turn | a terminal model is not selected; at most one sticky try per turn |
| **LLM auth manager** (`a2a-server/src/auth/`) | at most one flow, last error | start, complete, cancel, switch provider | late completion of a cancelled flow | one flow at a time; a cancelled one changes nothing |
| **Replay protection** (`a2a-server/src/http/replay.ts`) | nonces and times | check, prune | - | no nonce twice within its lifetime |
| **MCP client manager** (`tools/mcp-client-manager.ts`) | clients, chained discovery promise | discover, restart, stop | restart or stop during discovery | discovery ends; stopped servers stay stopped |
| **Hooks** (`hooks/`) | registry | plan, run, aggregate | parallel processes with timeouts | the strictest answer wins |
| **Chat, turn, client loop; loop detection; compression; sub-agents; brain; recipes** (`core/`, `services/`, `agents/`, `brain/`, `recipes/`) | history, counters | stream a turn, summarise, expand | text heuristics around model calls | mostly data |
| **Desktop automation, runtimes, micro-VM, drivers** (`gui/`, `cli/src/runtime/`, `microvm/`, `desktop-*`) | handles of external processes | start, call, dispose | operating system | mostly I/O |
| **Front ends, settings, telemetry, evolution lab, companion** | views, files | - | - | - |

How they interact: the client loop turns a model's tool requests into
`schedule()`; the scheduler asks each call `shouldConfirmExecute`, which asks the
confirmation bus, which asks the policy engine and checkers; the user answers a
prompt through `onConfirm`; every step is appended to the audit ledger without
waiting; the batch is reported to the client loop, which sends the results to
the model. The A2A executor owns one scheduler per task and cancels by aborting a
request's signal or with `cancelAll`; the CLI does both. A remote client reaches
the A2A server through relay session and cloud relay. `PROJECT.json` lists every
component with what is left out, and every hazard at its line.

## 2. Plan

Done (sections 3-9): `ToolScheduler` with `ToolBatch`, `AuditLedger`,
`CloudRelay`, `AgentExecutor`, `ConfirmationBus` with the policy engine over
`ApprovalLadder`, `ReplSessions`, `ProcessSessions`. Left, most important first:

| # | Module | Composes with | Properties, theorems, bounds |
|---|---|---|---|
| 1 | `RelaySession` | `CloudRelay` as its channel | the handshake completes although both the open socket and HOST_CONNECTED start one; sequence and epoch; no RPC before pairing; 2 connections, 3 frames |
| 2 | `ModelAvailability` | - | a terminal model is not selected, at most one sticky retry per turn, marks of concurrent requests; 2 models, 2 requests |
| 3 | `ReplayNonces` | - | no nonce twice within its lifetime |
| 4 | `LlmAuth` | - | one flow at a time; a cancelled one changes nothing |
| 5 | `McpClients` | - | discovery ends; a stopped server stays stopped |

Proofs left: `RunsUnderOwnSignal` and `BatchOfOneRequest` for clients that cancel with
`cancelAll` (run `scheduler_cancel` checks them; the theorems are for cancellation by
signal; the invariant has to describe the suspended functions of cancelled batches), and
the theorems of the modules above. Every invariant and action property
of the passing runs is stated by a theorem (section 11).

---

## 3. The tool scheduler

### State and steps

`ToolScheduler` keeps the fields of the class under their own names (`active` is
the single element of `toolCalls`, `queue` is `toolCallQueue`, `completed` is
`completedToolCallsForBatch`). Two variables represent the JavaScript stack:

* `jobs`: the synchronous methods still to run before the event loop takes
  another event. The head runs; behind it only outer async chains wait to unwind
  (their `finally` clauses). One action per method and early return: e.g.
  `_processNextInQueue` is `ProcessNothing`, `ProcessAborted`, `ProcessNext`;
  `checkAndNotifyCompletion` is `CheckBusy`, `CheckNext`, `CheckNothing`,
  `CheckReport`.
* `frames`: async functions suspended at an await, with what their closures
  remember: the call, the *signal of the request they began under*, the
  arguments the user saw, the outcome. A frame resumes by an action of its own:
  `Validate...` after `shouldConfirmExecute`, `HookDone`, `Confirm...` after
  `onConfirm`, `EditorDone`, `InlineDone`, `ExecDone`, `ReportDone` and the
  throwing variants.

`granted`, `ran`, `answered`, `reports` are history variables: they record which
argument version was approved, which ran, how often a prompt was answered and a
call reported. `trail` is the set of audit events of a call.

External parts are choices. `Answers` says what a check can return (no
confirmation, auto-approval, a prompt, one with a PIN, an exception; the exception also
stands for the refusal in non-interactive mode). `Faults` says what may fail: a tool
that does not build or throws, `onConfirm`, the editor, modified arguments
that do not build, the report handler. `CancelModes` chooses between the A2A
server's cancellation (abort the signal, `Abort`) and the CLI's (abort, then
`cancelAll`, `UserCancel`).

Folded or left out: output truncation is an extra result (`"saved"`) of `ExecDone`
instead of an await of its own; process ids, live output, telemetry and
wording are omitted; `onAllToolCallsComplete` is always given, as both clients
do.

### Runs

Two or three requests with one or two calls; that gives every pair of "batch
under way" and "another batch arrives", and every position in a batch (first,
last). `MaxArgs = 1` is one modification, enough to tell approved from changed
arguments; `MaxTwins = 1` allows two handlers at the same point with the same
data; `MaxResponses` bounds the answers to a prompt (2 = an answer repeated).
`scheduler_hostile` has one call in each request, so its requests can be exchanged
together with their calls (`Exchanges`), and TLC checks one of each six states that differ
only in that; it checks no liveness.

| Run | Setting | Shows |
|---|---|---|
| `scheduler_abort` | two requests, cancellation by signal, all faults but `report` and `rebuild`; fairness | `OneToolRuns`, `ReportedOnce`, `NothingLeftBehind`, `RunsOnce`, `RunsGrantedArgs`, `OutcomeAudited`, `EveryRequestReported`, `ClientPromise` (implements `ToolBatch`) |
| `scheduler_cancel` | two requests, `cancelAll`, stale answers, a report handler that throws | `TypeOK`, `BatchOfOneRequest`, `RunsUnderOwnSignal` |
| `scheduler_hostile` | three requests that overlap, stale answers, PIN, hook, modified arguments that do not build | `ApprovalGate`, `RejectedUntouched`, `FinalIsFinal`, and the proofs' `IInv` |
| `scheduler_stuck_queue` | `cancelAll`; fairness | `EveryRequestReported` is violated (section 10) |

`Schedule`, `Abort` and `UserCancel` model the client. With `Overlap` it may send a
request at any time; without, it works on one request at a time and sends the next when
those before have been reported or rejected (`ClientFree`). A request may be aborted or
cancelled at any moment: before it is scheduled (the CLI schedules what a stream asked for
with the signal that the user aborted meanwhile, `useGeminiStream.ts:902-904`), while it
runs, and while its report is awaited. In `ToolBatch` a request is accepted (`Accept`), a call begins (`Begin`) and ends
(`Finish`), several end together without running (`Drop`: calls that cannot be
built when the request is taken on, or those a cancellation drops) and the request is
reported (`Report`).

A property is checked where it holds, and the settings where it does not are
real ones. Also found violated: `OneToolRuns` and
`NothingLeftBehind` with `cancelAll` (the cancelled batch's tool still runs when the
next one starts); `ReportedOnce` with `cancelAll` (a cancellation while the report is awaited
reports the batch again, and so does a tool that settles then); `OutcomeAudited` for aborted
requests (the tool's outcome is dropped); `RunsOnce`, `RunsGrantedArgs` with `Stale` (a second
answer to a prompt already answered reaches the scheduled call);
`NothingLeftBehind`, `BatchOfOneRequest`, `RunsUnderOwnSignal` with `Overlap`
(`isRunning` ignores a call in `validating`); `RunsUnderOwnSignal` with `Stale` and the
fault `rebuild` (a late answer to a call of a reported request collects the call that
failed to rebuild and goes on with the next one under its own signal);
`EveryRequestReported` with the fault `rebuild` (section 10).

`CHECK_DEADLOCK FALSE`: when all requests are reported the scheduler rests.

Fairness (`FairSpec`): the event loop runs what it was given (`Method`), some
awaited promise settles as long as there is one (`Resume`), and a user answers a
waiting prompt in the end. The second is one weak fairness condition over all
suspended functions. Nothing obliges a client to schedule, abort or
cancel. A tool that never ends is outside these liveness results.

## 4. The audit ledger

`append` suspends at `readFile` (first use) and at `appendFile`; `AppendCall`,
`ReadFile`, `FinishInit`, `Compute`, `WriteLine`, `UpdateHash` are its segments,
`ReadError`, `InitThrows`, `WriteError` its failures, `Crash` a process death with
one line possibly torn. A hash is represented by the sequence of events it was
computed from (no collisions). `Serialized` says whether callers await.

| Run | Setting | Shows |
|---|---|---|
| `host_tools`, parts "ledger" and "awaited" | un-awaited and awaited appends (both values of `Serialized`), a crash, I/O errors, fairness | `NoDanglingPrev`, `AcknowledgedRecorded`, `NoFalseTamperAwaited`, `EveryAppendSettles`, and `TypeOK` in `HostTypeOK` |
| `ledger_fork` | un-awaited appends, no crash | `NoFalseTamper` is violated (section 10) |

Three appends and one crash: two can overlap while a third follows; one crash
leaves a torn line for the next process. After a torn last line every later
`append` rejects (`InitThrows`): the ledger stays closed for good, which
`EveryAppendSettles` tolerates. An `appendFile` error after the whole line and
its newline were written is not modelled. Appends are made once each, so that
"when one is in flight, at some time none is" (`EveryAppendSettles`) is the same as
that each settles. Redaction and export only transform payloads.

## 5. The cloud relay

One action per event: the connection handler is `RefuseConnection` (a limit;
never counted), `RejectConnection` (malformed or unknown session; counted),
`HostConnects`, `ClientConnects`; then `Message`, `MessageOverCap`, `Pong`,
`CloseEvent` (both close listeners), `ProcessEnds`, `Tick` (the heartbeat and cleanup
intervals, which have the same period and fire in that order), `AttemptsExpire`.
The peer is `PeerCloses` and `PeerGoesSilent`. `server.ts` gives no socket an "error"
listener, so a frame the `ws` library rejects (malformed, or over the `maxPayload` of
line 119) ends the process: `ProcessEnds`, after which nothing is remembered.
A session *object* is named by
the host socket that created it, because closures keep it after the map has
dropped it. `told` is the last RELAY_STATUS a socket got. The throughput
caps are a choice between `Message` and `MessageOverCap`; forwarded payloads
are not kept, since no state depends on them.

| Run | Shows |
|---|---|
| `relay_sessions` | `TypeOK`, `CountsExact` (`connectionsPerIp` is exactly the accepted connections not yet closed), `SlotsLive` (a slot names a live socket of its session, in its role), `StatusTruthful` (RELAY_STATUS agrees with the slots), `SilentPeersGo`, `EmptySessionsGo` |
| `relay_reconnect` | `HostReachable` is violated (section 10) |

Three sockets, one address, one session: enough for a host, its replacement and
a client at once, or two hosts in a row. `MaxNewConnections = 2` makes the window
refuse the third until it expires; `MaxAge = 3` ticks is the first tick at which
more than 60 s have passed. Fairness: the intervals keep firing, and a closing
socket is closed in the end (the peer answers or the `ws` library's close
timer destroys it). With one session the global session limit refuses nobody in
these runs.

## 6. The A2A agent executor

One task id, as `executor.ts` and `task.ts` handle it.

| Variable | Code |
|---|---|
| `task` | the `Task` objects: state, `pendingToolCalls`, the promise of the moment with those who wait on it (`waiting`, `resolved`, `rejected`), `completedToolCalls`, confirmation details, and the batch of the object's scheduler as its client sees it |
| `cache`, `executing` | `this.tasks.get(id)`, `this.executingTasks.has(id)` |
| `store` | what the task store last saved; `InMemoryTaskStore` is made anew by each process (`http/app.ts` 254-266), so a process that ends empties it (`Stored`) |
| `pc`, `on`, `loaded`, `says`, `aborted`, `saving` | each running `execute()`: where it is suspended, the object it works on, the state its request was loaded with, its message, whether its client is gone, the save it awaits |
| `cancelSave` | the save `cancelTask` awaits |
| `env` | the setting: store, overlapping reconstruction, exit on an unhandled rejection, what an earlier process stored |

`Arrive`, `Execute`, `Reconstruct`, `Create`, `HydrateFails`, `Resume`, `SaveEnds`
are the life of a request up to the loop and after it; `Run` decides between
main and secondary loop. `StreamThrows`, `StreamCancels`, `StreamEnds`,
`ScheduleToolCalls`, `Dequeue`, `Scheduled`, `Answered`, `NothingStreamed`, `SideEnds`,
`Settle`, `WakeUp` are the segments of the loop between awaits. `NextCall` and `ToolEnds`
are the scheduler of a Task object; what the scheduler does inside is
`ToolScheduler`'s subject. `CancelTask`, `CancelSaved`, `Disconnect`, `Restart` come
from outside. Auto-execution is a call outside `Asking`.

`Next` tells two kinds of steps apart. `Settles` is what follows from a promise that
settled; `Event` is what comes from outside (requests, loads, saves, streams,
checkpoints, tools, disconnection, cancellation, restart). An answer whose `onConfirm` has returned
because its batch was reported (`AnswerDue`) is handled before the next event:
between the report and the code after `onConfirm` there are only microtasks
(`coreToolScheduler.ts` 1292, 1603-1664, `task.ts` 888-919), no timer or I/O.

An answer may also fail (`AnswerThrows`, `task.ts` 920-943): with an edited content that does
not apply, or an editor that does not open, `onConfirm` rejects, and the task stops waiting
for the call (`_resolveToolCall`) while the scheduler still has it waiting for the user.
`modify_with_editor` keeps the prompt's details, since another answer follows.

| Run | Shows |
|---|---|
| `agent_executor` | `TypeOK`; `OneMainLoop` (one main loop whichever object it works on, and `executingTasks` says so); `NoLostWakeup` (no wait on a promise that has been replaced without being settled); `DeadStays` (a task canceled or failed of which nothing runs stays so, in memory and in the store, across messages and cancellations, and across restarts unless its store was the process's own); `EveryMessageEnds` |

Two messages (a main and a secondary loop, or two that reconstruct at once), two
Task objects (the one in the cache and the one it replaced), two tool calls of
which one asks (so a batch has a running and a waiting call), one cancellation,
one restart: some 560 000 states. Two settings: the in-memory store, with one
reconstruction at a time and a process that survives an unhandled rejection;
and the bucket, whose saves take time and may be overtaken, with overlapping
reconstructions and a server that exits on an unhandled rejection
(`http/server.ts:27`), which the model takes as a restart.

Fairness: an execution's own awaits settle (the model's stream, checkpoints,
loads, saves) and a scheduler's tools start and end. Nobody has to send, answer,
cancel or disconnect, so `EveryMessageEnds` excuses an execution while a prompt
waits for the user.

Seen in the model, stated by no property because no document rules it out: a
cancellation of a task whose loop runs is overwritten by the loop's own end,
with `failed` or `input-required` (`executor.ts:588`).

## 7. Confirmation, policy and approval ladder

`ConfirmationBus` follows an invocation from `shouldConfirmExecute` to the
decision. `phase` is the invocation, `stack` its nested `PolicyEngine.check` calls
(one frame per call: the command, where it is, the decision so far), `policy` the
sorted rules and settings, `parsers` whether the lazily loaded shell parsers are
there, `vetoed` and `verdict` what the checkers and the engine said.

`Match`, `Parse`, `NextPart`, `Decide` are promise continuations, which JavaScript
runs before the next timer, I/O or user event: `CheckerEnds`, `ParsersReady`,
`Abort`, `Timeout` and `Answer` wait for `Quiet`. `Request` and `Review` are the
invocation's own steps. An answer "always" adds a rule (`addRule`) while
another invocation may be between two parts of its command.

Data: a command is a model value; `Parts` says what `splitCommands` returns for
it, a rule has the set of commands it covers, `Extends` gives the commands a saved prefix
matches. What a safety checker looks for is a choice; one that fails or exceeds its
timer denies.

`ApprovalLadder` is a set of pure operators, one for each function of
`safety/approval-ladder` between the action and the review level. Paths and network
targets are the kinds the classifiers tell apart. `Review` applies it to
the action of the command under review, with the brain's assessment, and then what the
scheduler makes of the level: A runs, B runs too in YOLO mode or when `--allowed-tools`
names the call (`isAutoApproved`; a PIN is never skipped), the rest is put to the user or,
without one, refused. Whether there is a user (`interactive`) and whether the engine was
told so (`nonInteractive`) are settings of their own. The edit tools' own early return in
AUTO_EDIT mode is not modelled.

| Run | Shows |
|---|---|
| `host_tools`, part "approval" | `AllowJustified` (what runs unasked is allowed, down to the last part of a compound command, by rules no higher one contradicts, and no checker objected); `FloorsHold` (the floors the code keeps in every profile; an unbounded delete has one only with a system path or another reason); `StricterAsksMore`; `EveryInvocationDecided` |
| `unbounded_delete` | the PIN that the documents ask of an unbounded delete: `UnboundedNeedsPin` is violated (section 10) |
| `approval_nested` | with a command that is among its own parts, `EveryInvocationDecided` is violated (section 10) |

Two invocations (one checked while the other's answer adds a rule), five
commands (two plain ones, their chain, one that does not parse, file tools),
four policies (empty; a question above a permission; a ban above a permission, without
a user; the YOLO mode's permission below an administrator's question), one checker,
actions of every kind (listings, deletes, privileged and device commands, paths of each
kind the classifiers tell apart: in the target directory, in an added workspace, a
workspace root itself, critical, home, outside; asked for by the user, the model, a tool
or a remote user). The theorems in section 11 hold for every
action profile and policy, so these bounds matter for liveness and as a check of the
definitions. Fairness (in `HostSpec`): continuations run (`Continues`) and the 30 s
timer fires (`TimerFires`). Checkers, parsers and users need not answer.

Consequences of the code that no document contradicts, or that a comment
contradicts without a property of its own: the timer's ASK_USER stands although a
DENY comes later; "always, for this session" of one shell command allows the whole shell tool;
two "always, and save" answers can lose one of the saved rules, since each reads the file
before the other writes (`policy/config.ts:387`); an error of the bus is published without a
response, and the timer decides; a critical path named inside a shell
command gets A or B, because paths of shell commands are not extracted, where
`safety-architecture.md:87-89` asks for a PIN.

## 8. REPL sessions

`sessions` is the manager's map, `shell` the session objects with their
`PersistentShell`, `exec` the calls of `execute_repl`. A call executes two pieces of code:
the user's, and the inspection of the session that follows when it did not time out.
`ExecuteRepl` finds or lists a session, starts its shell's init and writes the user's code
in one go; `Settle` is the poll that ends the first wait, with the inspection code written
to whichever session has the name by then (`repl.ts:238` looks it up again); `TimesOut`
and `Resolve` are the timers and the end of the second wait. `InitEnds`, `ShellExits`,
`Output` are the shell; `KillSession` and `DisposeAll` come from the user and from shutdown.
The exit callback deletes by name. Every chunk of output remembers which session's process
printed it and which pieces of code had been executed by then; what a call returns is
read from the buffer of the session object its code was executed in.

| Run | Shows |
|---|---|
| `host_tools`, part "repl" | `DirsFollowShells` (a session's sandbox directory lives exactly as long as its shell, unless the session was closed, and no listed session lost its own); `OutputOwn` (what a call returns was printed by the process of the session its code was executed in, after the call began, and likewise for its inspection, which may be of another session) |
| `repl_first_code` | `CodeIsRun` is violated (section 10) |

One name, two session objects, two calls: the name is reused while its first owner's
shell has not exited, and two calls can create no more than two sessions. Not stated as properties because nothing promises
them: a killed shell that ignores its signal goes on, unlisted; its late exit
takes the new owner of the name off the list; `disposeAll` during init leaves a
process without an owner; output of a timed-out call lands in the next one's
buffer when both use the same session.

## 9. Process manager

`listed`, `process`, `operation` are the manager's map, its session objects and the
calls that await something. A session is listed before its pid is known. `serial`
says whether the client makes one call at a time, as the scheduler does within
a task. `Restarted` is the end of the wait for the old process, after which whatever
has the name gives way.

`host_tools`, part "process", checks `RunningIsListed` (for a serial client, a running process is
found under its name) with three operations on one name and three processes: a start and
two restarts that time out or not. With overlapping calls the same is false: two restarts of one
name, or one before the pid is known, leave a running process unlisted. A stop
before the pid is known only aborts, and that abort is lost; a session that ended
cannot be restarted, nor its name used again.

`MCHostTools` puts sections 4, 7, 8 and 9 into one run: `part` selects which of
them moves (the ledger twice, with and without awaiting callers), so a behaviour is one
of a single part and the state space is their sum, some 645 000 states.

## 10. Findings

* **A queued request can wait forever** (`scheduler_stuck_queue`). Cancel during
  validation: the batch is reported while the cancelled `_schedule` is still
  suspended, a new request is queued because `isScheduling` is set, and the
  suspended chain ends without looking at the queue.
* **Un-awaited appends fork the hash chain** (`ledger_fork`). Two appends hash
  from the same `lastHash`, and `/audit verify` reports tampering in a file only
  the ledger wrote.
* **A reconnecting host loses its session** (`relay_reconnect`). The relay closes
  the old host socket and installs the new one; the old one's close event then
  clears the slot, whoever is in it, so the client's frames are dropped and it is
  told `HOST_DISCONNECTED` while the host is connected. A later host then does
  not replace the orphaned one either.
* **Checking a command substitution never ends** (`approval_nested`). For
  `echo $(ls)` `splitCommands` returns the command itself and `ls`; when an ALLOW
  rule covers it, `check` awaits `check` of the same command. The continuations
  follow each other without a gap, so neither the 30 s timer nor an abort is served.
* **The first code of a new REPL session is dropped** (`repl_first_code`). It is
  written before the shell has a process, `write` ignores it, and the call returns
  empty output.
* **An unbounded delete may need no PIN** (`unbounded_delete`). `computeMinimumReviewLevel`
  says in a comment that unbounded scope means level C, and the documents say the same, but
  the branch only adds a reason: the level asks for a system path as well, so
  `rm -rf *` asked for by the user is a click in the balanced profile and nothing in the
  minimal one.

Described, without a run of its own: **bad modified arguments block the batch**.
`setArgsInternal` turns the active call into an error and nobody calls
`checkAndNotifyCompletion` (`coreToolScheduler.ts:1344`); `scheduler_hostile` shows
that safety survives it.

## 11. Proofs

TLAPS checks these for *every* value of the constants: any number of requests
and calls and, in `ToolSchedulerProofs`, both values of `Overlap`, `Stale`, `Hooks`; any set of appends; any
sockets, addresses, sessions and limits; any messages, tasks and settings; any
policies, commands and invocations; any names, shells and processes.

### Scheduler (`ToolSchedulerProofs`, from `SchedulerAssumption`)

`TypeCorrect`, `Invariant`, `Gate` (`ApprovalGate`), `Final` (`FinalIsFinal`),
`Untouched` (`RejectedUntouched`). None of the last three is inductive.
`IInv` (`ToolSchedulerInv`) strengthens them:

* `RequestInv`: a request is waiting, or is the running step, or neither, and
  until it starts its calls are new; at most one `schedule` step exists, at the
  head of `jobs`. Needed for `RejectedUntouched`: a request taken out of the
  queue must not have started.
* `PlaceInv`: a call that was taken on is queued, active or held by a suspended
  function, its status fits its place, and no queued call has a frame. Without it
  a late frame could be thought to act on a call that never started.
* `GateInv`: `scheduled` and `executing` imply a grant, and a prompt exists only
  after its check. This is what survives a late answer: such an answer skips PIN and
  `onConfirm`, but can reach `scheduled` only for a call still active whose
  earlier answer was granted.
* `FinalInv`: what was collected or reported is final, and a succeeded or
  cancelled active call is collected by the step that is running; hence nobody
  can start it.

`ToolSchedulerProofs` begins with facts about sequences (what `Append`, `Tail`, `\o`
and removing an element do to the set of elements and to injectivity) and the
proof that each step preserves the types. It then sorts the actions by what they
may change (`HandledSteps`), proves per part of `IInv` that each class keeps it, then
`InvStep` and the theorems by PTL.

### A client that gives one batch at a time (`ToolSchedulerSerialProofs`)

`OneTool`, `Once`, `GrantedArgs`, `OwnSignal`, `ReportOnce`, `OneRequest`, `Audited`,
`NothingLeft` prove `OneToolRuns`, `RunsOnce`, `RunsGrantedArgs`,
`RunsUnderOwnSignal`, `ReportedOnce`, `BatchOfOneRequest`, `OutcomeAudited` and
`NothingLeftBehind` under

    OneAtATime == ~Overlap /\ ~Stale /\ CancelModes \subseteq {"abort"}
                     /\ \A r \in Requests : CallsOf[r] # <<>>

which is how the A2A server uses its scheduler: the main loop of a task waits
for a batch before it schedules the next (`executor.ts` 505-512), never schedules an empty one
(`task.ts:616`), cancels by aborting the signal, and its client answers a prompt
once. Outside it seven of the eight are false (section 3), so the hypothesis is needed;
the fault set, the hook, the answers, the requests and their calls are arbitrary.
`NothingLeft` also needs a report handler that does not throw: one that does
leaves `isFinalizingToolCalls` set.

None of the eight is inductive: each says something about calls, and what keeps
it true is where the control is. `SerialInv` says so. There is *one chain of
control*: either one method runs or one function is suspended, never two
(`ControlInv`), and it belongs to the one request that was accepted and not
reported (`OneUnsettled`, `ChainInv`). What a method finds when it runs (`MethodInv`), what a
suspended function awaits (`AwaitInv`: a confirmation awaits a call in
`awaiting_approval` with the arguments the user saw), and where the calls of the request
are (`BatchInv`: finished, active and queued ones, in the request's order, make up the
whole request) follow from each other, so that an answer or a completion always
meets the call it was meant for. `FinalizingInv` covers the time between the report
of a batch and the return of its handler, the only time at which a request waits.
Each part is proved for each action in a lemma of its own; `SerialStep` combines them.

### The scheduler implements `ToolBatch` (`ToolSchedulerClientProofs`)

`Promise`: `OneAtATime => (Spec => ClientPromise)`. A call's phase is read off its
reports, its status and whether its request was sent (`CallPhase`). `Schedule`
maps to `Accept`; `ScheduleBatch`, `ProcessAborted` and `CancelAll` to `Drop`, which may
drop nothing; `AttemptStart` to `Begin`, in order because `BatchInv` places the calls;
the handlers at which the active call ends to `Finish`; `CheckReport` to `Report`,
which reports the whole request because the batch is one request; every other step
to a stutter. `SerialInv` is used throughout.

### Ledger (`AuditLedgerProofs`, from `LedgerAssumption`)

`TypeCorrect`; `NoDangling` from `LinkInv` (every hash the ledger *holds*, in
`lastHash`, a snapshot or a record under way, is already on file);
`Acknowledged`; and `SerialChain`: under `Serialized`, `NoFalseTamper` holds through
any crashes and torn writes, from `SerialInv` (one append in flight, and
`lastHash` is the hash of the last line whenever the file is sound). `AwaitedChain`
(in `HostToolsProofs`) states it of the run's own specification `HostSpec`, in which
instances with and without awaiting callers share the model: a step of an awaiting
caller is a step of any caller at a time when no other append is in flight
(`AwaitingCalls`).

### Relay (`CloudRelayProofs`, from `LimitsAssumption`)

`TypeCorrect`, with which no address exceeds its limits. `Truthful`
(`StatusTruthful`) is not inductive: were a slot to name a closed socket, or two
slots the same one, telling one session's socket would change what another
session's was told. `RelayInv` adds `SlotsLive`, which ties each slot to one
socket through its role and session, and gives `Slots` as well. Most events
touch no slot and of a socket at most its liveness (`QuietStep`); what is left
is a host or a client joining, the close event, and the end of the process, which empties
every slot. `Counts` (`CountsExact`)
is an argument of its own: every event leaves the set `Counted(ip)` alone, adds
one socket to it with the increment, removes one with the decrement, or empties it with
the counters. The
removed socket is in the set, so `decrementConnectionCount`'s floor at zero
hides nothing.

### Agent executor (`AgentExecutorProofs`, from `AgentAssumption`)

`TypeCorrect`, `OneMainLoopCorrect`, `DeadStaysCorrect`, `NoLostWakeupCorrect`. `IInv` is
`TypeOK`,
`OneMainLoop` and `Equipped`: an execution that works on a Task object has one, and one that
reconstructs, answers or saves knows from what. `OneMainLoop` holds although two messages can
reconstruct the task into two objects, because `executingTasks` is keyed by the task's id
and read in the same segment that sets it; each way out of the loop (`Finish`,
`Catch`, `Down`) clears it together with the pc. `DeadStays` follows from `IInv`
action by action: a request that works on a canceled or failed task
can only leave, and a restart keeps what the bucket has.

`NoLostWakeup` speaks of waiters and pending calls; what it rests on is the
bookkeeping inside a Task object (`Sound`): pending calls are open ones, a waiter
waits only while something is pending (`Calm`), at most one call of a batch runs or
asks (`Serial`). A lemma for each operator (`UpdateSound`, `NotifySound`, `CancelAllSound`,
`ConfirmedSound`, `CancelPendingSound`, `AnswerEndsSound`, `StartedSound`) shows that it keeps
this and forgets no execution it owes an answer (`Heard` only grows). `Awaited` adds
that every execution at `wait` is heard of by its object; only its own `WakeUp`
takes it out.

### Confirmation (`ConfirmationBusProofs`, from `BusAssumption` and `LadderAssumption`)

`AllowAlwaysJustified`: `AllowJustified` for any rules, commands, nesting of
parts, checkers and number of invocations. The invariant `BusInv` gives each stack of
nested checks a meaning: a frame whose decision is still ALLOW is for a command a
rule allows, the parts it has passed are in a set of justified commands
(`AllowedSet`; a union of justified sets is justified), and a checker's objection is
remembered by some decision of the stack that is not ALLOW. The difficulty is
that rules are added while a stack is half way: `AddRuleFacts` shows that the stable insertion keeps
the list sorted, and `StillAllowed` that an added ALLOW rule takes away no command's
permission. `FloorsAlwaysHold` and `StricterAlwaysAsksMore` are proved of
`computeMinimumReviewLevel` for every action profile, security profile, authority and
assessment by the brain.

### Sessions (`HostToolsProofs`)

`DirsCorrect` and `OutputCorrect` from `ReplInv`: a listed session bears the name it
is listed under and is not closed (`ListedInv`), a buffer holds only what its own
session's process printed (`ByInv`), that of a session which executes a piece of code only
what was printed since (`AfterInv`), a call that began has a session (`CallInv`), and
the directory follows the shell (`DirInv`). That a name was given away in the meantime is
harmless for the user's code because a call keeps its session object, and for the
inspection because it is bound to the session found at its start. `ReachableCorrect` from
`ProcessInv`: with a serial client at most one call is under way, a starting process is
that call's, and every process that has started and not ended is the listed one
(`AwaitedInv`).

`HostTypes` (`HostTypeOK`) is about `MCHostTools`: a behaviour of its specification
is one of each of the parts, of which all but one never move (`PartSpecs`), so what is
proved of a part holds in the run.

### Only model-checked

Liveness (`EveryRequestReported`, `EveryAppendSettles`, `SilentPeersGo`,
`EmptySessionsGo`, `EveryMessageEnds`, `EveryInvocationDecided`), which needs
fairness and ENABLED and is out of the prover's reach. `RunsUnderOwnSignal` and
`BatchOfOneRequest` in the setting of their run (`cancelAll`, stale answers, a
report handler that throws), where `SerialInv` is false because two chains of control
can exist; the theorems hold in the setting of `OneAtATime`.

`SerialInv`, `Awaited`, `AnswersInTurn` and `Home` are proved, not in any `.cfg`: they
are means, and the properties they give are what the runs check.

## 12. Not modelled

`PROJECT.json` lists every component with its reason. In short:

* Parts of modelled components: the edit tools' AUTO_EDIT mode, hook execution requests over the bus (an answer
  of the scheduler's check instead), the Docker path of the REPL tool, output
  reading and summarising in the process manager, several task ids at once in the
  executor (they share nothing but the process).
* State worth a model, planned in section 2: relay session and web client,
  model availability, replay nonces, LLM auth, MCP manager.
* Task persistence, HTTP wiring, hooks, telemetry, settings: I/O and data
  transformation without a protocol of their own.
* Chat and client loop, loop detection, compression, sub-agents, brain, recipes:
  text heuristics around model calls. Their protocol with the rest is the
  client side of the scheduler.
* Desktop automation, runtimes, drivers: behaviour is the operating system's.
* Front ends: views. What they do to the scheduler (prompts, cancellation) is in
  its model.
