# Pi_UI: TLA+ specifications

Pi_UI is a desktop shell (Python, PySide6/QML) around the coding agent Pi. It starts one
`pi --mode rpc` process, speaks JSONL with it over stdin and stdout, and shows the conversation;
beside that it browses a workspace, previews its documents and runs diagnostic probes. This
directory holds the specifications of its core logic, the instances TLC checks and the theorems
TLAPS proves. Paths below are relative to the repository (`src/` in the machine-readable index
`PROJECT.json`).

Everything runs on ONE thread, the Qt GUI thread, except two worker threads that read
directories and documents. What makes the program hard is therefore not parallelism inside the
code but the order in which the event loop delivers things: the user's clicks, process signals,
lines from Pi, single-shot timers, results of workers; and that the classes call each other back
synchronously, so that one signal runs through four classes before it returns.

## 1. Inventory

| Component (code) | State it keeps | Operations | Talks to | What is hard, what makes it correct |
|---|---|---|---|---|
| **AgentController** `controllers/agent_controller.py` | connection state, client, session readiness, messages with their delivery state, prompt requests, recovery flags, error and warning | set workspace, refresh profiles, connect, disconnect, send, stop; callbacks for transport state, responses, events, errors, timeouts | calls AgentClient; told by it synchronously; saves settings; its `state_handler` feeds the adapter and the shutdown coordinator | late answers after timeouts, reload of the history, recovery of a failed turn, an order of callbacks nobody tested: one process, one session, no prompt after an unknown outcome |
| **AgentClient** `core/agent/client.py`, `deadlines.py`, `transport.py` | pending requests, their deadlines, turn state, inactivity deadline, retry flag | start, shutdown, prompt, clear_queue + abort, hydration commands; responses, events, deadlines | transport below, controller above | requests and deadlines stay paired on every path; the abort chain crosses an answer |
| **QProcessAgentTransport** `ui/native/agent_process.py` | transport state, start-up and shutdown timers, QProcess, decoder | start, send, stop; started, errorOccurred, finished, stdout, two timeouts | QProcess, client | signals after `stop`, failed spawn, Pi that ignores SIGTERM: the process always ends |
| **AppShutdownCoordinator** `ui/native/app_shutdown.py`, `main.py` | active, completed, watchdog | request shutdown, state notification, forced finish | controller | closing terminates and does not leave Pi behind |
| **JSONL protocol** `core/agent/protocol.py` | byte buffer | feed, finish | transport | framing limit at its boundary, records before a bad frame |
| **Session recovery** `core/agent/session_recovery.py` | none | find the fork point of a failed turn | controller | cycles, missing parents, the right user entry |
| **Settings, atomic writes** `core/settings.py`, `core/atomic_file.py` | files | load, save, quarantine | controller, model config | crash between file operations |
| **Managed models.json** `core/agent/model_config.py` and neighbours | target file and ownership marker | write, import, discover, launch arguments | bootstrap | crash between the two writes; a foreign file is never overwritten |
| **Preflight** `controllers/preflight_controller.py`, `core/preflight.py` | rows, running flag, generation | run, cancel, results | probe runner | results of an earlier run |
| **Sandbox gate** `controllers/sandbox_gate_controller.py`, `core/sandbox_gate.py` | stage, scratch directory | run, cancel, results | probe runner, controller | scratch directory removed once; never beside a live Pi |
| **Probe runner** `ui/native/probe_runner.py` | queue, current process, timeout | run, cancel, signals | QProcess | FailedToStart, crash, timeout and cancel racing with the next probe |
| **Workspace browser** `controllers/workspace_browser_controller.py`, `ui/native/workspace_scan_runner.py` | tree, expansions, pending scans | set root, expand, collapse, results | worker thread | results for a collapsed, reopened or replaced directory |
| **Workspace document** `controllers/workspace_document_controller.py`, `ui/native/workspace_document_runner.py` | current request, preview | select, clear, results | worker thread | an older preview delivered after a newer request |
| **Text projection** `ui/text_projection.py` | none | bounded projection | models | limits at their boundaries |
| **Model import** `core/agent/model_import.py` | none | convert one JSON file | nobody: the application does not call it | |
| **Sandbox policy** `core/sandbox.py` | none | Bubblewrap arguments, tests of paths | preflight, gate, transport | a pure function of paths |
| **Qt models, adapters, QML** `ui/models`, `ui/adapters`, `ui/qml` | none of their own | republish | | presentation |

`PROJECT.json` lists under `hazards` each place where one of these can go wrong in a way a test
would hardly reach, with the properties that watch it.

### Which module models what

| Composition | Modules | Run |
|---|---|---|
| agent session (section 2.1) | `AgentState`, `AgentHandlers`, `AgentSession`, `SessionContract` | `lifecycle`, `turns`, `retries`, `settles` and the four divergences |
| diagnostics (2.2) | `ProbeRunner`, `Preflight`, `SandboxGate`, `ProbeContract`, `Diagnostics` | `diagnostics` |
| workspace browser and preview (2.3) | `LoadRunner`, `WorkspaceTree`, `DocumentPreview`, `TreeContract`, `Workspace` | `browser` |
| files (2.4) | `AtomicFile`, `SettingsFile`, `ModelsFile`, `Persistence` | `persistence` |
| data Pi sends (2.5) | `JsonlDecoder`, `SessionBranch` | `rpcdata` |

The compositions meet in few places. The gate tests the connection state before it starts
(`canRun`): both outcomes are open to it in `SandboxGate`. The browser follows the controller's
workspace: `ChooseWorkspace` is an action of `AgentSession`, of `Workspace` and, as
`SetWorkspace`, of `Persistence`. The session model takes from the files whether a save succeeds
(`store`) and from the decoder whether a read is a record or a protocol error (`garbage`). The end
of the application is an action of each.

## 2. The models

### 2.1 The agent session

The first four components are modelled as one system, in these modules.

- **`AgentState`**: the joint state as one record, `AppState`, because the four objects run on
  one thread and call each other synchronously; the domains of its fields; the `can_...`
  predicates.
- **`AgentHandlers`**: every handler and operation as an operator from a record to a record,
  innermost callback first. Nesting of operators is nesting of calls, so the order of side
  effects is the order in the code: `ClientTransportError` drops the requests, sets the turn
  (which calls the controller, which clears a warning and calls the coordinator), and only then
  fails the connection.
- **`AgentSession`**: the variables `app`, `pi`, `expired`, `connects`; one action per click,
  timer, process signal and message of Pi; the specification, the fairness and the properties.
- **`SessionContract`**: what the user is promised, in three variables.
- **`MCAgentSession`**: the disturbances each instance allows.
- **`AgentHandlersProofs`, `AgentRequestsProofs`, `AgentSessionProofs`**: the theorems; one lemma
  per handler about the link, one about the requests and messages, and the steps.

#### State and code

| Field of `app` | In the code |
|---|---|
| `connection`, `client`, `session_ready`, `requested`, `recovery_attempted`, `requires_reconciliation`, `inactivity_warning`, `last_error`, `disconnect_requested`, `messages`, `prompt_requests`, `active_user`, `active_assistant` | attributes of `AgentController`; an optional object is "there or not", a message is its role and delivery state, an index 0 is None |
| `saved`, `workspace`, `profile` | `settings.last_session_id`, the workspace, whether a profile is selected |
| `turn` | `AgentClient._turn_state`, which the controller mirrors in the same call |
| `pending`, `deadlines`, `watch`, `auto_retry` | `AgentClient`: pending requests, armed request deadlines, armed inactivity deadline, retry flag |
| `transport`, `startup_timer`, `shutdown_timer`, `process`, `signal`, `open` | the transport, its timers, the `QProcess`, the strongest signal it was sent, whether stdin still reaches Pi |
| `log`, `inbox` | commands written to this process, in order, and those Pi has not handled; a request's id is its position in `log` |
| `quit`, `watchdog`, `forced` | the close coordinator; `exited` is the end of the event loop |

`pi` is what the controller relies on: the phase of Pi's turn, whether it waits to retry, the
session it has open and whether that ends in a failed turn. `expired` (the requests whose
deadline passed) exists for the properties only.

| Actions | Code |
|---|---|
| `ChooseWorkspace`, `RescanProfiles`, `Connect`, `ConnectRaises`, `Disconnect`, `Prompt`, `Stop` | slots of `AgentAdapter` and the controller method each calls |
| `CloseWindow`, `Quit`, `Watchdog` | `lastWindowClosed`, `aboutToQuit` in `main.py`; the coordinator's timer |
| `StartupTimeout`, `ShutdownTimeout`, `RequestTimeout`, `InactivityTimeout` | the single-shot timers of transport and client |
| `ProcessStarts`, `SpawnFails`, `ProcessExits`, `ProcessCrashes`, `ChannelError`, `Garbage` | `started`; `errorOccurred`; `finished`; undecodable stdout |
| `PiAnswers`, `PiSilent`, `PiEmits` | a response, a response that never comes, an event |

#### Abstractions

- Wording, texts, diagnostics and the list of profiles are left out; a profile is selected or
  not, and "no workspace chosen yet" is an instance of "no profile".
- Answers carry what the callbacks branch on: success with well-formed data, the session id, how
  the last user turn of the history ended, whether the settings can be saved and whether the next
  write succeeds. The message list after a reload keeps its last user turn only.
- The two `get_state` commands are named apart (`get_state`, `get_recovered_state`): the callback
  of a request is then a function of its command.
- `select_profile` and `_on_diagnostic` (a line on stderr) change texts and announce an unchanged
  connection. That is a stutter here: `StateChanged` changes nothing while `ClosingWaitsForStop`
  holds, and that is proved.
- `steer` and `follow_up` have no caller in the application and are left out.
- Pi's output is produced when it is delivered. Since commands wait in `inbox` as long as Pi
  likes, every order of its records with clicks, timers and signals is still there. An exception
  in the handler of one record drops the rest of the chunk in the code: a lost response is
  `PiSilent`, a lost event is not modelled.
- A close request is made once; after `CloseWindow` the user does nothing more.
- Pi, `QProcess` and the operating system are outside the repository. Their part of the map is
  marked external and follows from what the code does with them: FailedToStart comes without
  `finished`, a crash is reported by both signals, a killed process reports too.

#### Disturbances

The constant `Disturbances` names what may go wrong: `reject` (negative answer), `silent` (no
answer), `mismatch` (Pi opens another session), `failed_tail` (the history ends in a failed
turn), `store` (settings cannot be saved), `write` (stdin write raises), `prepare` (runtime
directories fail), `spawn`, `exit`, `channel`, `garbage`, `retry`, `model_error`, `extension`,
`deadline`, `inactivity`. The theorems hold for every subset of them; the TLC instances pick
those that interact with their question.

### 2.2 Preflight, sandbox gate and their probe runners

`ProbeRunner` is `QtProbeRunner` as a record with one operator per slot; a slot returns the runner,
the results it handed to its owner and whether it called the finished handler. `Preflight` and
`SandboxGate` are the controllers over it, `Diagnostics` puts them side by side with the end of
the application. A controller makes a new runner for each run and the old one may still receive
the signals of its process, so that `runners` is the sequence of all that were made.

| In the model | In the code |
|---|---|
| `queue`, `probe`, `process`, `timer`, `timed_out`, `reported`, `cancelled` | attributes of `QtProbeRunner` |
| `handler` | the run its callbacks were made for; 0 after `cancel()` replaced them |
| `os`, `killed` | the process, which outlives the attribute; whether it was sent SIGKILL |
| `preflight.generation`, `runner`, `running`, `checks`, `required`, `manifest`, `status` | attributes of `PreflightController`; `Plan(host)` is `PreflightPlanner.build` |
| `gate.plan`, `agent_dir_created`, `verdict`; `disk` | the plan held, the flag in it, the one row; the directories it made |
| `Start` .. `Cancel`, `ProcessCrashes` | the slots; a crash is announced by `errorOccurred` and by `finished` |

- `QProcess.start()` may report FailedToStart before it returns; the slot then goes on with the
  next probe inside the call. `failing` counts the probes of a queue that end that way.
- A host is the outcome of each test the planner makes. `confinement-runtime` is planned PENDING
  and no probe answers it: the statuses `passed` and `warnings` exist in the code and here and are
  never reached.
- `stdout` of the gate's process is what `parse_result` tells apart: one JSON object or not, and a
  list of ids with `passed`, known or not, Boolean or not, repeated or missing.
- `cancel()` sends SIGKILL, does not wait, and removes the scratch directory with
  `rmtree(ignore_errors=True)`: a process that is not dead yet may create a file meanwhile and the
  directory stays. That is `raced`, and `GateCleansUp` excepts exactly these runs.
- Not in the model: the end of the application by a crash, which leaves `.m0-gate-*` behind;
  the second cancel, at `aboutToQuit`, which changes nothing; the QObject of each old
  runner, which stays a child of its controller; an exception in `parse_result`, after which the
  UI is not told. The gate may run in FAILED with a live Pi, and Connect is not blocked while it
  runs: `PiWritesFiles` makes Pi's files appear at any time.

### 2.3 The workspace browser and the document preview

`LoadRunner` is the two worker pools, which differ in the function they call. A task is queued,
running, about to emit (the thread has found its cancel token clear), posted to the GUI thread, or
dead (its function raised; nothing is emitted and its callback stays registered). Each is a step
of its own, so that a cancel falls between the test of the token and the emit, and between the
emit and the delivery.

| In the model | In the code |
|---|---|
| `tree.root`, `items`, `pending` | `_root`, the flat list of visible rows, `_pending` of `WorkspaceBrowserController`; a path is the sequence of its names, `<<>>` the root |
| `preview.root`, `selected`, `state`, `text`, `pending` | attributes of `WorkspaceDocumentController` |
| `tasks[i].callback`, `.token`; `next`; `closed` | `_callbacks` with `_cancel_tokens`; the counter of request ids; shut down |
| `items[k].of`, `text.root`, `text.path`, `text.file` | no variable: where the row or text came from, for the properties |
| `ChooseWorkspace` .. `CloseWindow` | slots; `stateChanged` of the agent controller; `lastWindowClosed` |
| `ScanStep`, `LoadStep`, `ScanRaises`, `LoadRaises`; `ScanFinished`, `LoadFinished` | the threads; the queued signals |

- `load_document_preview` looks at the file three times (lstat, fstat of what it opened, the
  bytes); `LoadDocumentPreview` takes three independent files.
- `scan_directory` sorts directories before leaves. Sizes, times and the hidden flag are left out.
- `expanded` stays TRUE on a row whose scan was cancelled: the tree then shows an open directory
  without rows. `TreeContract` allows it (`Stop`).
- `submit()` raises after shutdown and both controllers handle it; no order of calls gets there.

### 2.4 Settings and models.json

`AtomicFile` is the file system: what a program reads (`now`), what is certain after a power loss
(`safe`) and which files have a name but no synced bytes (`unsynced`). A write is the job of the
one process: written to the temporary file, synced, renamed, directory synced. `Persistence` runs
`load`, the quarantine of an invalid text, `save` and the write of `models.json` with its
ownership marker one file operation at a time, and between any two of them the process may be
killed, the power may go (each directory comes back as it was synced or as it was), the operation
may fail or another program may write the same file.

| In the model | In the code |
|---|---|
| `app.phase`, `memory`, `workspace`, `seen`, `want` | where `main()` is; `_settings`; the workspace; `_existing_config`; the argument of `save` |
| `app.job` | the write in progress of `atomic_write_text` |
| `Load`, `Valid`, `Migrate`, `Render` | `SettingsStore.load`, `_parse_settings`, the serialisation |
| `Inspect`, `SafeToReplace`, `ExistingUsable`, `Payload`, `MarkerOf` | `inspect`, `_assert_safe_to_replace`, `prepare_existing`, `build_payload`, the marker |
| `hist` | nothing: what the properties remember |

- A content stands for its own SHA-256; a text of settings for its form, schema and three fields.
- `mkdir` is taken to be durable. Temporary files that a crash leaves are not modelled: nothing
  reads them. A `RecursionError` or a `ValueError` of a huge number in `load` is not caught by the
  code and is not a text here.
- `cut`: a crash between the rename of models.json and its marker, during an *update*, leaves a
  marker of older contents, and both ways of connecting refuse. `LaunchPossible` excepts these
  workspaces by name; it is listed as a hazard. `raced`: no lock is held between the check and the
  rename.
- The code's failure of the directory sync after the rename raises although the new file is in
  place; `WriteFails` does that at step `replaced`.

### 2.5 What Pi sends

`JsonlDecoder` feeds the decoder every byte stream in every cut into reads. Bytes are classes: part
of an object, undecodable, one on which `json.loads` raises something the code does not catch, CR
and LF. `SessionBranch` is a session tree to which Pi appends and moves the leaf, which may be
damaged, and which the code reads twice: as a message history (`HistoryShowsFailure`) and as a walk
from the leaf (`TrailingFailedUserEntryId`). The two share no state; `MCRpcData` checks a
behaviour of one or the other.

- A read that raises loses the records decoded before in the same read, and a read that escapes
  leaves the transport READY with the rest of the buffer waiting. Both end `intact`; what the
  property says then is why it raised.
- A record of exactly the maximal size that ends in CR LF is refused if the read ends between
  the two: the limit is tested on the buffer, CR included. The last conjunct of
  `DecoderKeepsFrames` is worded for it.
- A user message without text is left out of the history and is an entry of the branch; the two
  readings disagree there (`blank`), and the property excepts it. After a fork, an earlier
  failed turn on the same branch makes the second check refuse.

## 3. What TLC checks

| Run | Instance | Properties | Distinct states |
|---|---|---|---|
| `lifecycle` | 2 workspaces x 2 sessions, 2 connections, no prompt, all failures of start, store, recovery and process | `TypeOK`, `NoOrphanProcess`, `ReadyMeansOwnSession`, `SavedSessionOfWorkspace`, `RecoveryRunsOnce`, `ClosingWaitsForStop`, `ExitSignalsProcess`, `ReadyOnCleanBranch` | 82 000 |
| `turns` | 1 connection, 2 prompts, 1 stop, 3 messages; answers late, negative, lost, after their deadline | `DeadlinesFollowRequests`, `PromptsNameTheirMessage`, `AbortFollowsClearQueue`, `UnknownOutcomeBlocksPrompts`, `UncertainIsFinal`, `KeepsContract` | 582 000 |
| `retries` | 1 connection, 1 prompt, 1 stop; retries, model errors, silence, exit | `OpenMessagesAreTracked`, `KeepsContract` | 88 000 |
| `settles` | `FairSpec`, 1 connection, 1 prompt, 1 stop | `ClosingFinishes`, `SignalledProcessEnds`, `StoppingSettles` | 10 000 |
| `diagnostics` | `FairSpec`, 3 hosts (two probes; an optional Bubblewrap and a Node probe; none), 2 runs each, 6 outputs of the gate | `TypeOK`, `RunsAreDriven`, `NoOrphanProbe`, `TimerOfLiveProbe`, `GateCleansUp`, `VerdictIsProved`, `PreflightKeepsContract`, `GateKeepsContract`, `RunsEnd` | 21 000 |
| `browser` | `FairSpec`, 2 workspaces, 2 names, depth 2, 2 threads per pool, 4 requests | `TypeOK`, `TreeWellFormed`, `LoadingIsPending`, `ShowsItsWorkspace`, `TreeKeepsContract`, `LoadsEnd` | 162 000 |
| `persistence` | 1 workspace, 2 sessions, 2 models and a foreign one, 2 edits by others, 2 crashes, 1 failing operation | `TypeOK`, `SettingsSurvive`, `LaunchPossible`, `ForeignModelsKept` | 388 000 |
| `rpcdata` | streams of 6 bytes in reads of up to 3 with a limit of 2; sessions of 4 entries, up to 3 of them in a damaged file | `DecoderKeepsFrames`, `RecoveryFindsTheFailedTurn` | 398 000 |
| `late_quit`, `stale_abort`, `stuck_stopping`, `silent_exit` | smallest instance that shows each divergence of section 5 | one each, violated | |

Deadlock is checked in the session runs, where the only place to stop is `Exited`, and in
`diagnostics`, where it is `Quiet`. The other three stop where the system does: `browser` once the
window is closed and the threads have ended, `persistence` once the bounds of crashes and edits
are used and the program cannot start (an unreadable text), `rpcdata` once the process has ended.

What each of the four later runs shows, beyond the names: in `diagnostics`, that no order of
started, failed, crashed, finished, timeout, cancel and a new run loses a process, strikes the next
probe with the timer of the last, answers a later run or leaves a directory; in `browser`, that
an answer delivered after a collapse, a reopening, a refresh or another workspace is dropped and the
flat list stays a tree; in `persistence`, that a power loss at any operation leaves a whole text
that somebody wrote; in `rpcdata`, that records arrive whole and in order however they are cut, and
that the turn a recovery forks is the one that failed.

**Bounds.** In the session, `MaxConnects`, `MaxPrompts`, `MaxStops` (commands written per connection) and
`MaxMessages` (messages after which Pi's output grows no further) guard the user's and Pi's
actions and nothing else; no handler knows them. Two connections are what it takes for the
state of one to reach the next; two sessions per workspace tell the requested session from
another one and a fork from its origin; two workspaces let a session belong to the wrong one. Two prompts and
one stop give every order of two requests of the same kind and of the three turn commands; three
messages are two prompts and a reply. No handler compares more than one request or message with
the one it was called for, so a third would repeat one of the two roles.

In `diagnostics`, two runs are what it takes for a late signal to meet a newer run, and two probes
for one to meet the next; `Overlap = FALSE` keeps a behaviour from using both controllers, which
share no state (the theorems hold for either value). In `browser`, four requests are two of one
pool and two of the other or four of one: more than the threads of a pool, so that one
waits; depth 2 makes a directory inside a directory. In `persistence`, two crashes let one fall
into the repair of another. In `rpcdata`, a limit of 2 with six bytes puts the limit before, at
and after every boundary of frame and read; four entries make a fork with a turn on each side.

**Fairness** (`FairSpec`, in the session only for `settles` and `stuck_stopping`). The operating system reports
the outcome of a spawn (`ProcessStarts \/ SpawnFails`); a process that was sent SIGKILL ends
(`KilledProcessEnds`); the shutdown timer and the watchdog fire once armed: both are single-shot
`QTimer`s on a live event loop. Nothing is asked of Pi, of the user, of the request deadlines or
of a process that was merely asked to terminate. The liveness run leaves out `spawn`, where
`StoppingSettles` is false (section 5), and `channel`: an I/O error between a late `started` and
the kill runs `_fail(kill=False)`, which stops the shutdown timer, so that a process ignoring
SIGTERM survives until the next Disconnect; that hazard is listed with this note.

In `diagnostics` the operating system reports the outcome of a spawn, an armed timer fires and a
killed process ends; a probe that hangs is not asked to end, the timeout ends it. In `browser` the
threads of the pools run and the event loop delivers what is queued; nothing is asked of the user.
`LoadsEnd` excepts a task whose function raised: nothing is emitted then and the row or the preview
stays LOADING, which is listed as a hazard.

**Mutants.** Definitions named `<Handler>_<Fault>` beside the handlers are plausible faults (a
missing reset, a stale index, a forgotten notification). Each property of a passing run is
violated when the mutant listed for it replaces its handler.

### The contracts

`SessionContract` has three variables: `link` (down, opening, ready, closing), `blocked` (the
outcome of a command is unknown) and `prompts`. It says that a connection becomes ready only
while opening and never after it failed or was asked to stop, that prompts are written one at a
time on a ready, unblocked link, and that only a new connection lifts the block. `KeepsContract`
is the refinement: `link` is `opening` while the connection is starting or loading *and* its
process was not told to end. That condition is the substance of it: the code does go from
stopping back to loading when `started` arrives late, and what keeps it from becoming ready then
is that nothing it writes reaches Pi any more.

`ProbeContract` has the phase of a diagnostic run, the rows whose answer is awaited and what
each row shows: an open row is answered once, a run is over when none is open, nothing changes
afterwards. Both controllers implement it. `TreeContract` knows neither rows nor requests nor
threads: it maps each open directory to the entries it shows, or that it loads. An answer may be
shown only where the directory is still loading, what is closed takes everything below it along,
and the flat list with its insertions, removals and late answers implements it.

## 4. What is proved

Each theorem holds for every value of the constants that satisfies the named assumptions, with
no bound on the number of runs, crashes or messages beyond those the constants set. Each inductive
invariant was evaluated by TLC on the instances of section 3 before it was proved.

### 4.1 The agent session

`AgentSessionProofs` proves, for every set of workspaces and sessions, every set of disturbances
and every bound, from `SessionAssumption` and `BoundsAssumption` alone:

| Theorem | Statement |
|---|---|
| `Invariance` | `Spec => []IInv` |
| `TypeCorrect` | `Spec => []TypeOK` |
| `NoOrphans` | `Spec => []NoOrphanProcess` |
| `DeadlinesPaired` | `Spec => []DeadlinesFollowRequests` |
| `ClosingWaits` | `Spec => []ClosingWaitsForStop` |
| `ExitSignals` | `Spec => []ExitSignalsProcess` |
| `SessionOfWorkspace` | `Spec => []SavedSessionOfWorkspace` |
| `RequestsInvariance` | `Spec => []TInv` |
| `ReadySession` | `Spec => []ReadyMeansOwnSession` |
| `RecoveryOnce` | `Spec => []RecoveryRunsOnce` |
| `PromptsNamed` | `Spec => []PromptsNameTheirMessage` |
| `MessagesTracked` | `Spec => []OpenMessagesAreTracked` |
| `AbortsFollow` | `Spec => []AbortFollowsClearQueue` |
| `CleanBranch` | `Spec => ReadyOnCleanBranch` |
| `UnknownBlocks` | `Spec => UnknownOutcomeBlocksPrompts` |
| `UncertainStays` | `Spec => UncertainIsFinal` |
| `SessionRefinesContract` | `Spec => KeepsContract` |

So every safety property the passing runs check of the session is a theorem.

**The invariant of the link.** None of these properties is inductive alone. `Sound(app)` puts
together what the handlers need from each other:

- `Detached`: without a client the process is gone, the transport STOPPED, nothing pending, and
  the connection disconnected or failed. The last part is needed because a close request tests
  the connection state, not the client.
- with a client the transport is not STOPPED: `_set_state` ignores a change to the same state, so
  a second STOPPED would never reach the controller and the client would stay for ever.
- `Paired`: deadlines equal pending requests, requests wait only on a READY transport, the
  inactivity timer runs only in a busy turn. READY states that every
  path by which the transport leaves READY drops the requests first.
- `Waiting`: an active close request means a stopping connection with a client, since every
  other change of the connection completes it.

`IInv` adds the type of the other variables and three facts that relate them: `PiOfWorkspace` (a running
process has a session of the chosen workspace open, which makes the saved session one of that
workspace after `get_state`), `ExitSignalsProcess` and `SavedSessionOfWorkspace`; and that an
active close request has its watchdog armed.

**The argument.** `AgentHandlersProofs` has one lemma per handler, `<Handler>Sound`, in the order
of the call graph: from a record that is `Sound` the handler makes one that is `Sound`, and it
`Keeps` what no callback may touch (workspace, saved session, process; a client may be lost and
a close request released, never the reverse). Handlers compose because `Keeps` is transitive.
Two complications shape the file. Some handlers call others from a record in which `Waiting` is
broken, between the change of the connection and the `stateChanged` that announces it: they get
a second lemma from `Coherent`, which is `Sound` without `Waiting`. And the answers to
`get_state` do change the saved session: `KeepsWith(a, b, s)` is `Keeps` except that the saved
session may become `s`. `AgentSessionProofs` then has one lemma per group of actions and one
step per action: the handler's lemma, plus what the action itself changes.

**The invariant of the requests.** The first seven theorems follow from `Sound`; the others are
about what is under way between the application and Pi, and need to know at every moment which
answers can still come and what they would mean. `Talk(app)` says it of the application:

- `Hydrates`: the set-up of a connection is a chain of single requests. At most one of its
  requests waits, only while the session is loading, and no turn command was written by then.
  This is why an answer of the set-up never meets a turn, and why what a late `started` writes
  to a closed pipe (`~open`: pending and inbox are disjoint) is never answered.
- `Recovers`: `get_entries` and `fork` are written once, in this order, and the second only when
  the first was answered; `recovery_attempted` remembers the first.
- `Chat`: `Named` and `Tracked` are the properties; `Closed`, which nobody would check for its own
  sake, makes them and `UncertainIsFinal` inductive: an uncertain message belongs to the user, is
  not the one under way, and no unanswered prompt names it.

`TInv` adds what relates the application to Pi and to time. `Opens`: from the reply that
names the session until ready, the saved session is the one Pi has open, and no fork is left in
Pi's pipe that could still open another; so a late answer to a fork cannot come between. `PiIdle`:
Pi is in no turn before a turn command was written, so that no event can end a connection that
loads. `Expiry` and `Blocked`: a deadline passes once, for a request that waits no more, and an
expired turn command keeps the composer closed. `AbortFollowsClearQueue` is inductive beside these.

**The argument for it.** `AgentRequestsProofs` says of each handler, from the single assignment
up the call graph, which of a few things it does. `Gentle(a, b)`: it writes nothing, only gives
requests up, lets no connection become ready or start anew, and keeps the messages in order.
`Writes(a, b, c, m)`: it writes the one command `c`. `Ends`, `BecomesReady` and
`SetUpOutcome`: what a callback of the set-up comes to. `GentleTalk`, `WritesTalk` and `ReadyTalk` turn
each into `Talk(a) => Talk(b)`. `AgentSessionProofs` then sorts the steps of `Next` into eight kinds
(`EveryStepIsAKind`), shows that every kind preserves each part of `TInv` (`TalkStep`, `OpensStep`,
`PiIdleStep`, `DeadlineStep`, `AbortsStep`), and reads the action properties and the steps of
`SessionContract` off the kinds (`ReadyStep`, `PromptStep`, `KindKeepsContract`).

`IInv` and the parts of `TInv` were evaluated by TLC before they were proved, `IInv` on the
instances of `lifecycle`, `turns` and `retries`, `TInv` on one with every disturbance allowed at once
(873 000 states).

### 4.2 Diagnostics

`DiagnosticsProofs`, from `ProbeAssumption`, `PreflightAssumption`, `GateAssumption` and
`OverlapAssumption`:

| Theorem | Statement |
|---|---|
| `Invariance` | `Spec => []IInv` |
| `TypeCorrect` | `Spec => []TypeOK` |
| `RunsDriven` | `Spec => []RunsAreDriven` |
| `NoOrphans` | `Spec => []NoOrphanProbe` |
| `TimerOfLive` | `Spec => []TimerOfLiveProbe` |
| `CleansUp` | `Spec => []GateCleansUp` |
| `VerdictProved` | `Spec => []VerdictIsProved` |
| `RowsAwaited` | `Spec => []Waits` |
| `PreflightImplements` | `Spec => PreflightKeepsContract` |
| `GateImplements` | `Spec => GateKeepsContract` |

**The invariant** is about all runners ever made, not only the one in use. `RunnerSound` says of
each that a process it holds is alive and not yet reported, that a process alive without being
held was cancelled and killed, and that its timer is armed only while the process it holds runs. `Owned(controller, runners)` says that only the runner the controller
holds has a process, and that its callbacks carry the number of the run in progress; the old ones
have none, so that whatever they signal is `Silent`. `GateSound` adds that a plan is held exactly
while the gate runs and that its directories are those of that plan; `DiskClean` names the
directories that may remain; `Proves` ties the verdict to its evidence. `HasRoom` is there for
`CloseWindow`, which takes one more generation: the guards of the other actions leave room for it.

**The lemmas.** `ProbeRunnerProofs` proves of each slot that it `Accepts`: it keeps
`RunnerSound`, and it tells its owner that the run is over exactly when it gives up its process.
`OwnedAfterSlot` carries that to the controllers, for which
`DiagnosticsControllersProofs` has one lemma per action.

**The refinements.** For the gate every step is a start, a conclusion (`Concluded`), a stop or
nothing that shows. Preflight needs more: that its open rows and the probes its runner still awaits
are the same set (`Waits`). Otherwise a run could end with a row open or go on with none. `Answers`
says of each slot that the probes it reports and those it still awaits are a partition of what it
awaited before, including the probes that fail inside `start()`; `PlanOpens` that the planner
leaves open the rows of the probes it plans, each planned once; `ToldRows` that a reply changes the
rows it reports and no other. With these every step `AnswersSome` rows, or none, and the run ends
with the last.

### 4.3 Settings and models.json

`PersistenceProofs`, from `PersistenceAssumption` (`Config` is no workspace; the texts others
may write are texts):

| Theorem | Statement |
|---|---|
| `TypeCorrect` | `Spec => []TypeOK` |
| `SettingsSafe` | `Spec => []SettingsSurvive` |
| `ForeignKept` | `Spec => ForeignModelsKept` |
| `CanLaunch` | `Spec => []LaunchPossible` |

`SettingsSurvive` speaks of a power loss that has not happened yet, so that `Sound` has to follow
both views of the disk. `TextsKnown`: they differ only by what the program itself wrote, which is
valid, or by a quarantine, which leaves no file; and whatever either shows is a text somebody
saved or edited. `JobKnown`: a write in progress belongs to a program that has loaded, and its
text is the wanted settings. `FoundKept`: a text that `load()` refused is in quarantine, in both
views or still in place, before the program writes. `MemoryKnown`: unless others wrote since, what
the program holds is what a restart would load. `CheckHolds`: between the check of
`_assert_safe_to_replace` and the rename, a `models.json` that nobody else touched still passes
it. `DiskSound`, `AppSound` and `HistSound` fix the shape of the three records.

`LaunchPossible` looks at the one state in which the program is idle, and is not inductive:
`models.json` and its marker are two files, renewed one after the other. `ModelsKnown` is what is
added. A workspace that nobody else wrote to, and in which no update was cut short, holds in both
views of the disk what Pi_UI owns (`Owned`): nothing, or a `models.json` of one model whose marker
is its own or not written yet. From the rename of `models.json` to the end of its marker
(`Renews`) the views may show a new file with an old marker; then `RenewalKnown` says which of
the two texts each view already has. `ModelsEnd` is the step that matters: if a crash, a power
loss or a failing operation ends the renewal and does not count as cut (`CutsUpdate`), no view
has a marker of other contents, so that either view is `Owned` again. `OwnedUsable` then says that
`inspect()` and `_assert_safe_to_replace`, which compare differently, agree on such a workspace.

### 4.4 The browser and the preview

`WorkspaceProofs`, from `LoadAssumption`, `TreeAssumption`, `PreviewAssumption` and
`WorkspaceAssumption`: contents name known kinds, no workspace is "no workspace", and a set of names
sorted is a list of these names, none twice. The last is the one fact here about a library
function, evaluated by TLC on the instance.

| Theorem | Statement |
|---|---|
| `Invariant` | `Spec => []IInv` |
| `TypeCorrect` | `Spec => []TypeOK` |
| `ShowsOwn` | `Spec => []ShowsItsWorkspace` |
| `Awaiting` | `Spec => []RequestsAwaited` |
| `WellFormed` | `Spec => []TreeWellFormed` |
| `LoadsArePending` | `Spec => []LoadingIsPending` |
| `TreeRefinesContract` | `Spec => TreeKeepsContract` |

So every safety property of the `browser` run is a theorem.

**The invariant of the requests** ties each controller to the tasks of its runner. `LoadSound` is
the shape of a runner: ids below its counter, so that no id is used twice, and tasks of one kind.
`Awaited`: a request is a task that has its callback, is not cancelled, and is for a given root and
path. `PreviewSound` and `TreeSound` say that each pending request is awaited for the root and the
path its owner shows. So the answer that is taken is for them, and every other is dropped. The
lemmas on the runner say of each of its slots what becomes of `Awaited`; they serve both
runners, whose tasks differ in `ScanTasks` and `LoadTasks` only. `ResultsShown` covers the three
looks at a file that may change between them. `PreviewWaits` adds that the preview is LOADING only
while it waits, for which `Answers` has to know that a load on its way to the GUI thread with its
callback there is the one that is pending.

**The invariant of the rows.** `Ordered` says of the flat list what the code relies on without
testing it. `Preorder`: a path comes before the paths below it; whatever lies between a row and
a row below it is below it too; and a row that is not at the top has its directory in the list,
expanded and *not loading*. `Flags`: a row loads exactly while its path is pending, and is expanded
then; the root waits only while there are no rows. The words "not loading" make it inductive: they
give `Childless` (a directory that waits for its answer has no rows below it), and that is why
an answer can be inserted after its row, and a failed scan can close it, without leaving rows of
an earlier listing behind. `BelowAre`: the rows `_collapse` finds by comparing depths
are the rows whose path has the prefix. `CollapsedPlaces` and `FilledPlaces` say where each row of a
shortened or a filled list comes from, and spare the other proofs `SubSeq` and `\o`.

**The argument.** `NextSound` proves the invariant and, of each step, that the rows make a
`TreeMove`: nothing, a fresh tree, one row opened or collapsed, one answer taken, or the end.
`MoveOrdered` is the induction over these five. For the refinement, `Replaced` describes a move as
one row changed, some gone and some added; `ReplacedShows` reads off what is open then and what it
shows, and `OpensStep`, `ClosedStep`, `FilledStep`, `RootStep` and `StopsStep` find the step of
`TreeContract`. A failed scan is a `Close`, or a `Listed` without entries at the root.

### 4.5 Only model-checked

- `rpcdata`: `TrailingFailedUserEntryId` walks a tree, and what such a walk returns for every
  tree needs induction over data, which the installed provers cannot use.
- All liveness (`ClosingFinishes`, `SignalledProcessEnds`, `StoppingSettles`, `RunsEnd`,
  `LoadsEnd`) and ENABLED, which are out of the prover's reach.

## 5. Where code and documents disagree

1. `late_quit`: `app_shutdown.py:11` says the application finishes only after the Pi process has
   settled. `notify_state_changed` completes on any state but STOPPING, and the controller leaves
   STOPPING while the process is alive: a late `started` sets LOADING_SESSION, a terminal event
   sets FAILED. The application then quits without waiting for the kill.
2. `stale_abort`: `request_stop` writes `clear_queue` and, when that is answered, `abort`. If the
   turn settles in between and the user sends a new prompt, the abort stops the new turn.
3. `stuck_stopping`: Disconnect while the process is starting, then FailedToStart: the error is
   ignored in STOPPING, there is no `finished`, and the kill timer finds nothing to kill. The
   controller stays in STOPPING, where neither Connect nor Disconnect is possible.
4. `silent_exit`: `docs/VALIDATION.md` (E12) wants a visible error when Pi ends half-way; a
   process that exits with status 0 during a turn is taken for an orderly stop.

## 6. State of the plan

| Part | State |
|---|---|
| agent session: model, contract, four divergences; all its safety properties and the refinement as theorems | done |
| preflight, gate, probe runner: model, contract, liveness, theorems and both refinements | done |
| browser and preview: model with its threads, contract of the tree, liveness; all safety properties and the refinement as theorems | done |
| settings and models.json: model with crash, power loss, failures and other writers; theorems | done |
| decoder and recovery of the fork point against reference definitions | done |

## 7. Not modelled

- **Text projection** (`ui/text_projection.py`): maps characters and counts them against limits.
  A faithful model would repeat it character by character, and no state depends on it.
- **Model import** (`core/agent/model_import.py`): a conversion of one JSON file that the
  application does not call.
- **Sandbox policy** (`core/sandbox.py`): tests of paths and the argument list of Bubblewrap, a
  pure function; its outcome is the field `policy` of a host in `Preflight`.
- **Agent adapter** (partly modelled): its slots are the user's actions of `AgentSession`; the
  text of the composer and of the last operation error is presentation.
- **Qt models, the other adapters, QML**: they republish what the controllers hold.
- Inside the modelled components: wording, diagnostics, sizes and times, and what each section
  under 2 names.
