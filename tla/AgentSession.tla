---------------------------- MODULE AgentSession ----------------------------
(***************************************************************************)
(* One agent session: the application of module AgentHandlers, the user    *)
(* who drives it, the QProcess it owns, and Pi at the other end of the     *)
(* process's pipes.                                                        *)
(*                                                                         *)
(* Pi is not part of this repository.  It is modelled by what the          *)
(* controller relies on: it handles a written command at any later time or *)
(* never, runs one turn at a time, and may do any of `Disturbances`.  Its  *)
(* output is produced when it is delivered: commands wait in `inbox` for   *)
(* as long as Pi likes, so every order of its records with the user's      *)
(* operations, the timers and the process's signals is still there.        *)
(***************************************************************************)
EXTENDS AgentHandlers

CONSTANTS
    Disturbances,     \* what may go wrong in this instance
    MaxConnects,      \* bound on successful connect_agent calls
    MaxPrompts,       \* bound on prompts written per connection
    MaxStops,         \* bound on clear_queue commands written per connection
    MaxMessages       \* bound on the chat messages Pi's output grows

Disturbance ==
    {"reject", "silent", "mismatch", "failed_tail", "store", "write",
     "prepare", "spawn", "exit", "channel", "garbage", "retry", "model_error",
     "extension", "deadline", "inactivity"}

ASSUME BoundsAssumption ==
    /\ Disturbances \subseteq Disturbance
    /\ {MaxConnects, MaxPrompts, MaxStops, MaxMessages} \subseteq Nat

VARIABLES
    app,        \* the application
    pi,         \* Pi
    expired,    \* history: requests of this connection whose deadline passed
    connects    \* number of processes started so far

vars == <<app, pi, expired, connects>>

\* A Pi process: where its turn stands, whether it waits to retry a model
\* request, the session it has open and whether that ends in a failed turn
PiState == [phase : {"idle", "accepted", "running", "ended"},
            retrying : BOOLEAN, session : SessionId \cup {NoSession}, failed : BOOLEAN]

NoPi == [phase |-> "idle", retrying |-> FALSE, session |-> NoSession, failed |-> FALSE]

May(d) == d \in Disturbances

\* Outcomes of a step that fails only under disturbance d
Succeeds(d) == {TRUE} \cup (IF May(d) THEN {FALSE} ELSE {})

Init ==
    /\ app \in {InitialApp(w, s, p) :
                    w \in Workspaces, s \in SessionId \cup {NoSession}, p \in BOOLEAN}
    /\ app.saved # NoSession => app.saved[1] = app.workspace
    /\ pi = NoPi
    /\ expired = {}
    /\ connects = 0

-----------------------------------------------------------------------------
\* The user.  Once the last window is closed there is no one to act.

UserActs == app.quit = "idle"

ChooseWorkspace ==
    /\ UserActs
    /\ ~app.client
    /\ \E w \in Workspaces, p \in BOOLEAN : app' = SetWorkspace(app, w, p)
    /\ UNCHANGED <<pi, expired, connects>>

RescanProfiles ==
    /\ UserActs
    /\ ~app.client
    /\ \E p \in BOOLEAN : app' = RefreshProfiles(app, p)
    /\ UNCHANGED <<pi, expired, connects>>

Connect ==
    /\ UserActs
    /\ CanConnect(app)
    /\ connects < MaxConnects
    /\ app' = ConnectAgent(app)
    /\ connects' = connects + 1
    /\ expired' = {}
    /\ \E s \in SessionId, f \in Succeeds("failed_tail") :
          /\ s[1] = app.workspace
          /\ s = app.saved \/ app.saved = NoSession \/ May("mismatch")
          /\ pi' = [NoPi EXCEPT !.session = s,
                                !.failed = ~f /\ app.saved # NoSession]

ConnectRaises ==
    /\ UserActs
    /\ CanConnect(app)
    /\ May("prepare")
    /\ \E turn \in {app.turn, "idle"} : app' = ConnectFails(app, turn)
    /\ UNCHANGED <<pi, expired, connects>>

Disconnect ==
    /\ UserActs
    /\ app.client
    /\ app' = DisconnectAgent(app)
    /\ UNCHANGED <<pi, expired, connects>>

Prompt ==
    /\ UserActs
    /\ CanSend(app)
    /\ Cardinality(Written(app, "prompt")) < MaxPrompts
    /\ Len(app.messages) < MaxMessages
    /\ \E written \in Succeeds("write") : app' = SendMessage(app, written)
    /\ UNCHANGED <<pi, expired, connects>>

Stop ==
    /\ UserActs
    /\ CanStop(app)
    /\ Cardinality(Written(app, "clear_queue")) < MaxStops
    /\ \E written \in Succeeds("write") : app' = RequestStop(app, written)
    /\ UNCHANGED <<pi, expired, connects>>

CloseWindow ==
    /\ UserActs
    /\ app' = RequestShutdown(app)
    /\ UNCHANGED <<pi, expired, connects>>

-----------------------------------------------------------------------------
\* Qt: timers and the signals of the process

Running == app.quit # "exited"

StartupTimeout ==
    /\ Running
    /\ app.startup_timer
    /\ app' = OnStartupTimeout(app)
    /\ UNCHANGED <<pi, expired, connects>>

ShutdownTimeout ==
    /\ Running
    /\ app.shutdown_timer
    /\ app' = OnShutdownTimeout(app)
    /\ UNCHANGED <<pi, expired, connects>>

RequestTimeout ==
    /\ Running
    /\ May("deadline")
    /\ \E id \in app.deadlines :
          /\ app' = OnRequestTimeout(app, id)
          /\ expired' = expired \cup {id}
    /\ UNCHANGED <<pi, connects>>

InactivityTimeout ==
    /\ Running
    /\ May("inactivity")
    /\ app.watch
    /\ app' = OnInactivityTimeout(app)
    /\ UNCHANGED <<pi, expired, connects>>

Watchdog ==
    /\ Running
    /\ app.watchdog
    /\ app' = ForceFinish(app)
    /\ UNCHANGED <<pi, expired, connects>>

\* QApplication.quit takes effect: aboutToQuit, then the event loop ends
Quit ==
    /\ app.quit = "done"
    /\ app' = [DisconnectAgent(app) EXCEPT !.quit = "exited"]
    /\ UNCHANGED <<pi, expired, connects>>

Exited == app.quit = "exited" /\ UNCHANGED vars

ProcessStarts ==
    /\ Running
    /\ app.process = "starting"
    /\ \E written \in Succeeds("write") : app' = OnStarted(app, written)
    /\ UNCHANGED <<pi, expired, connects>>

\* FailedToStart: errorOccurred is emitted, finished is not
SpawnFails ==
    /\ Running
    /\ May("spawn")
    /\ app.process = "starting"
    /\ app' = OnProcessError(ProcessGone(app))
    /\ UNCHANGED <<pi, expired, connects>>

\* A process exits by itself, or because it was asked or forced to
MayExit == app.process = "running" /\ (May("exit") \/ app.signal # "none")

ProcessExits ==
    /\ Running
    /\ MayExit
    /\ \E clean \in BOOLEAN, partial \in BOOLEAN :
          /\ partial => May("garbage")
          /\ app' = OnFinished(ProcessGone(app), clean, partial)
    /\ pi' = NoPi
    /\ UNCHANGED <<expired, connects>>

\* Killed or crashed: errorOccurred(Crashed) and finished in one go
ProcessCrashes ==
    /\ Running
    /\ MayExit
    /\ \E partial \in BOOLEAN :
          /\ partial => May("garbage")
          /\ app' = OnFinished(OnProcessError(ProcessGone(app)), FALSE, partial)
    /\ pi' = NoPi
    /\ UNCHANGED <<expired, connects>>

\* ReadError or WriteError: the process lives on
ChannelError ==
    /\ Running
    /\ May("channel")
    /\ app.process = "running"
    /\ app' = OnProcessError(app)
    /\ UNCHANGED <<pi, expired, connects>>

\* Bytes on stdout that are no JSONL record
Garbage ==
    /\ Running
    /\ May("garbage")
    /\ app.process = "running"
    /\ app' = TransportFail(app, TRUE)
    /\ UNCHANGED <<pi, expired, connects>>

-----------------------------------------------------------------------------
\* Pi

\* The answers Pi can give to a command in its present state
Answers(command) ==
    {r \in Reply :
        /\ r.stored \in Succeeds("store")
        /\ r.written \in Succeeds("write")
        /\ CASE command \in {"get_state", "get_recovered_state"} ->
                   /\ r.ok \in Succeeds("reject")
                   /\ r.session = pi.session /\ r.tail = "empty"
             [] command = "get_messages" ->
                   /\ r.ok \in Succeeds("reject") /\ r.stored
                   /\ r.session = NoSession
                   /\ r.tail \in IF pi.failed THEN {"failed"} ELSE {"empty", "complete"}
             [] command = "prompt" ->
                   /\ ~r.ok \/ pi.phase = "idle"
                   /\ r.ok \/ pi.phase # "idle" \/ May("reject")
                   /\ r.stored /\ r.written
                   /\ r.session = NoSession /\ r.tail = "empty"
             [] OTHER ->
                   /\ r.ok \in Succeeds("reject") /\ r.stored
                   /\ r.session = NoSession /\ r.tail = "empty"}

\* A fork opens another session of the same workspace
Forked ==
    {p \in PiState :
        /\ p.phase = pi.phase /\ p.retrying = pi.retrying
        /\ p.session # NoSession /\ p.session[1] = pi.session[1]
        /\ p.session # pi.session \/ May("mismatch")
        /\ p.failed => May("failed_tail")}

\* What handling a command changes in Pi
PiAfter(command) ==
    CASE command = "prompt" -> {[pi EXCEPT !.phase = "accepted"]}
      [] command = "abort" /\ pi.phase = "running" ->
            {[pi EXCEPT !.phase = "ended", !.failed = FALSE]}
      [] command = "fork" -> Forked
      [] OTHER -> {pi}

PiAnswers ==
    /\ Running
    /\ app.process = "running"
    /\ \E id \in app.inbox :
          LET command == app.log[id].command IN
          \E r \in Answers(command) :
             /\ app' = OnResponse([app EXCEPT !.inbox = @ \ {id}], id, r)
             /\ pi' \in IF r.ok THEN PiAfter(command) ELSE {pi}
    /\ UNCHANGED <<expired, connects>>

\* Pi handles a command and its answer never arrives
PiSilent ==
    /\ Running
    /\ May("silent")
    /\ app.process = "running"
    /\ \E id \in app.inbox :
          LET command == app.log[id].command IN
          /\ command = "prompt" => pi.phase = "idle"
          /\ app' = [app EXCEPT !.inbox = @ \ {id}]
          /\ pi' \in PiAfter(command)
    /\ UNCHANGED <<expired, connects>>

\* The events Pi can emit in its present state, with the state they leave
Emits(type) ==
    CASE type = "agent_start" ->
            /\ pi.phase = "accepted" \/ (pi.phase = "running" /\ pi.retrying)
            /\ pi' = [pi EXCEPT !.phase = "running"]
      [] type \in {"turn_start", "tool_event"} ->
            pi.phase = "running" /\ UNCHANGED pi
      [] type = "text_delta" ->
            /\ pi.phase = "running"
            /\ app.active_assistant # 0 \/ Len(app.messages) < MaxMessages
            /\ UNCHANGED pi
      [] type = "message_end" ->
            /\ pi.phase = "running"
            /\ app.active_assistant # 0 \/ Len(app.messages) < MaxMessages
            /\ UNCHANGED pi
      [] type = "auto_retry_start" ->
            /\ May("retry") /\ pi.phase = "running" /\ ~pi.retrying
            /\ pi' = [pi EXCEPT !.retrying = TRUE]
      [] type = "auto_retry_end" ->
            /\ pi.phase = "running" /\ pi.retrying
            /\ pi' = [pi EXCEPT !.retrying = FALSE]
      [] type = "auto_retry_failed" ->
            /\ pi.retrying
            /\ pi' = [pi EXCEPT !.phase = "ended", !.retrying = FALSE,
                                !.failed = (pi.phase = "running") \/ @]
      [] type = "agent_end" ->
            /\ pi.phase = "running" /\ ~pi.retrying
            /\ pi' = [pi EXCEPT !.phase = "ended", !.failed = FALSE]
      [] type = "agent_end_error" ->
            /\ May("model_error") /\ pi.phase = "running"
            /\ pi' = [pi EXCEPT !.phase = "ended", !.failed = TRUE]
      [] type = "agent_settled" ->
            /\ pi.phase = "ended" /\ ~pi.retrying
            /\ pi' = [pi EXCEPT !.phase = "idle"]
      [] type = "extension_error" -> May("extension") /\ UNCHANGED pi

PiEmits ==
    /\ Running
    /\ app.process = "running"
    /\ \E type \in EventType : Emits(type) /\ app' = OnEvent(app, type)
    /\ UNCHANGED <<expired, connects>>

-----------------------------------------------------------------------------
User == ChooseWorkspace \/ RescanProfiles \/ Connect \/ ConnectRaises
          \/ Disconnect \/ Prompt \/ Stop \/ CloseWindow

Timers == StartupTimeout \/ ShutdownTimeout \/ RequestTimeout
            \/ InactivityTimeout \/ Watchdog

Process == ProcessStarts \/ SpawnFails \/ ProcessExits \/ ProcessCrashes
             \/ ChannelError \/ Garbage

Pi == PiAnswers \/ PiSilent \/ PiEmits

Next == User \/ Timers \/ Process \/ Pi \/ Quit \/ Exited

Spec == Init /\ [][Next]_vars

-----------------------------------------------------------------------------
(***************************************************************************)
(* Fairness: the operating system reports the outcome of a spawn, a        *)
(* SIGKILL ends a process, and the timers the code arms fire.  Nothing is  *)
(* asked of Pi or of the user.                                             *)
(***************************************************************************)
KilledProcessEnds == app.signal = "kill" /\ (ProcessExits \/ ProcessCrashes)

Fairness ==
    /\ WF_vars(ProcessStarts \/ SpawnFails)
    /\ WF_vars(KilledProcessEnds)
    /\ WF_vars(ShutdownTimeout)
    /\ WF_vars(Watchdog)

FairSpec == Spec /\ Fairness

-----------------------------------------------------------------------------
\* Every variable has its type.
TypeOK ==
    /\ app \in AppState
    /\ pi \in PiState
    /\ expired \subseteq Nat
    /\ connects \in 0 .. MaxConnects

\* Without a client nothing of the last connection is left: its process is
\* gone, no request is pending and no message waits for an answer.  This is
\* why connect_agent, which only asks that _client is None, can never start a
\* second Pi process beside a live one.
NoOrphanProcess ==
    ~app.client =>
        /\ app.process = "not-running"
        /\ app.transport = "stopped"
        /\ app.pending = {} /\ app.prompt_requests = {}
        /\ ~app.watch

\* Every request that waits for its answer has a deadline and every armed
\* deadline its request; requests wait only on a transport that is READY, and
\* the inactivity deadline runs only during a turn.
DeadlinesFollowRequests ==
    /\ app.deadlines = app.pending
    /\ app.pending # {} => app.transport = "ready"
    /\ app.watch => app.turn \in BusyTurn

\* A connection is shown as ready only on a live transport, and the session
\* Pi has open is then the very one whose id the settings keep: the next
\* connection resumes this conversation and no other.
ReadyMeansOwnSession ==
    app.connection = "ready" =>
        /\ app.client /\ app.session_ready
        /\ app.transport = "ready" /\ app.open
        /\ app.saved = pi.session

\* The saved session id belongs to the chosen workspace: changing workspace
\* and connecting in any order never opens another workspace's session.
SavedSessionOfWorkspace ==
    /\ app.saved # NoSession => app.saved[1] = app.workspace
    /\ app.client /\ app.requested # NoSession => app.requested[1] = app.workspace

\* The composer opens on a clean branch only: when a connection becomes
\* ready, Pi's active branch does not end in a failed turn.
ReadyOnCleanBranch ==
    [][app.connection # "ready" /\ app'.connection = "ready" => ~pi'.failed]_vars

\* A failed turn is forked away at most once per connection.
RecoveryRunsOnce ==
    /\ Cardinality(Written(app, "fork")) <= 1
    /\ Cardinality(Written(app, "get_entries")) <= 1

\* After the deadline of a prompt, a clear_queue or an abort has passed, no
\* further prompt is written on that connection.
UnknownOutcomeBlocksPrompts ==
    [][(\E id \in expired : app.log[id].command \in TurnCommand)
          => Written(app', "prompt") \subseteq Written(app, "prompt")]_vars

\* A message whose outcome is unknown stays uncertain, whatever Pi answers or
\* emits late, until a new connection reloads the history.
UncertainIsFinal ==
    [][\A i \in DOMAIN app.messages :
          /\ app.messages[i].state = "uncertain"
          /\ app.connection # "loading-session"
          => i \in DOMAIN app'.messages /\ app'.messages[i].state = "uncertain"]_vars

\* Every unanswered prompt names its own user message, even after the message
\* list was reloaded or grew: no answer marks a foreign message.  The message
\* and the reply under way are in the list as well.
PromptsNameTheirMessage ==
    /\ \A id \in app.prompt_requests :
          /\ id \in Written(app, "prompt")
          /\ app.log[id].message \in DOMAIN app.messages
          /\ app.messages[app.log[id].message].role = "user"
    /\ \A i, j \in app.prompt_requests :
          app.log[i].message = app.log[j].message => i = j
    /\ app.active_user # 0 =>
          /\ app.active_user \in DOMAIN app.messages
          /\ app.messages[app.active_user].role = "user"
    /\ app.active_assistant # 0 =>
          /\ app.active_assistant \in DOMAIN app.messages
          /\ app.messages[app.active_assistant].role = "assistant"

\* No message is forgotten half-way on a ready connection: one shown as being
\* sent has its prompt among the unanswered ones, and one shown as streaming is
\* the reply that the next delta or message_end will find.
OpenMessagesAreTracked ==
    app.connection = "ready" =>
        \A i \in DOMAIN app.messages :
            /\ app.messages[i].state = "sending" =>
                  \E id \in app.prompt_requests : app.log[id].message = i
            /\ app.messages[i].state = "streaming" => i = app.active_assistant

\* Each abort follows the answer to a clear_queue of its own: none is written
\* for a clear_queue that still waits or whose deadline has passed.
AbortFollowsClearQueue ==
    LET clears == Written(app, "clear_queue")
    IN  Cardinality(Written(app, "abort"))
          <= Cardinality(clears \ (app.pending \cup expired))

\* While the application waits for Pi to stop, the controller is stopping and
\* the watchdog runs: no change of the connection that would end the wait is
\* ever missed.
ClosingWaitsForStop ==
    app.quit = "active" => app.connection = "stopping" /\ app.client /\ app.watchdog

\* When the event loop has ended, a Pi process that is still there was told
\* to end.
ExitSignalsProcess ==
    app.quit = "exited" /\ app.process # "not-running" => app.signal # "none"

\* The session keeps the promise of SessionContract.
Contract == INSTANCE SessionContract WITH
    link <- IF ~app.client THEN "down"
            ELSE IF app.connection = "ready" THEN "ready"
            ELSE IF app.connection \in {"starting", "loading-session"} /\ app.open
                 THEN "opening"
            ELSE "closing",
    blocked <- app.client /\ app.requires_reconciliation,
    prompts <- IF app.client THEN Cardinality(Written(app, "prompt")) ELSE 0

KeepsContract == Contract!Spec

-----------------------------------------------------------------------------
\* Closing the window ends the application, whatever Pi does.
ClosingFinishes == app.quit = "active" ~> app.quit \in {"done", "exited"}

\* A process that was asked or forced to end is gone at some point, or the
\* application is.
SignalledProcessEnds ==
    app.signal # "none" ~> (app.process = "not-running" \/ app.quit = "exited")

\* A connection that is stopping gets out of that state, unless the application
\* ends first: then connect_agent is possible again.
StoppingSettles ==
    app.connection = "stopping" ~> (app.connection # "stopping" \/ app.quit = "exited")

-----------------------------------------------------------------------------
\* "Finish app shutdown only after the owned Pi process has settled"
\* (ui/native/app_shutdown.py:11), the forced timeout excepted.
QuitsAfterProcessSettled ==
    app.quit = "done" /\ ~app.forced => app.process = "not-running"

\* request_stop is to stop the turn that was active when it was called: no
\* prompt is written between its clear_queue and its abort.
AbortStopsItsOwnTurn ==
    \A k \in Written(app, "abort") :
        \E c \in Written(app, "clear_queue") :
            c < k /\ \A p \in Written(app, "prompt") : ~(c < p /\ p < k)

\* "Terminare Pi a meta' operazione: errore visibile" (docs/VALIDATION.md, E12):
\* a process that ends during a turn, unasked, leaves an error.
ExitDuringTurnIsReported ==
    [][/\ app.turn \in BusyTurn /\ app.connection = "ready"
       /\ app'.process = "not-running" /\ app.process = "running"
       => app'.last_error]_vars
=============================================================================
