--------------------------- MODULE AgentHandlers ---------------------------
(***************************************************************************)
(* The handlers of the agent session as operators on the application       *)
(* record.  They are listed from the innermost callback outwards: what a   *)
(* handler calls is defined before it, whichever class it belongs to.      *)
(***************************************************************************)
EXTENDS AgentState

-----------------------------------------------------------------------------
\* AppShutdownCoordinator, driven by the controller's state handler

Complete(a) == [a EXCEPT !.quit = "done", !.watchdog = FALSE]

\* AgentController._state_handler -> stateChanged -> notify_state_changed
StateChanged(a) ==
    IF a.quit = "active" /\ a.connection # "stopping" THEN Complete(a) ELSE a

-----------------------------------------------------------------------------
\* AgentController: callbacks that send nothing

ClearInactivityWarning(a) ==
    IF a.inactivity_warning
    THEN [a EXCEPT !.inactivity_warning = FALSE, !.last_error = FALSE]
    ELSE a

Fail(a) ==
    StateChanged([a EXCEPT !.inactivity_warning = FALSE,
                           !.last_error = TRUE,
                           !.connection = "failed",
                           !.session_ready = FALSE])

MarkMessage(a, i, state) ==
    IF i \in DOMAIN a.messages THEN [a EXCEPT !.messages[i].state = state] ELSE a

AppendMessage(a, role, state) ==
    [a EXCEPT !.messages = Append(@, [role |-> role, state |-> state])]

MarkActiveTurnFailed(a) ==
    [MarkMessage(MarkMessage(a, a.active_user, "failed"), a.active_assistant, "failed")
        EXCEPT !.active_user = 0, !.active_assistant = 0]

OnTransportStarting(a) == StateChanged([a EXCEPT !.connection = "starting"])
OnTransportStopping(a) == StateChanged([a EXCEPT !.connection = "stopping"])

\* Mutant: the client is forgotten as soon as its transport fails
OnTransportFailed_DropsClient(a) ==
    StateChanged([a EXCEPT !.connection = "failed", !.session_ready = FALSE,
                           !.client = FALSE])
OnTransportFailed(a) ==
    StateChanged([a EXCEPT !.connection = "failed", !.session_ready = FALSE])

\* Mutant: the transport's state is assigned to the controller's
OnTransportStopped_ForeignState(a) ==
    [a EXCEPT !.client = FALSE, !.connection = "stopped"]
\* Mutant: returns before it calls the state handler
OnTransportStopped_Unannounced(a) ==
    [a EXCEPT !.client = FALSE, !.prompt_requests = {},
              !.connection = "disconnected", !.disconnect_requested = FALSE]
OnTransportStopped(a) ==
    StateChanged([a EXCEPT
        !.session_ready = FALSE, !.requested = NoSession,
        !.recovery_attempted = FALSE,
        !.active_user = 0, !.active_assistant = 0, !.prompt_requests = {},
        !.client = FALSE,
        !.requires_reconciliation = FALSE, !.inactivity_warning = FALSE,
        !.connection = IF a.disconnect_requested \/ ~a.last_error
                       THEN "disconnected" ELSE "failed",
        !.disconnect_requested = FALSE])

-----------------------------------------------------------------------------
\* AgentClient: turn state and deadlines

\* AgentClient._set_turn_state, with AgentController._on_turn_state
SetTurn(a, turn) ==
    IF a.turn = turn THEN a
    ELSE StateChanged(ClearInactivityWarning(
            [a EXCEPT !.turn = turn, !.watch = turn \in BusyTurn]))

\* What shutdown, a transport error, FAILED and STOPPED all clear
DropRequests(a) ==
    [a EXCEPT !.pending = {}, !.deadlines = {}, !.watch = FALSE, !.auto_retry = FALSE]

NoteActivity(a) == IF a.turn \in BusyTurn THEN [a EXCEPT !.watch = TRUE] ELSE a

\* AgentClient._on_transport_state, then AgentController._on_transport_state
TransportFailed(a) == OnTransportFailed(SetTurn(DropRequests(a), "failed"))
TransportStopped(a) ==
    LET b == DropRequests(a)
    IN  OnTransportStopped(IF b.turn = "failed" THEN b ELSE SetTurn(b, "idle"))

\* AgentClient._on_transport_error, then AgentController._on_client_error
ClientTransportError(a) ==
    LET b == DropRequests(a)
    IN  Fail(IF b.turn = "idle" THEN b ELSE SetTurn(b, "failed"))

-----------------------------------------------------------------------------
\* QProcessAgentTransport: stopping and failing

\* _set_state does nothing when the state does not change
SetStopped(a) ==
    IF a.transport = "stopped" THEN a
    ELSE TransportStopped([a EXCEPT !.transport = "stopped"])
SetStopping(a) ==
    IF a.transport = "stopping" THEN a
    ELSE OnTransportStopping([a EXCEPT !.transport = "stopping"])
SetFailed(a) ==
    IF a.transport = "failed" THEN a
    ELSE TransportFailed([a EXCEPT !.transport = "failed"])

\* Mutant: stdin is closed, the process is not asked to terminate
TransportStop_NoTerminate(a) ==
    LET b == [a EXCEPT !.startup_timer = FALSE]
    IN  IF b.process = "not-running" THEN SetStopped(b)
        ELSE [SetStopping(b) EXCEPT !.open = FALSE, !.shutdown_timer = TRUE]
\* Mutant: terminate is not backed by the shutdown timer
TransportStop_NoTimer(a) ==
    LET b == [a EXCEPT !.startup_timer = FALSE]
    IN  IF b.process = "not-running" THEN SetStopped(b)
        ELSE [SetStopping(b) EXCEPT !.open = FALSE, !.signal = "term"]
TransportStop(a) ==
    LET b == [a EXCEPT !.startup_timer = FALSE]
    IN  IF b.process = "not-running" THEN SetStopped(b)
        ELSE [SetStopping(b) EXCEPT
                !.open = FALSE,
                !.signal = IF @ = "kill" THEN @ ELSE "term",
                !.shutdown_timer = TRUE]

TransportFail(a, kill) ==
    LET b == [a EXCEPT !.startup_timer = FALSE, !.shutdown_timer = FALSE]
        c == ClientTransportError(SetFailed(b))
    IN  IF kill /\ c.process # "not-running"
        THEN [c EXCEPT !.signal = "kill", !.open = FALSE]
        ELSE c

-----------------------------------------------------------------------------
\* Shutting down and sending

ClientShutdown(a) == TransportStop(DropRequests(a))

FailAndStop(a) ==
    LET b == Fail(a)
    IN  IF b.client
        THEN ClientShutdown([b EXCEPT !.disconnect_requested = FALSE])
        ELSE b

\* QProcessAgentTransport.send raises unless READY and the write succeeds
CanWrite(a, written) == a.transport = "ready" /\ written

\* AgentClient._send when the transport accepts the command
Send(a, command, message) ==
    LET id == Len(a.log) + 1
    IN  [a EXCEPT !.log = Append(@, [command |-> command, message |-> message]),
                  !.pending = @ \cup {id},
                  !.deadlines = @ \cup {id},
                  !.inbox = IF a.open THEN @ \cup {id} ELSE @]

\* try: client.<command>(callback)  except: self._fail_and_stop(exc)
SendOrStop(a, command, written) ==
    IF CanWrite(a, written) THEN Send(a, command, 0) ELSE FailAndStop(a)

-----------------------------------------------------------------------------
(***************************************************************************)
(* Responses.  A reply r says what Pi answered and how the effects the     *)
(* answer triggers went:                                                   *)
(*   ok       success is true and the data is well formed                  *)
(*   session  data.sessionId of a get_state                                *)
(*   tail     how the last user turn of a get_messages history ended       *)
(*   stored   SettingsStore.save succeeds                                  *)
(*   written  the write of the next command succeeds                       *)
(***************************************************************************)
Reply == [ok : BOOLEAN, session : SessionId \cup {NoSession},
          tail : {"empty", "complete", "failed"},
          stored : BOOLEAN, written : BOOLEAN]

\* AgentController._persist_session_id raises
PersistFails(a, r) == a.saved # r.session /\ ~r.stored

OnSessionState(a, r) ==
    IF \/ ~r.ok
       \/ a.requested # NoSession /\ r.session # a.requested
       \/ PersistFails(a, r)
    THEN FailAndStop(a)
    ELSE SendOrStop(StateChanged([a EXCEPT !.saved = r.session]), "get_messages", r.written)

BeginFailedTurnRecovery(a, r) ==
    SendOrStop(StateChanged([a EXCEPT !.recovery_attempted = TRUE,
                                      !.session_ready = FALSE,
                                      !.connection = "loading-session"]),
               "get_entries", r.written)

\* The messages the history loads: all but its last user message are left out
LoadedMessages(r) ==
    IF r.tail = "empty" THEN <<>> ELSE <<[role |-> "user", state |-> r.tail]>>

\* Mutant: a history that still ends in a failed turn is accepted after recovery
OnHistory_AcceptsFailedBranch(a, r) ==
    LET b == [a EXCEPT !.messages = LoadedMessages(r)]
    IN  IF ~r.ok THEN FailAndStop(a)
        ELSE IF r.tail = "failed" /\ ~b.recovery_attempted
             THEN BeginFailedTurnRecovery(b, r)
        ELSE StateChanged([b EXCEPT !.session_ready = TRUE, !.connection = "ready"])
\* Mutant: recovery is tried again as long as the branch ends in a failed turn
OnHistory_RetriesRecovery(a, r) ==
    LET b == [a EXCEPT !.messages = LoadedMessages(r)]
    IN  IF ~r.ok THEN FailAndStop(a)
        ELSE IF r.tail = "failed" THEN BeginFailedTurnRecovery(b, r)
        ELSE StateChanged([b EXCEPT !.session_ready = TRUE, !.connection = "ready"])
OnHistory(a, r) ==
    LET b == [a EXCEPT !.messages = LoadedMessages(r),
                       !.active_user = 0, !.active_assistant = 0]
    IN  IF ~r.ok THEN FailAndStop(a)
        ELSE IF r.tail # "failed"
             THEN StateChanged([b EXCEPT !.session_ready = TRUE,
                                         !.requires_reconciliation = FALSE,
                                         !.connection = "ready"])
        ELSE IF b.recovery_attempted THEN FailAndStop(b)
        ELSE BeginFailedTurnRecovery(b, r)

OnRecoveryEntries(a, r) ==
    IF ~r.ok THEN FailAndStop(a) ELSE SendOrStop(StateChanged(a), "fork", r.written)

OnRecoveryFork(a, r) ==
    IF ~r.ok THEN FailAndStop(a)
    ELSE SendOrStop(StateChanged(a), "get_recovered_state", r.written)

\* Mutant: the id of the forked session is not saved
OnRecoveredState_NotSaved(a, r) ==
    IF ~r.ok \/ (a.requested # NoSession /\ r.session = a.requested)
    THEN FailAndStop(a)
    ELSE SendOrStop([a EXCEPT !.requested = r.session], "get_messages", r.written)

OnRecoveredState(a, r) ==
    IF \/ ~r.ok
       \/ a.requested # NoSession /\ r.session = a.requested
       \/ PersistFails(a, r)
    THEN FailAndStop(a)
    ELSE SendOrStop(StateChanged([a EXCEPT !.saved = r.session, !.requested = r.session]),
                    "get_messages", r.written)

\* AgentClient._after_clear_queue: the abort follows whatever the answer was
AfterClearQueue(a, r) ==
    IF CanWrite(a, r.written) THEN NoteActivity(Send(a, "abort", 0)) ELSE a

AfterAbort(a, r) == IF r.ok THEN a ELSE Fail(SetTurn(a, "failed"))

\* The callback of an answered request, then AgentClient._note_activity (which
\* _after_clear_queue, when its write raises, does not reach)
Callback(a, command, r) ==
    CASE command = "get_state"           -> NoteActivity(OnSessionState(a, r))
      [] command = "get_messages"        -> NoteActivity(OnHistory(a, r))
      [] command = "get_entries"         -> NoteActivity(OnRecoveryEntries(a, r))
      [] command = "fork"                -> NoteActivity(OnRecoveryFork(a, r))
      [] command = "get_recovered_state" -> NoteActivity(OnRecoveredState(a, r))
      [] command = "clear_queue"         -> AfterClearQueue(a, r)
      [] command = "abort"               -> NoteActivity(AfterAbort(a, r))
      [] OTHER                           -> NoteActivity(a)

\* AgentController._on_response
OnPromptAnswer(a, id, r) ==
    LET b == ClearInactivityWarning(a)
        i == b.log[id].message
        c == [b EXCEPT !.prompt_requests = @ \ {id}]
    IN  IF id \notin b.prompt_requests \/ i \notin DOMAIN b.messages THEN c
        ELSE IF r.ok THEN StateChanged(MarkMessage(c, i, "accepted"))
        ELSE StateChanged(
                [MarkMessage(c, i, "failed") EXCEPT
                    !.active_user = IF @ = i THEN 0 ELSE @,
                    !.last_error = TRUE])

\* Mutant: the deadline of an answered request is not cancelled
OnResponse_DeadlineLeft(a, id, r) ==
    LET b == OnPromptAnswer([a EXCEPT !.pending = @ \ {id}], id, r)
    IN  IF id \in a.pending THEN Callback(b, a.log[id].command, r) ELSE NoteActivity(b)

\* AgentClient._on_response: only a request still pending runs its callback
OnResponse(a, id, r) ==
    LET b == OnPromptAnswer([a EXCEPT !.pending = @ \ {id}, !.deadlines = @ \ {id}], id, r)
    IN  IF id \in a.pending THEN Callback(b, a.log[id].command, r) ELSE NoteActivity(b)

-----------------------------------------------------------------------------
(***************************************************************************)
(* Events.  agent_end stands for an agent_end that reports no terminal     *)
(* error, agent_end_error for one with willRetry false whose last          *)
(* assistant message stopped with an error; auto_retry_failed for an       *)
(* auto_retry_end with success false; tool_event for every event that only *)
(* changes a status text or, as a message_end without text outside a       *)
(* reply, nothing.                                                         *)
(***************************************************************************)
EventType ==
    {"agent_start", "turn_start", "auto_retry_start", "auto_retry_end",
     "auto_retry_failed", "agent_end", "agent_end_error", "agent_settled",
     "text_delta", "message_end", "extension_error", "tool_event"}

\* AgentTurnFailedError reaches AgentController._on_client_error
TurnFails(a) == Fail(MarkActiveTurnFailed(SetTurn(a, "failed")))

\* AgentClient._on_record for an event
ClientEvent(a, type) ==
    CASE type \in {"agent_start", "turn_start"} -> SetTurn(a, "running")
      [] type = "auto_retry_start"  -> [a EXCEPT !.auto_retry = TRUE]
      [] type = "auto_retry_end"    -> [a EXCEPT !.auto_retry = FALSE]
      [] type = "auto_retry_failed" ->
            LET b == [a EXCEPT !.auto_retry = FALSE]
            IN  IF b.turn = "cancelling" THEN b ELSE TurnFails(b)
      [] type = "agent_end_error"   ->
            IF a.auto_retry \/ a.turn \in {"cancelling", "failed"} THEN a ELSE TurnFails(a)
      [] type = "agent_settled"     ->
            LET b == [a EXCEPT !.auto_retry = FALSE]
            IN  IF b.turn = "failed" THEN b ELSE SetTurn(b, "idle")
      [] OTHER -> a

AppendAssistantDelta(a) ==
    IF a.active_assistant = 0
    THEN [AppendMessage(a, "assistant", "streaming")
            EXCEPT !.active_assistant = Len(a.messages) + 1]
    ELSE MarkMessage(a, a.active_assistant, "streaming")

\* Mutant: the active assistant message is closed without its final state
FinalizeAssistant_LeavesStreaming(a) ==
    IF a.active_assistant = 0 THEN AppendMessage(a, "assistant", "complete")
    ELSE [a EXCEPT !.active_assistant = 0]

FinalizeAssistant(a) ==
    IF a.active_assistant = 0 THEN AppendMessage(a, "assistant", "complete")
    ELSE [MarkMessage(a, a.active_assistant, "complete") EXCEPT !.active_assistant = 0]

\* Mutant: a settled turn makes a failed connection ready again
SettleMessages_Revives(a) ==
    [a EXCEPT !.active_user = 0, !.active_assistant = 0, !.connection = "ready"]

SettleMessages(a) ==
    IF a.turn = "failed" THEN a
    ELSE [MarkMessage(MarkMessage(a, a.active_user, "complete"),
                      a.active_assistant, "complete")
            EXCEPT !.active_user = 0, !.active_assistant = 0]

\* AgentController._on_event
ControllerEvent(a, type) ==
    LET b == ClearInactivityWarning(a)
    IN  CASE type = "text_delta"      -> AppendAssistantDelta(b)
          [] type = "message_end"     -> FinalizeAssistant(b)
          [] type = "agent_settled"   -> SettleMessages(b)
          [] type = "extension_error" -> StateChanged([b EXCEPT !.last_error = TRUE])
          [] type \in {"auto_retry_start", "tool_event"} -> StateChanged(b)
          [] OTHER -> b

OnEvent(a, type) == ControllerEvent(NoteActivity(ClientEvent(a, type)), type)

-----------------------------------------------------------------------------
\* Deadlines

\* Mutant: only the timeout of a prompt asks for reconciliation
OnRequestTimeout_PromptOnly(a, id) ==
    LET b == [a EXCEPT !.deadlines = @ \ {id}, !.pending = @ \ {id}]
        c == SetTurn(b, "failed")
    IN  IF id \notin a.pending THEN b
        ELSE IF a.log[id].command \notin TurnCommand THEN Fail(b)
        ELSE [c EXCEPT !.requires_reconciliation = a.log[id].command = "prompt",
                       !.prompt_requests = @ \ {id},
                       !.last_error = TRUE]
\* Mutant: the prompt stays registered, so a late answer still marks its message
OnRequestTimeout_KeepsPrompt(a, id) ==
    LET b == [a EXCEPT !.deadlines = @ \ {id}, !.pending = @ \ {id}]
        c == MarkMessage(SetTurn(b, "failed"), a.log[id].message, "uncertain")
    IN  IF id \notin a.pending THEN b
        ELSE IF a.log[id].command \notin TurnCommand THEN Fail(b)
        ELSE [c EXCEPT !.requires_reconciliation = TRUE, !.last_error = TRUE]

\* AgentClient._on_request_timeout, AgentController._on_request_timeout
OnRequestTimeout(a, id) ==
    LET command == a.log[id].command
        i == a.log[id].message
        b == [a EXCEPT !.deadlines = @ \ {id}, !.pending = @ \ {id}]
        c == SetTurn(b, "failed")
        d == [c EXCEPT !.prompt_requests = @ \ {id},
                       !.requires_reconciliation = TRUE,
                       !.inactivity_warning = FALSE,
                       !.last_error = TRUE]
    IN  IF id \notin a.pending THEN b
        ELSE IF command \notin TurnCommand THEN Fail(b)
        ELSE IF command = "prompt" /\ id \in a.prompt_requests /\ i \in DOMAIN a.messages
             THEN StateChanged([MarkMessage(d, i, "uncertain") EXCEPT
                                    !.active_user = IF @ = i THEN 0 ELSE @])
        ELSE StateChanged(d)

\* AgentClient._on_inactivity_timeout, AgentController._on_inactivity_timeout
OnInactivityTimeout(a) ==
    LET b == [a EXCEPT !.watch = FALSE]
    IN  IF b.turn \in BusyTurn
        THEN StateChanged([b EXCEPT !.inactivity_warning = TRUE, !.last_error = TRUE])
        ELSE b

OnStartupTimeout(a) ==
    LET b == [a EXCEPT !.startup_timer = FALSE]
    IN  IF b.transport = "starting" THEN TransportFail(b, TRUE) ELSE b

\* Mutant: a transport that is stopping is not killed
OnShutdownTimeout_NoKill(a) ==
    IF a.transport = "stopping" THEN [a EXCEPT !.shutdown_timer = FALSE]
    ELSE [a EXCEPT !.shutdown_timer = FALSE, !.signal = "kill"]

\* QProcessAgentTransport._force_kill
OnShutdownTimeout(a) ==
    LET b == [a EXCEPT !.shutdown_timer = FALSE]
    IN  IF b.process = "not-running" THEN b
        ELSE [b EXCEPT !.signal = "kill", !.open = FALSE]

-----------------------------------------------------------------------------
\* Signals of the owned QProcess

\* _on_started sets READY whatever the state was; the controller then asks Pi
\* for the session it opened
OnStarted(a, written) ==
    LET b == [a EXCEPT !.process = "running", !.startup_timer = FALSE,
                       !.transport = "ready",
                       !.connection = "loading-session", !.session_ready = FALSE]
    IN  StateChanged(SendOrStop(b, "get_state", written))

OnProcessError(a) ==
    IF a.transport \in {"stopping", "failed"} THEN a ELSE TransportFail(a, FALSE)

\* The process is gone: nothing more is read from or written to it
ProcessGone(a) ==
    [a EXCEPT !.process = "not-running", !.open = FALSE, !.inbox = {}]

\* _on_finished; `partial`: the decoder is left with an incomplete record
OnFinished(a, clean, partial) ==
    LET b == [a EXCEPT !.startup_timer = FALSE, !.shutdown_timer = FALSE]
    IN  CASE b.transport = "stopping" -> SetStopped(b)
          [] b.transport # "stopping" /\ partial -> TransportFail(b, FALSE)
          [] b.transport = "failed" /\ ~partial -> b
          [] OTHER -> IF clean THEN SetStopped(b) ELSE TransportFail(b, FALSE)

-----------------------------------------------------------------------------
\* Operations of the user and of main.py

DisconnectAgent(a) ==
    IF ~a.client THEN a
    ELSE ClientShutdown(StateChanged(
            [a EXCEPT !.disconnect_requested = TRUE, !.connection = "stopping"]))

\* connect_agent up to the try block
BeginConnect(a) ==
    StateChanged([a EXCEPT
        !.last_error = FALSE, !.inactivity_warning = FALSE,
        !.requires_reconciliation = FALSE, !.disconnect_requested = FALSE,
        !.session_ready = FALSE, !.requested = a.saved,
        !.recovery_attempted = FALSE, !.connection = "starting"])

\* The bootstrap, or the preparation of the runtime directories, raises
ConnectFails(a, turn) ==
    Fail([BeginConnect(a) EXCEPT !.turn = turn, !.client = FALSE, !.requested = NoSession])

\* A new client and transport; client.start publishes IDLE and starts Pi
ConnectAgent(a) ==
    OnTransportStarting([BeginConnect(a) EXCEPT
        !.client = TRUE, !.turn = "idle",
        !.pending = {}, !.deadlines = {}, !.watch = FALSE, !.auto_retry = FALSE,
        !.transport = "starting", !.startup_timer = TRUE, !.shutdown_timer = FALSE,
        !.process = "starting", !.signal = "none", !.open = TRUE,
        !.log = <<>>, !.inbox = {}])

\* Mutant: the index of the message is taken before it is appended
SendMessage_StaleIndex(a, written) ==
    LET b == AppendMessage(a, "user", "sending")
    IN  IF CanWrite(b, written)
        THEN StateChanged([Send(b, "prompt", Len(a.messages)) EXCEPT
                !.active_user = Len(a.messages),
                !.prompt_requests = @ \cup {Len(a.log) + 1}])
        ELSE Fail(b)

\* send_message: the message is appended before the command is written
SendMessage(a, written) ==
    LET b == AppendMessage(a, "user", "sending")
        i == Len(b.messages)
        id == Len(a.log) + 1
    IN  IF CanWrite(b, written)
        THEN StateChanged([Send(b, "prompt", i) EXCEPT
                !.active_user = i, !.prompt_requests = @ \cup {id}])
        ELSE Fail(MarkMessage(b, i, "failed"))

\* Mutant: abort is written without waiting for the answer to clear_queue
RequestStop_AbortsAtOnce(a, written) ==
    LET b == SetTurn(StateChanged(a), "cancelling")
    IN  IF CanWrite(b, written) THEN Send(Send(b, "clear_queue", 0), "abort", 0) ELSE b

\* request_stop; a write that raises leaves the turn cancelling
RequestStop(a, written) ==
    LET b == SetTurn(StateChanged(a), "cancelling")
    IN  IF CanWrite(b, written) THEN Send(b, "clear_queue", 0) ELSE b

\* Mutant: the session id of the previous workspace is kept
SetWorkspace_KeepsSession(a, w, p) ==
    StateChanged([a EXCEPT !.workspace = w, !.profile = p,
                           !.last_error = FALSE, !.connection = "disconnected"])

SetWorkspace(a, w, p) ==
    StateChanged([a EXCEPT
        !.saved = IF a.workspace = w THEN @ ELSE NoSession,
        !.workspace = w, !.profile = p,
        !.last_error = FALSE, !.connection = "disconnected"])

\* refresh_profiles: the scan of models.json finds a usable profile or none
RefreshProfiles(a, p) == StateChanged([a EXCEPT !.profile = p])

\* Mutant: a close request with nothing to stop does not complete
RequestShutdown_OnlyWaits(a) ==
    LET b == DisconnectAgent([a EXCEPT !.quit = "active"])
    IN  IF b.quit = "active" /\ b.connection = "stopping"
        THEN [b EXCEPT !.watchdog = TRUE] ELSE b

RequestShutdown(a) ==
    LET b == DisconnectAgent([a EXCEPT !.quit = "active"])
    IN  IF b.quit # "active" THEN b
        ELSE IF b.connection = "stopping" THEN [b EXCEPT !.watchdog = TRUE]
        ELSE Complete(b)

ForceFinish(a) == Complete([a EXCEPT !.forced = TRUE])
=============================================================================
