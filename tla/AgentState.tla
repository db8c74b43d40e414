----------------------------- MODULE AgentState -----------------------------
(***************************************************************************)
(* The state of one Pi_UI agent session: AgentController                   *)
(* (controllers/agent_controller.py) over AgentClient                      *)
(* (core/agent/client.py) over QProcessAgentTransport                      *)
(* (ui/native/agent_process.py), with AppShutdownCoordinator               *)
(* (ui/native/app_shutdown.py) listening to the controller.                *)
(*                                                                         *)
(* All four run on the GUI thread and call each other synchronously, so    *)
(* their joint state is ONE record: a handler is an operator from a record *)
(* to a record (module AgentHandlers), and the order of nested callbacks   *)
(* is the order in which the operators are applied.                        *)
(***************************************************************************)
EXTENDS Integers, Sequences, FiniteSets

CONSTANTS
    Workspaces,   \* workspace directories the user can choose
    Branches,     \* sessions Pi can hold per workspace
    NoSession     \* settings.last_session_id = None

SessionId == Workspaces \X Branches

ASSUME SessionAssumption == NoSession \notin SessionId

-----------------------------------------------------------------------------
ConnectionState ==
    {"disconnected", "starting", "loading-session", "ready", "stopping", "failed"}

MessageState ==
    {"sending", "accepted", "streaming", "complete", "uncertain", "failed"}

TurnState == {"idle", "running", "cancelling", "failed"}

TransportState == {"stopped", "starting", "ready", "stopping", "failed"}

BusyTurn == {"running", "cancelling"}

(***************************************************************************)
(* Every RPC command the controller and the client write.  The second      *)
(* get_state, whose callback is _on_recovery_session_state_response, is    *)
(* named apart: the callback of a pending request is then a function of    *)
(* its command.                                                            *)
(***************************************************************************)
HydrationCommand ==
    {"get_state", "get_messages", "get_entries", "fork", "get_recovered_state"}
TurnCommand == {"prompt", "clear_queue", "abort"}

\* A written command; `message` is the index of the prompt's chat message.
Request == [command : HydrationCommand \cup TurnCommand, message : Nat]

Message == [role : {"user", "assistant"}, state : MessageState]

(***************************************************************************)
(* Request ids are uuids in the code; here the id of a request is its      *)
(* position in `log`, the commands written to the present Pi process.      *)
(* active_user and active_assistant are indices of messages, 0 for None.   *)
(***************************************************************************)
AppState == [
    \* AgentController
    connection : ConnectionState,
    client : BOOLEAN,                    \* _client is not None
    turn : TurnState,                    \* client's, mirrored by the controller
    session_ready : BOOLEAN,
    requested : SessionId \cup {NoSession},
    recovery_attempted : BOOLEAN,
    requires_reconciliation : BOOLEAN,
    inactivity_warning : BOOLEAN,
    last_error : BOOLEAN,                \* _last_error is not None
    disconnect_requested : BOOLEAN,
    messages : Seq(Message),
    prompt_requests : SUBSET Nat,        \* keys; the value is log[id].message
    active_user : Nat,
    active_assistant : Nat,
    saved : SessionId \cup {NoSession},  \* settings.last_session_id
    workspace : Workspaces,
    profile : BOOLEAN,                   \* selected_profile is not None
    \* AgentClient
    pending : SUBSET Nat,
    deadlines : SUBSET Nat,              \* ids with an armed request deadline
    watch : BOOLEAN,                     \* inactivity deadline armed
    auto_retry : BOOLEAN,
    \* QProcessAgentTransport and the process it owns
    transport : TransportState,
    startup_timer : BOOLEAN,
    shutdown_timer : BOOLEAN,
    process : {"not-running", "starting", "running"},
    signal : {"none", "term", "kill"},
    open : BOOLEAN,                      \* what is written still reaches Pi
    log : Seq(Request),
    inbox : SUBSET Nat,                  \* ids written and not yet handled by Pi
    \* AppShutdownCoordinator
    quit : {"idle", "active", "done", "exited"},
    watchdog : BOOLEAN,
    forced : BOOLEAN]

\* The application as main.py builds it: nothing runs, settings are loaded.
InitialApp(w, s, p) == [
    connection |-> "disconnected", client |-> FALSE, turn |-> "idle",
    session_ready |-> FALSE, requested |-> NoSession,
    recovery_attempted |-> FALSE, requires_reconciliation |-> FALSE,
    inactivity_warning |-> FALSE, last_error |-> FALSE,
    disconnect_requested |-> FALSE,
    messages |-> <<>>, prompt_requests |-> {}, active_user |-> 0,
    active_assistant |-> 0, saved |-> s, workspace |-> w, profile |-> p,
    pending |-> {}, deadlines |-> {}, watch |-> FALSE, auto_retry |-> FALSE,
    transport |-> "stopped", startup_timer |-> FALSE, shutdown_timer |-> FALSE,
    process |-> "not-running", signal |-> "none", open |-> FALSE,
    log |-> <<>>, inbox |-> {},
    quit |-> "idle", watchdog |-> FALSE, forced |-> FALSE]

-----------------------------------------------------------------------------
CanConnect(a) ==
    /\ ~a.client
    /\ a.profile
    /\ a.connection \in {"disconnected", "failed"}

\* Mutant: an unknown outcome does not close the composer
CanSend_IgnoresUnknownOutcome(a) ==
    /\ a.client
    /\ a.connection = "ready"
    /\ a.session_ready
    /\ a.turn = "idle"

CanSend(a) ==
    /\ a.client
    /\ a.connection = "ready"
    /\ a.session_ready
    /\ ~a.requires_reconciliation
    /\ a.turn = "idle"

CanStop(a) ==
    /\ a.client
    /\ a.connection = "ready"
    /\ a.turn \in BusyTurn

\* Positions of a command in the log: how often it was written, and when.
Written(a, command) == {i \in DOMAIN a.log : a.log[i].command = command}
=============================================================================
