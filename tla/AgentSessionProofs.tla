------------------------- MODULE AgentSessionProofs -------------------------
(***************************************************************************)
(* Theorems about the agent session, for every set of workspaces and       *)
(* branches, every bound and every choice of disturbances.  The inductive  *)
(* invariant is Sound, which every handler preserves (AgentHandlersProofs),*)
(* with the parts that relate the application to Pi.                       *)
(***************************************************************************)
EXTENDS AgentSession, AgentRequestsProofs

-----------------------------------------------------------------------------
\* The process Pi runs in has a session of the chosen workspace open.
PiOfWorkspace ==
    app.process # "not-running" =>
        pi.session \in SessionId /\ pi.session[1] = app.workspace

IInv ==
    /\ Sound(app)
    /\ pi \in PiState
    /\ expired \subseteq Nat
    /\ connects \in 0 .. MaxConnects
    /\ app.quit = "active" => app.watchdog
    /\ ExitSignalsProcess
    /\ SavedSessionOfWorkspace
    /\ PiOfWorkspace

\* The session saved in a session id the step may bring in.
OfWorkspace(s) ==
    \/ s = NoSession
    \/ app.process # "not-running" /\ s = pi.session

\* A step that keeps Pi and does not start or end the process.
LEMMA KeepingStep ==
  ASSUME IInv, app.quit # "exited",
         Sound(app'), NEW s, OfWorkspace(s), KeepsWith(app, app', s),
         pi' \in PiState,
         app.process # "not-running" =>
             pi'.session \in SessionId /\ pi'.session[1] = pi.session[1],
         expired' \subseteq Nat, UNCHANGED connects
  PROVE  IInv'
<1>1. /\ Sound(app)' /\ (pi \in PiState)' /\ (expired \subseteq Nat)'
      /\ (connects \in 0 .. MaxConnects)'
  BY DEF IInv
<1>2. app'.quit = "active" => app'.watchdog
  BY DEF IInv, KeepsWith
<1>3. ExitSignalsProcess'
  BY DEF ExitSignalsProcess, KeepsWith
<1>4. SavedSessionOfWorkspace'
  BY DEF IInv, SavedSessionOfWorkspace, PiOfWorkspace, OfWorkspace, KeepsWith
<1>5. PiOfWorkspace'
  BY DEF IInv, PiOfWorkspace, KeepsWith
<1> QED BY <1>1, <1>2, <1>3, <1>4, <1>5 DEF IInv

\* The common case: Pi and the history variables are left alone.
LEMMA CallbackStep ==
  ASSUME IInv, app.quit # "exited", Sound(app'), Keeps(app, app'),
         pi' = pi, expired' \subseteq Nat, UNCHANGED connects
  PROVE  IInv'
<1>1. KeepsWith(app, app', NoSession) /\ OfWorkspace(NoSession)
  BY KeepsIsKeepsWith DEF OfWorkspace
<1>2. pi' \in PiState
  BY DEF IInv
<1>3. app.process # "not-running" =>
         pi'.session \in SessionId /\ pi'.session[1] = pi.session[1]
  BY DEF IInv, PiOfWorkspace
<1> QED BY <1>1, <1>2, <1>3, KeepingStep

\* A signal that says the process is there, or gone.
LEMMA ProcessStep ==
  ASSUME IInv, app.quit # "exited", Sound(app'), KeepsButProcess(app, app'),
         app.process # "not-running" \/ app'.process = "not-running",
         \/ pi' = pi
         \/ pi' = NoPi /\ app'.process = "not-running",
         UNCHANGED <<expired, connects>>
  PROVE  IInv'
<1>1. pi' \in PiState
  <2>1. NoPi \in PiState
    BY DEF NoPi, PiState
  <2> QED BY <2>1 DEF IInv
<1>2. /\ Sound(app)' /\ (expired \subseteq Nat)'
      /\ (connects \in 0 .. MaxConnects)'
  BY DEF IInv
<1>3. app'.quit = "active" => app'.watchdog
  BY DEF IInv, KeepsButProcess
<1>4. ExitSignalsProcess'
  BY DEF ExitSignalsProcess, KeepsButProcess
<1>5. SavedSessionOfWorkspace'
  BY DEF IInv, SavedSessionOfWorkspace, KeepsButProcess
<1>6. PiOfWorkspace'
  BY DEF IInv, PiOfWorkspace, KeepsButProcess
<1> QED BY <1>1, <1>2, <1>3, <1>4, <1>5, <1>6 DEF IInv

-----------------------------------------------------------------------------
\* The application as main.py builds it satisfies the invariant.
LEMMA InitIInv ==
  ASSUME Init
  PROVE  IInv
<1>1. PICK w \in Workspaces, s \in SessionId \cup {NoSession}, p \in BOOLEAN :
         app = InitialApp(w, s, p)
  BY DEF Init
<1>2. app \in AppState
  <2>1. PICK m \in Seq(Message), l \in Seq(Request) : m = <<>> /\ l = <<>>
    <3>1. <<>> \in Seq(Message) /\ <<>> \in Seq(Request)
      OBVIOUS
    <3> QED BY <3>1, Zenon
  <2>2. InitialApp(w, s, p) \in AppState
    BY <2>1 DEF InitialApp, AppState, ConnectionState, TurnState, TransportState
  <2> QED BY <1>1, <2>2
<1>3. /\ ~app.client /\ app.process = "not-running" /\ app.transport = "stopped"
      /\ app.pending = {} /\ app.deadlines = {} /\ app.prompt_requests = {}
      /\ ~app.watch /\ app.connection = "disconnected" /\ app.quit = "idle"
  BY <1>1 DEF InitialApp
<1>4. Sound(app)
  BY <1>2, <1>3 DEF Sound, Detached, Paired, Waiting
<1>5. /\ pi \in PiState /\ expired \subseteq Nat /\ connects \in 0 .. MaxConnects
  <2>1. NoPi \in PiState
    BY DEF NoPi, PiState
  <2>2. MaxConnects \in Nat
    BY BoundsAssumption
  <2> QED BY <2>1, <2>2 DEF Init
<1>6. ExitSignalsProcess /\ SavedSessionOfWorkspace /\ PiOfWorkspace
  BY <1>3 DEF Init, ExitSignalsProcess, SavedSessionOfWorkspace, PiOfWorkspace
<1> QED BY <1>3, <1>4, <1>5, <1>6 DEF IInv

-----------------------------------------------------------------------------
\* Every step preserves the invariant: one lemma per group of actions.

\* Every operation of the user preserves the invariant.
LEMMA UserStep ==
  ASSUME IInv, User
  PROVE  IInv'
<1>0. Sound(app) /\ expired \subseteq Nat /\ pi \in PiState
  BY DEF IInv
<1>1. CASE ChooseWorkspace
  <2>1. /\ app.quit = "idle" /\ ~app.client
        /\ UNCHANGED <<pi, expired, connects>>
    BY <1>1 DEF ChooseWorkspace, UserActs
  <2>2. PICK w \in Workspaces, p \in BOOLEAN : app' = SetWorkspace(app, w, p)
    BY <1>1 DEF ChooseWorkspace
  <2>3. /\ Sound(app') /\ app'.workspace = w /\ app'.quit = "idle"
        /\ app'.saved = (IF app.workspace = w THEN app.saved ELSE NoSession)
        /\ ~app'.client
    BY <1>0, <2>1, <2>2, SetWorkspaceSound
  <2>4. app'.process = "not-running"
    BY <2>3 DEF Sound, Detached
  <2>5. SavedSessionOfWorkspace'
    BY <2>3 DEF IInv, SavedSessionOfWorkspace
  <2> QED BY <2>1, <2>3, <2>4, <2>5 DEF IInv, ExitSignalsProcess, PiOfWorkspace
<1>2. CASE RescanProfiles
  <2>1. /\ app.quit # "exited" /\ UNCHANGED <<pi, expired, connects>>
    BY <1>2 DEF RescanProfiles, UserActs
  <2>2. PICK p \in BOOLEAN : app' = RefreshProfiles(app, p)
    BY <1>2 DEF RescanProfiles
  <2>3. Sound(app') /\ Keeps(app, app')
    BY <1>0, <2>2, RefreshProfilesSound
  <2> QED BY <1>0, <2>1, <2>3, CallbackStep
<1>3. CASE Connect
  <2>1. /\ app.quit = "idle" /\ ~app.client /\ app' = ConnectAgent(app)
        /\ connects < MaxConnects /\ connects' = connects + 1 /\ expired' = {}
    BY <1>3 DEF Connect, UserActs, CanConnect
  <2>2. PICK s \in SessionId, f \in Succeeds("failed_tail") :
           /\ s[1] = app.workspace
           /\ pi' = [NoPi EXCEPT !.session = s, !.failed = ~f /\ app.saved # NoSession]
    BY <1>3 DEF Connect
  <2>3. /\ Sound(app') /\ app'.workspace = app.workspace /\ app'.saved = app.saved
        /\ app'.requested = app.saved /\ app'.quit = "idle"
    BY <1>0, <2>1, ConnectAgentSound
  <2>4. pi' \in PiState /\ pi'.session = s
    <3> DEFINE b == ~f /\ app.saved # NoSession
               next(x) == [NoPi EXCEPT !.session = s, !.failed = x]
    <3>1. b \in BOOLEAN
      OBVIOUS
    <3>2. ASSUME NEW x \in BOOLEAN PROVE next(x) \in PiState /\ next(x).session = s
      BY DEF NoPi, PiState
    <3>3. pi' = next(b)
      BY <2>2
    <3> HIDE DEF b, next
    <3> QED BY <3>1, <3>2, <3>3
  <2>5. SavedSessionOfWorkspace'
    BY <2>3 DEF IInv, SavedSessionOfWorkspace
  <2>6. PiOfWorkspace'
    BY <2>2, <2>3, <2>4 DEF PiOfWorkspace
  <2>7. connects' \in 0 .. MaxConnects
    BY <2>1, BoundsAssumption DEF IInv
  <2> QED BY <2>1, <2>3, <2>4, <2>5, <2>6, <2>7 DEF IInv, ExitSignalsProcess
<1>4. CASE ConnectRaises
  <2>1. /\ app.quit = "idle" /\ ~app.client /\ UNCHANGED <<pi, expired, connects>>
    BY <1>4 DEF ConnectRaises, UserActs, CanConnect
  <2>2. PICK turn \in {app.turn, "idle"} : app' = ConnectFails(app, turn)
    BY <1>4 DEF ConnectRaises
  <2>3. turn \in TurnState
    BY <1>0 DEF Sound, AppState, TurnState
  <2>4. Sound(app') /\ Keeps(app, app')
    BY <1>0, <2>1, <2>2, <2>3, ConnectFailsSound
  <2> QED BY <1>0, <2>1, <2>4, CallbackStep
<1>5. CASE Disconnect
  <2>1. /\ app.quit # "exited" /\ UNCHANGED <<pi, expired, connects>>
        /\ app' = DisconnectAgent(app)
    BY <1>5 DEF Disconnect, UserActs
  <2>2. Sound(app') /\ Keeps(app, app')
    BY <1>0, <2>1, DisconnectAgentSound
  <2> QED BY <1>0, <2>1, <2>2, CallbackStep
<1>6. CASE Prompt
  <2>1. /\ app.quit # "exited" /\ app.client /\ UNCHANGED <<pi, expired, connects>>
    BY <1>6 DEF Prompt, UserActs, CanSend
  <2>2. PICK written : app' = SendMessage(app, written)
    BY <1>6 DEF Prompt
  <2>3. Sound(app') /\ Keeps(app, app')
    BY <1>0, <2>1, <2>2, SendMessageSound
  <2> QED BY <1>0, <2>1, <2>3, CallbackStep
<1>7. CASE Stop
  <2>1. /\ app.quit # "exited" /\ app.client /\ UNCHANGED <<pi, expired, connects>>
    BY <1>7 DEF Stop, UserActs, CanStop
  <2>2. PICK written : app' = RequestStop(app, written)
    BY <1>7 DEF Stop
  <2>3. Sound(app') /\ Keeps(app, app')
    BY <1>0, <2>1, <2>2, RequestStopSound
  <2> QED BY <1>0, <2>1, <2>3, CallbackStep
<1>8. CASE CloseWindow
  <2>1. /\ app.quit = "idle" /\ UNCHANGED <<pi, expired, connects>>
        /\ app' = RequestShutdown(app)
    BY <1>8 DEF CloseWindow, UserActs
  <2>2. /\ Sound(app') /\ KeepsLink(app, app')
        /\ app'.quit \in {"active", "done"}
        /\ app'.quit = "active" => app'.watchdog
    BY <1>0, <2>1, RequestShutdownSound
  <2>3. SavedSessionOfWorkspace' /\ PiOfWorkspace'
    BY <2>1, <2>2
    DEF IInv, SavedSessionOfWorkspace, PiOfWorkspace, KeepsLink
  <2> QED BY <2>1, <2>2, <2>3 DEF IInv, ExitSignalsProcess
<1> QED
  BY <1>1, <1>2, <1>3, <1>4, <1>5, <1>6, <1>7, <1>8 DEF User

\* Every timer preserves the invariant.
LEMMA TimerStep ==
  ASSUME IInv, Timers
  PROVE  IInv'
<1>0. Sound(app) /\ expired \subseteq Nat
  BY DEF IInv
<1>1. CASE StartupTimeout
  <2>1. /\ app.quit # "exited" /\ UNCHANGED <<pi, expired, connects>>
        /\ app' = OnStartupTimeout(app)
    BY <1>1 DEF StartupTimeout, Running
  <2>2. Sound(app') /\ Keeps(app, app')
    BY <1>0, <2>1, OnStartupTimeoutSound
  <2> QED BY <1>0, <2>1, <2>2, CallbackStep
<1>2. CASE ShutdownTimeout
  <2>1. /\ app.quit # "exited" /\ UNCHANGED <<pi, expired, connects>>
        /\ app' = OnShutdownTimeout(app)
    BY <1>2 DEF ShutdownTimeout, Running
  <2>2. Sound(app') /\ Keeps(app, app')
    BY <1>0, <2>1, OnShutdownTimeoutSound
  <2> QED BY <1>0, <2>1, <2>2, CallbackStep
<1>3. CASE RequestTimeout
  <2>1. app.quit # "exited" /\ UNCHANGED <<pi, connects>>
    BY <1>3 DEF RequestTimeout, Running
  <2>2. PICK id \in app.deadlines : /\ app' = OnRequestTimeout(app, id)
                                    /\ expired' = expired \cup {id}
    BY <1>3 DEF RequestTimeout
  <2>3. expired' \subseteq Nat
    BY <1>0, <2>2 DEF Sound, AppState
  <2>4. Sound(app') /\ Keeps(app, app')
    BY <1>0, <2>2, OnRequestTimeoutSound
  <2> QED BY <2>1, <2>3, <2>4, CallbackStep
<1>4. CASE InactivityTimeout
  <2>1. /\ app.quit # "exited" /\ UNCHANGED <<pi, expired, connects>>
        /\ app' = OnInactivityTimeout(app)
    BY <1>4 DEF InactivityTimeout, Running
  <2>2. Sound(app') /\ Keeps(app, app')
    BY <1>0, <2>1, OnInactivityTimeoutSound
  <2> QED BY <1>0, <2>1, <2>2, CallbackStep
<1>5. CASE Watchdog
  <2>1. /\ app.quit # "exited" /\ UNCHANGED <<pi, expired, connects>>
        /\ app' = ForceFinish(app)
    BY <1>5 DEF Watchdog, Running
  <2>2. Sound(app') /\ KeepsLink(app, app') /\ app'.quit = "done"
    BY <1>0, <2>1, ForceFinishSound
  <2>3. SavedSessionOfWorkspace' /\ PiOfWorkspace'
    BY <2>1, <2>2
    DEF IInv, SavedSessionOfWorkspace, PiOfWorkspace, KeepsLink
  <2> QED BY <2>1, <2>2, <2>3 DEF IInv, ExitSignalsProcess
<1> QED
  BY <1>1, <1>2, <1>3, <1>4, <1>5 DEF Timers

\* The event loop ends: what is left of a connection is told to stop first.
LEMMA QuitStep ==
  ASSUME IInv, Quit
  PROVE  IInv'
<1> DEFINE b == DisconnectAgent(app)
<1>1. /\ app' = [b EXCEPT !.quit = "exited"]
      /\ UNCHANGED <<pi, expired, connects>>
  BY DEF Quit
<1>2. /\ Sound(b) /\ Keeps(app, b)
      /\ b.process # "not-running" => b.signal # "none"
  BY DisconnectAgentSound DEF IInv
<1> HIDE DEF b
<1>3. CloseOnly(b, app') /\ app'.quit = "exited"
  BY <1>1, <1>2, CloseFieldsFrame DEF Sound
<1>4. Sound(app')
  BY <1>2, <1>3, SoundIsCoherent, CloseOnlySound
<1>5. ExitSignalsProcess'
  BY <1>2, <1>3 DEF ExitSignalsProcess, CloseOnly
<1>6. SavedSessionOfWorkspace' /\ PiOfWorkspace'
  BY <1>1, <1>2, <1>3
  DEF IInv, SavedSessionOfWorkspace, PiOfWorkspace, Keeps, CloseOnly
<1> QED BY <1>1, <1>3, <1>4, <1>5, <1>6 DEF IInv

\* Every signal of the process preserves the invariant.
LEMMA ProcessSignalStep ==
  ASSUME IInv, Process
  PROVE  IInv'
<1>0. Sound(app) /\ expired \subseteq Nat
  BY DEF IInv
<1>1. ASSUME app.process # "not-running" PROVE app.client
  BY <1>0, <1>1 DEF Sound, Detached
<1> DEFINE gone == ProcessGone(app)
<1>2. ASSUME app.process # "not-running"
      PROVE  /\ Sound(gone) /\ KeepsButProcess(app, gone) /\ gone.client
             /\ gone.process = "not-running"
  BY <1>0, <1>1, <1>2, ProcessGoneSound
<1>3. CASE ProcessStarts
  <2>1. /\ app.quit # "exited" /\ app.process = "starting"
        /\ UNCHANGED <<pi, expired, connects>>
    BY <1>3 DEF ProcessStarts, Running
  <2>2. PICK written : app' = OnStarted(app, written)
    BY <1>3 DEF ProcessStarts
  <2>3. /\ Sound(app') /\ KeepsButProcess(app, app') /\ app'.process = "running"
    BY <1>0, <1>1, <2>1, <2>2, OnStartedSound
  <2> QED BY <2>1, <2>3, ProcessStep
<1>4. CASE SpawnFails
  <2>1. /\ app.quit # "exited" /\ app.process = "starting"
        /\ UNCHANGED <<pi, expired, connects>> /\ app' = OnProcessError(gone)
    BY <1>4 DEF SpawnFails, Running
  <2> HIDE DEF gone
  <2>2. Sound(app') /\ Keeps(gone, app')
    BY <1>2, <2>1, OnProcessErrorSound
  <2>3. KeepsButProcess(app, app') /\ app'.process = "not-running"
    BY <1>2, <2>1, <2>2, KeepsIsButProcess
  <2> QED BY <2>1, <2>2, <2>3, ProcessStep
<1>5. CASE ProcessExits
  <2>1. /\ app.quit # "exited" /\ app.process = "running"
        /\ pi' = NoPi /\ UNCHANGED <<expired, connects>>
    BY <1>5 DEF ProcessExits, MayExit, Running
  <2>2. PICK clean \in BOOLEAN, partial \in BOOLEAN :
           app' = OnFinished(gone, clean, partial)
    BY <1>5, Zenon DEF ProcessExits
  <2> HIDE DEF gone
  <2>3. Sound(app') /\ Keeps(gone, app')
    BY <1>2, <2>1, <2>2, OnFinishedSound
  <2>4. KeepsButProcess(app, app') /\ app'.process = "not-running"
    BY <1>2, <2>1, <2>3, KeepsIsButProcess
  <2> QED BY <2>1, <2>3, <2>4, ProcessStep
<1>6. CASE ProcessCrashes
  <2> DEFINE failed == OnProcessError(gone)
  <2>1. /\ app.quit # "exited" /\ app.process = "running"
        /\ pi' = NoPi /\ UNCHANGED <<expired, connects>>
    BY <1>6 DEF ProcessCrashes, MayExit, Running
  <2>2. PICK partial \in BOOLEAN : app' = OnFinished(failed, FALSE, partial)
    BY <1>6, Zenon DEF ProcessCrashes
  <2> HIDE DEF gone
  <2>3. Sound(failed) /\ Keeps(gone, failed) /\ failed.client
    BY <1>2, <2>1, OnProcessErrorSound
  <2>4. failed.process = "not-running"
    BY <1>2, <2>1, <2>3 DEF Keeps
  <2> HIDE DEF failed
  <2>5. PICK clean \in BOOLEAN : app' = OnFinished(failed, clean, partial)
    BY <2>2, Zenon
  <2>6. Sound(app') /\ Keeps(failed, app')
    BY <2>3, <2>4, <2>5, OnFinishedSound
  <2>7. KeepsButProcess(app, app') /\ app'.process = "not-running"
    BY <1>2, <2>1, <2>3, <2>6, KeepsTrans, KeepsIsButProcess
  <2> QED BY <2>1, <2>6, <2>7, ProcessStep
<1>7. CASE ChannelError
  <2>1. /\ app.quit # "exited" /\ app.process = "running"
        /\ UNCHANGED <<pi, expired, connects>> /\ app' = OnProcessError(app)
    BY <1>7 DEF ChannelError, Running
  <2>2. Sound(app') /\ Keeps(app, app')
    BY <1>0, <1>1, <2>1, OnProcessErrorSound
  <2> QED BY <1>0, <2>1, <2>2, CallbackStep
<1>8. CASE Garbage
  <2>1. /\ app.quit # "exited" /\ app.process = "running"
        /\ UNCHANGED <<pi, expired, connects>>
    BY <1>8 DEF Garbage, Running
  <2>2. PICK kill \in BOOLEAN : app' = TransportFail(app, kill)
    BY <1>8, Zenon DEF Garbage
  <2>3. Sound(app') /\ Keeps(app, app')
    BY <1>0, <1>1, <2>1, <2>2, TransportFailSound
  <2> QED BY <1>0, <2>1, <2>3, CallbackStep
<1> QED
  BY <1>3, <1>4, <1>5, <1>6, <1>7, <1>8 DEF Process

\* Pi stays in its workspace: a fork opens another session of the same one.
LEMMA PiAfterFrame ==
  ASSUME pi \in PiState, pi.session \in SessionId, NEW c, NEW q \in PiAfter(c)
  PROVE  /\ q \in PiState
         /\ q.session \in SessionId /\ q.session[1] = pi.session[1]
<1> DEFINE phased(p, f) == [pi EXCEPT !.phase = p, !.failed = f]
<1>1. ASSUME NEW p \in {"idle", "accepted", "running", "ended"}, NEW f \in BOOLEAN
      PROVE  phased(p, f) \in PiState /\ phased(p, f).session = pi.session
  BY DEF PiState
<1>3. CASE c = "prompt"
  <2>1. q = [pi EXCEPT !.phase = "accepted"]
    BY <1>3 DEF PiAfter
  <2> QED BY <2>1 DEF PiState
<1>4. CASE c = "abort" /\ pi.phase = "running"
  <2>1. q = phased("ended", FALSE)
    BY <1>4 DEF PiAfter
  <2> HIDE DEF phased
  <2> QED BY <1>1, <2>1
<1>5. CASE c = "fork"
  <2>1. q \in Forked
    BY <1>5 DEF PiAfter
  <2> QED BY <2>1 DEF Forked, PiState
<1>6. CASE c \notin {"prompt", "fork"} /\ ~(c = "abort" /\ pi.phase = "running")
  <2>1. q = pi
    BY <1>6 DEF PiAfter
  <2> QED BY <2>1
<1> QED BY <1>3, <1>4, <1>5, <1>6

\* An event leaves Pi in the session it has open.
LEMMA EmitsFrame ==
  ASSUME pi \in PiState, NEW type \in EventType, Emits(type)
  PROVE  pi' \in PiState /\ pi'.session = pi.session
<1> DEFINE new(p, r, f) == [pi EXCEPT !.phase = p, !.retrying = r, !.failed = f]
<1>1. ASSUME NEW p \in {"idle", "accepted", "running", "ended"},
             NEW r \in BOOLEAN, NEW f \in BOOLEAN
      PROVE  new(p, r, f) \in PiState /\ new(p, r, f).session = pi.session
  BY DEF PiState
<1>2. CASE type \in {"agent_start", "agent_settled", "auto_retry_start", "auto_retry_end"}
  <2>1. \/ pi' = [pi EXCEPT !.phase = "running"]
        \/ pi' = [pi EXCEPT !.phase = "idle"]
        \/ pi' = [pi EXCEPT !.retrying = TRUE]
        \/ pi' = [pi EXCEPT !.retrying = FALSE]
    BY <1>2 DEF Emits
  <2> QED BY <2>1 DEF PiState
<1>3. CASE type \in {"agent_end", "agent_end_error"}
  <2>1. \/ pi' = [pi EXCEPT !.phase = "ended", !.failed = TRUE]
        \/ pi' = [pi EXCEPT !.phase = "ended", !.failed = FALSE]
    BY <1>3 DEF Emits
  <2> QED BY <2>1 DEF PiState
<1>4. CASE type = "auto_retry_failed"
  <2> DEFINE b == (pi.phase = "running") \/ pi.failed
  <2>1. b \in BOOLEAN
    OBVIOUS
  <2>2. pi' = new("ended", FALSE, b)
    BY <1>4, Zenon DEF Emits
  <2> HIDE DEF b, new
  <2> QED BY <1>1, <2>1, <2>2
<1>5. CASE type \in {"turn_start", "tool_event", "text_delta", "message_end",
                     "extension_error"}
  BY <1>5 DEF Emits
<1> QED BY <1>2, <1>3, <1>4, <1>5 DEF EventType

\* Pi taking a command out of its inbox is silent.
LEMMA InboxSame ==
  ASSUME NEW a \in AppState, NEW id
  PROVE  Silent(a, [a EXCEPT !.inbox = @ \ {id}])
<1> DEFINE taken(i) == [a EXCEPT !.inbox = i]
<1>1. a.inbox \ {id} \in SUBSET Nat
  BY DEF AppState
<1>2. ASSUME NEW i \in SUBSET Nat PROVE Silent(a, taken(i))
  <2>1. taken(i) \in AppState
    BY DEF AppState
  <2> QED BY <2>1 DEF AppState, Silent, SameLink
<1>3. [a EXCEPT !.inbox = @ \ {id}] = taken(a.inbox \ {id})
  BY DEF AppState
<1> HIDE DEF taken
<1> QED BY <1>1, <1>2, <1>3

\* Every answer, silence and event of Pi preserves the invariant.
LEMMA PiStep ==
  ASSUME IInv, Pi
  PROVE  IInv'
<1>0. /\ Sound(app) /\ expired \subseteq Nat /\ pi \in PiState
      /\ app.process = "running" => pi.session \in SessionId
  BY DEF IInv, PiOfWorkspace
<1> DEFINE taken(id) == [app EXCEPT !.inbox = @ \ {id}]
<1>1. ASSUME NEW id PROVE Sound(taken(id)) /\ Keeps(app, taken(id))
  <2>1. Silent(app, taken(id))
    BY <1>0, InboxSame DEF Sound
  <2> HIDE DEF taken
  <2> QED BY <1>0, <2>1, SilentSound
<1>2. CASE PiAnswers
  <2>1. /\ app.quit # "exited" /\ app.process = "running"
        /\ UNCHANGED <<expired, connects>>
    BY <1>2 DEF PiAnswers, Running
  <2>a. PICK id \in app.inbox :
           \E r \in Answers(app.log[id].command) :
              /\ app' = OnResponse(taken(id), id, r)
              /\ pi' \in IF r.ok THEN PiAfter(app.log[id].command) ELSE {pi}
    BY <1>2 DEF PiAnswers
  <2>2. PICK r \in Answers(app.log[id].command) :
           /\ app' = OnResponse(taken(id), id, r)
           /\ pi' \in IF r.ok THEN PiAfter(app.log[id].command) ELSE {pi}
    BY <2>a
  <2> HIDE DEF taken
  <2>3. r \in Reply /\ r.session \in {pi.session, NoSession}
    BY <2>2 DEF Answers
  <2>4. /\ pi' \in PiState
        /\ pi'.session \in SessionId /\ pi'.session[1] = pi.session[1]
    BY <1>0, <2>1, <2>2, PiAfterFrame
  <2>5. taken(id).process # "not-running"
    BY <1>1, <2>1 DEF Keeps
  <2>6. Sound(app') /\ KeepsWith(taken(id), app', r.session)
    BY <1>1, <2>2, <2>3, <2>5, OnResponseSound
  <2>7. KeepsWith(app, app', r.session)
    BY <1>1, <2>6 DEF Keeps, KeepsWith
  <2>8. OfWorkspace(r.session)
    BY <2>1, <2>3 DEF OfWorkspace
  <2> QED BY <1>0, <2>1, <2>4, <2>6, <2>7, <2>8, KeepingStep
<1>3. CASE PiSilent
  <2>1. /\ app.quit # "exited" /\ app.process = "running"
        /\ UNCHANGED <<expired, connects>>
    BY <1>3 DEF PiSilent, Running
  <2>2. PICK id \in app.inbox :
           app' = taken(id) /\ pi' \in PiAfter(app.log[id].command)
    BY <1>3 DEF PiSilent
  <2>3. /\ pi' \in PiState
        /\ pi'.session \in SessionId /\ pi'.session[1] = pi.session[1]
    BY <1>0, <2>1, <2>2, PiAfterFrame
  <2> HIDE DEF taken
  <2>4. Sound(app') /\ KeepsWith(app, app', NoSession)
    BY <1>1, <2>2, KeepsIsKeepsWith
  <2> QED BY <1>0, <2>1, <2>3, <2>4, KeepingStep DEF OfWorkspace
<1>4. CASE PiEmits
  <2>1. /\ app.quit # "exited" /\ app.process = "running"
        /\ UNCHANGED <<expired, connects>>
    BY <1>4 DEF PiEmits, Running
  <2>2. PICK type \in EventType : Emits(type) /\ app' = OnEvent(app, type)
    BY <1>4 DEF PiEmits
  <2>3. pi' \in PiState /\ pi'.session = pi.session
    BY <1>0, <2>2, EmitsFrame
  <2>4. Sound(app') /\ Keeps(app, app')
    BY <1>0, <2>1, <2>2, OnEventSound
  <2>5. KeepsWith(app, app', NoSession)
    BY <2>4, KeepsIsKeepsWith
  <2> QED BY <1>0, <2>1, <2>3, <2>4, <2>5, KeepingStep DEF OfWorkspace
<1> QED
  BY <1>2, <1>3, <1>4 DEF Pi

-----------------------------------------------------------------------------
\* Every step preserves the invariant.
LEMMA IInvStep ==
  ASSUME IInv, [Next]_vars
  PROVE  IInv'
<1>1. CASE User
  BY <1>1, UserStep
<1>2. CASE Timers
  BY <1>2, TimerStep
<1>3. CASE Process
  BY <1>3, ProcessSignalStep
<1>4. CASE Pi
  BY <1>4, PiStep
<1>5. CASE Quit
  BY <1>5, QuitStep
<1>6. CASE Exited \/ UNCHANGED vars
  BY <1>6
  DEF Exited, vars, IInv, ExitSignalsProcess, SavedSessionOfWorkspace, PiOfWorkspace
<1> QED
  BY <1>1, <1>2, <1>3, <1>4, <1>5, <1>6 DEF Next

\* The invariant is inductive, and so holds in every reachable state.
THEOREM Invariance == Spec => []IInv
<1>1. Init => IInv
  BY InitIInv
<1>2. IInv /\ [Next]_vars => IInv'
  BY IInvStep
<1> QED
  BY <1>1, <1>2, PTL DEF Spec

\* Every reachable state has its type: no handler of the four classes leaves a
\* field outside its domain, in whatever order they are called.
THEOREM TypeCorrect == Spec => []TypeOK
<1>1. IInv => TypeOK
  BY DEF IInv, Sound, TypeOK
<1> QED BY <1>1, Invariance, PTL

\* connect_agent never starts a second process beside a live one: without a
\* client the last process, its requests and its deadlines are gone.
THEOREM NoOrphans == Spec => []NoOrphanProcess
<1>1. IInv => NoOrphanProcess
  BY DEF IInv, Sound, Detached, NoOrphanProcess
<1> QED BY <1>1, Invariance, PTL

\* AgentClient keeps pending requests and their deadlines in step.
THEOREM DeadlinesPaired == Spec => []DeadlinesFollowRequests
<1>1. IInv => DeadlinesFollowRequests
  BY DEF IInv, Sound, Paired, DeadlinesFollowRequests
<1> QED BY <1>1, Invariance, PTL

\* AppShutdownCoordinator waits only while the controller is stopping, with its
\* watchdog running.
THEOREM ClosingWaits == Spec => []ClosingWaitsForStop
<1>1. IInv => ClosingWaitsForStop
  BY DEF IInv, Sound, Waiting, ClosingWaitsForStop
<1> QED BY <1>1, Invariance, PTL

\* When main.py's event loop has ended, a Pi process that is left was told to end.
THEOREM ExitSignals == Spec => []ExitSignalsProcess
<1>1. IInv => ExitSignalsProcess
  BY DEF IInv
<1> QED BY <1>1, Invariance, PTL

\* AgentController never saves or requests a session of another workspace.
THEOREM SessionOfWorkspace == Spec => []SavedSessionOfWorkspace
<1>1. IInv => SavedSessionOfWorkspace
  BY DEF IInv
<1> QED BY <1>1, Invariance, PTL

-----------------------------------------------------------------------------
(***************************************************************************)
(* The requests and Pi.  Talk says what the application may still be       *)
(* answered; the parts below relate it to what Pi has done by then and to  *)
(* the deadlines that have passed.                                         *)
(***************************************************************************)

NoForkWaits == \A i \in app.inbox : app.log[i].command # "fork"

\* The session Pi has open is the saved one from the reply that names it on,
\* unless a fork that Pi has not handled yet is still to open another one.
Opens ==
    /\ app.connection = "ready" \/ Asked(app, "get_messages") =>
          app.saved = pi.session /\ NoForkWaits
    /\ Asked(app, "get_state") => Written(app, "fork") = {}
    /\ Asked(app, "get_recovered_state") => NoForkWaits

\* Pi runs no turn before a turn command was written.
PiIdle == ~TurnStarted(app) => pi.phase = "idle" /\ ~pi.retrying

\* A deadline passes once, for a request that waits no more.
Expiry == expired \cap app.pending = {} /\ expired \subseteq DOMAIN app.log

\* An expired turn command keeps the composer closed.
Blocked ==
    app.client /\ (\E id \in expired : app.log[id].command \in TurnCommand)
        => app.requires_reconciliation

TInv ==
    /\ IInv
    /\ Talk(app)
    /\ Opens
    /\ PiIdle
    /\ Expiry
    /\ Blocked
    /\ AbortFollowsClearQueue

-----------------------------------------------------------------------------
\* What a step does to the requests, by what was written.

\* Pi does nothing, is gone, handles a command it was sent, or emits an event.
PiMoves ==
    \/ pi' = pi
    \/ pi' = NoPi /\ app'.pending = {} /\ app'.connection # "ready"
    \/ \E id \in app.inbox : pi' \in PiAfter(app.log[id].command)
    \/ \E type \in EventType : Emits(type)

\* Nothing is written.
Quiet == Gentle(app, app') /\ PiMoves /\ expired' = expired

\* A callback of connect_agent's chain of requests.
SetUp(id, r) ==
    /\ id \in Hydrating(app)
    /\ id \notin app'.pending \cup app'.inbox
    /\ r \in Answers(app.log[id].command)
    /\ SetUpOutcome(app, app', app.log[id].command, r)
    /\ pi' \in IF r.ok THEN PiAfter(app.log[id].command) ELSE {pi}
    /\ expired' = expired

\* The user writes a command of a turn.
Command(c) ==
    /\ WritesTurn(app, app', c)
    /\ UNCHANGED <<pi, expired>>

\* The answer to a clear_queue makes the controller write an abort.
Abort(id) ==
    /\ id \in app.pending /\ id \notin app'.pending
    /\ app.log[id].command = "clear_queue"
    /\ Writes(app, app', "abort", 0)
    /\ Talk(app') /\ StaysUncertain(app, app') /\ app'.saved = app.saved
    /\ UNCHANGED <<pi, expired>>

\* connect_agent: a new process, to which nothing was written.
Connected ==
    /\ ~app.client
    /\ Talk(app') /\ StaysUncertain(app, app')
    /\ app'.log = <<>> /\ app'.pending = {} /\ app'.inbox = {}
    /\ app'.client /\ app'.open /\ app'.connection = "starting"
    /\ ~app'.requires_reconciliation
    /\ pi'.phase = "idle" /\ ~pi'.retrying
    /\ expired' = {}

\* _on_started: the first request of the set-up, if the start was not overtaken
\* by a stop or a failure.
Started ==
    /\ app.client /\ app.connection # "ready" /\ app.log = <<>>
    /\ app.open => app.connection = "starting"
    /\ Talk(app') /\ StaysUncertain(app, app')
    /\ \A i \in DOMAIN app'.log : app'.log[i].command = "get_state"
    /\ app'.client => ~app.requires_reconciliation /\ ~app'.requires_reconciliation
    /\ \/ app'.connection = "loading-session" /\ app'.client /\ app'.open = app.open
       \/ app'.connection \in {"disconnected", "stopping", "failed"}
    /\ UNCHANGED <<pi, expired>>

\* _on_request_timeout: the request waits no more; one of a turn closes the
\* composer.
TimedOut(id) ==
    /\ id \in app.pending
    /\ Talk(app') /\ Wanes(app, app') /\ KeepsPhase(app, app')
    /\ app'.pending = app.pending \ {id}
    /\ \/ app.log[id].command \notin TurnCommand /\ Gentle(app, app')
       \/ /\ app.log[id].command \in TurnCommand
          /\ app'.connection = app.connection /\ app'.client = app.client
          /\ app'.open = app.open /\ app'.requires_reconciliation
    /\ expired' = expired \cup {id}
    /\ pi' = pi

\* Every step is of one of these kinds.
Kind ==
    \/ Quiet
    \/ Connected
    \/ Started
    \/ \E id : TimedOut(id)
    \/ \E id, r : SetUp(id, r)
    \/ CanSend(app) /\ Command("prompt")
    \/ Command("clear_queue")
    \/ \E id : Abort(id)

-----------------------------------------------------------------------------
\* Every action is of one of these kinds.

\* connect_agent.
LEMMA ConnectEffect ==
  ASSUME IInv, Talk(app), Connect
  PROVE  Connected
<1>1. /\ app.quit = "idle" /\ ~app.client /\ app' = ConnectAgent(app) /\ expired' = {}
  BY DEF Connect, UserActs, CanConnect
<1>2. pi'.phase = "idle" /\ ~pi'.retrying
  <2>1. PICK s \in SessionId, f \in Succeeds("failed_tail") :
           pi' = [NoPi EXCEPT !.session = s, !.failed = ~f /\ app.saved # NoSession]
    BY DEF Connect
  <2> DEFINE next(x) == [NoPi EXCEPT !.session = s, !.failed = x]
             b == ~f /\ app.saved # NoSession
  <2>2. ASSUME NEW x PROVE next(x).phase = "idle" /\ ~next(x).retrying
    BY DEF NoPi
  <2>3. pi' = next(b)
    BY <2>1
  <2> HIDE DEF next, b
  <2> QED BY <2>2, <2>3
<1>3. Sound(app)
  BY DEF IInv
<1> QED BY <1>1, <1>2, <1>3, ConnectAgentTalk DEF Connected

\* _on_started.
LEMMA StartEffect ==
  ASSUME IInv, Talk(app), ProcessStarts
  PROVE  Started
<1>1. Sound(app) /\ app.process = "starting" /\ UNCHANGED <<pi, expired>>
  BY DEF IInv, ProcessStarts
<1>2. PICK written : app' = OnStarted(app, written)
  BY DEF ProcessStarts
<1>3. app.client /\ (app.open => app.connection = "starting")
  BY <1>1 DEF Sound, Detached, Talk, Hydrates
<1> QED BY <1>1, <1>2, <1>3, OnStartedTalk DEF Started

\* _on_request_timeout of both classes.
LEMMA TimeoutEffect ==
  ASSUME IInv, Talk(app), RequestTimeout
  PROVE  \E id : TimedOut(id)
<1>1. Sound(app) /\ pi' = pi
  BY DEF IInv, RequestTimeout
<1>2. PICK id \in app.deadlines : /\ app' = OnRequestTimeout(app, id)
                                  /\ expired' = expired \cup {id}
  BY DEF RequestTimeout
<1>3. TimedOut(id)
  BY <1>1, <1>2, OnRequestTimeoutTalk DEF TimedOut
<1> QED BY <1>3

\* What the operations of the user write.
LEMMA UserKind ==
  ASSUME IInv, Talk(app), User
  PROVE  Kind
<1>0. Sound(app) /\ app \in AppState
  BY DEF IInv, Sound
<1>1. ASSUME UNCHANGED <<pi, expired>>, Gentle(app, app')
      PROVE  Kind
  BY <1>1 DEF Kind, Quiet, PiMoves
<1>2. CASE ChooseWorkspace
  <2>1. PICK w \in Workspaces, p \in BOOLEAN : app' = SetWorkspace(app, w, p)
    BY <1>2 DEF ChooseWorkspace
  <2>2. ~app.client /\ UNCHANGED <<pi, expired>>
    BY <1>2 DEF ChooseWorkspace
  <2> QED BY <1>0, <1>1, <2>1, <2>2, SetWorkspaceGentle
<1>3. CASE RescanProfiles
  <2>1. PICK p \in BOOLEAN : app' = RefreshProfiles(app, p)
    BY <1>3 DEF RescanProfiles
  <2>2. UNCHANGED <<pi, expired>>
    BY <1>3 DEF RescanProfiles
  <2> QED BY <1>0, <1>1, <2>1, <2>2, RefreshProfilesGentle
<1>4. CASE Connect
  BY <1>4, ConnectEffect DEF Kind
<1>5. CASE ConnectRaises
  <2>1. app.quit = "idle" /\ ~app.client /\ UNCHANGED <<pi, expired>>
    BY <1>5 DEF ConnectRaises, UserActs, CanConnect
  <2>2. PICK turn \in {app.turn, "idle"} : app' = ConnectFails(app, turn)
    BY <1>5 DEF ConnectRaises
  <2>3. turn \in TurnState
    BY <1>0 DEF AppState, TurnState
  <2> QED BY <1>0, <1>1, <2>1, <2>2, <2>3, ConnectFailsGentle
<1>6. CASE Disconnect
  BY <1>0, <1>1, <1>6, DisconnectAgentGentle DEF Disconnect
<1>7. CASE Prompt
  <2>1. CanSend(app) /\ UNCHANGED <<pi, expired>>
    BY <1>7 DEF Prompt
  <2>2. PICK written : app' = SendMessage(app, written)
    BY <1>7 DEF Prompt
  <2>3. Gentle(app, app') \/ WritesTurn(app, app', "prompt")
    BY <1>0, <2>1, <2>2, SendMessageWrites
  <2> QED BY <1>1, <2>1, <2>3 DEF Kind, Command
<1>8. CASE Stop
  <2>1. CanStop(app) /\ UNCHANGED <<pi, expired>>
    BY <1>8 DEF Stop
  <2>2. PICK written : app' = RequestStop(app, written)
    BY <1>8 DEF Stop
  <2>3. Gentle(app, app') \/ WritesTurn(app, app', "clear_queue")
    BY <1>0, <2>1, <2>2, RequestStopWrites
  <2> QED BY <1>1, <2>1, <2>3 DEF Kind, Command
<1>9. CASE CloseWindow
  BY <1>0, <1>1, <1>9, RequestShutdownGentle DEF CloseWindow
<1> QED
  BY <1>2, <1>3, <1>4, <1>5, <1>6, <1>7, <1>8, <1>9 DEF User

\* The timers write nothing.
LEMMA TimerKind ==
  ASSUME IInv, Talk(app), Timers
  PROVE  Kind
<1>0. Sound(app) /\ app \in AppState
  BY DEF IInv, Sound
<1>1. ASSUME UNCHANGED <<pi, expired>>, Gentle(app, app')
      PROVE  Kind
  BY <1>1 DEF Kind, Quiet, PiMoves
<1>2. CASE StartupTimeout
  BY <1>0, <1>1, <1>2, OnStartupTimeoutGentle DEF StartupTimeout
<1>3. CASE ShutdownTimeout
  <2>1. ~app.open
    BY <1>3 DEF ShutdownTimeout, Talk, Hydrates
  <2> QED BY <1>0, <1>1, <1>3, <2>1, OnShutdownTimeoutGentle DEF ShutdownTimeout
<1>4. CASE RequestTimeout
  BY <1>4, TimeoutEffect DEF Kind
<1>5. CASE InactivityTimeout
  BY <1>0, <1>1, <1>5, OnInactivityTimeoutGentle DEF InactivityTimeout
<1>6. CASE Watchdog
  BY <1>0, <1>1, <1>6, ForceFinishGentle DEF Watchdog
<1> QED
  BY <1>2, <1>3, <1>4, <1>5, <1>6 DEF Timers

\* The end of the event loop writes nothing.
LEMMA QuitKind ==
  ASSUME IInv, Talk(app), Quit
  PROVE  Kind
<1> DEFINE b == DisconnectAgent(app)
<1>1. app' = [b EXCEPT !.quit = "exited"] /\ UNCHANGED <<pi, expired>>
  BY DEF Quit
<1>2. Gentle(app, b) /\ b \in AppState
  BY DisconnectAgentGentle DEF IInv, Sound
<1> HIDE DEF b
<1>3. Gentle(b, app')
  BY <1>1, <1>2, CloseFieldsGentle
<1>4. Gentle(app, app')
  BY <1>2, <1>3, GentleTrans
<1> QED BY <1>1, <1>4 DEF Kind, Quiet, PiMoves

\* The end of the process, and what its channels report, write nothing.
LEMMA ProcessKind ==
  ASSUME IInv, Talk(app), Process
  PROVE  Kind
<1>0. Sound(app) /\ app \in AppState
  BY DEF IInv, Sound
<1>1. ASSUME UNCHANGED <<pi, expired>>, Gentle(app, app')
      PROVE  Kind
  BY <1>1 DEF Kind, Quiet, PiMoves
<1>2. app.transport # "ready" => app.pending = {} /\ app.connection # "ready"
  BY <1>0 DEF Sound, Paired, Talk, Hydrates
<1>3. ASSUME app.process # "not-running" PROVE app.transport # "stopped"
  BY <1>0, <1>3 DEF Sound, Detached
<1> DEFINE gone == ProcessGone(app)
<1>4. /\ gone \in AppState /\ gone.process = "not-running" /\ gone.pending = app.pending
      /\ gone.transport = app.transport /\ gone.connection = app.connection
  BY <1>0, ProcessGoneGone DEF Gone
<1> HIDE DEF gone
<1>5. CASE ProcessStarts
  BY <1>5, StartEffect DEF Kind
<1>6. CASE SpawnFails
  <2>1. /\ app.process = "starting" /\ UNCHANGED <<pi, expired>>
        /\ app' = OnProcessError(ProcessGone(app))
    BY <1>6 DEF SpawnFails
  <2> QED BY <1>0, <1>1, <1>2, <1>3, <2>1, ProcessEndsGentle
<1>7. CASE ProcessExits
  <2>1. app.process = "running" /\ pi' = NoPi /\ expired' = expired
    BY <1>7 DEF ProcessExits, MayExit
  <2>2. PICK clean \in BOOLEAN, partial \in BOOLEAN : app' = OnFinished(gone, clean, partial)
    BY <1>7, Zenon DEF ProcessExits, gone
  <2>3. Gentle(app, app')
    BY <1>0, <1>2, <1>3, <2>1, <2>2, ProcessEndsGentle DEF gone
  <2>4. app'.pending = {} /\ app'.connection # "ready"
    BY <1>2, <1>3, <1>4, <2>1, <2>2, OnFinishedGentle
  <2> QED BY <2>1, <2>3, <2>4 DEF Kind, Quiet, PiMoves
<1>8. CASE ProcessCrashes
  <2> DEFINE failed == OnProcessError(gone)
  <2>1. app.process = "running" /\ pi' = NoPi /\ expired' = expired
    BY <1>8 DEF ProcessCrashes, MayExit
  <2>2. PICK partial \in BOOLEAN : app' = OnFinished(failed, FALSE, partial)
    BY <1>8, Zenon DEF ProcessCrashes, gone
  <2>3. Gentle(app, app')
    <3>1. PICK clean \in BOOLEAN : app' = OnFinished(failed, clean, partial)
      BY <2>2, Zenon
    <3> QED BY <1>0, <1>2, <1>3, <2>1, <3>1, ProcessEndsGentle DEF gone
  <2>4. /\ failed \in AppState /\ failed.process = "not-running" /\ failed.pending = {}
        /\ failed.transport \in {"stopping", "failed"} /\ failed.connection # "ready"
    <3>1. gone.process # "starting" /\ (gone.transport # "ready" => gone.pending = {})
      BY <1>2, <1>4
    <3> QED BY <1>2, <1>4, <3>1, OnProcessErrorGentle
  <2> HIDE DEF failed
  <2>5. app'.pending = {} /\ app'.connection # "ready"
    <3>1. PICK clean \in BOOLEAN : app' = OnFinished(failed, clean, partial)
      BY <2>2, Zenon
    <3> QED BY <2>4, <3>1, OnFinishedGentle
  <2> QED BY <2>1, <2>3, <2>5 DEF Kind, Quiet, PiMoves
<1>9. CASE ChannelError
  <2>1. /\ app.process = "running" /\ UNCHANGED <<pi, expired>>
        /\ app' = OnProcessError(app)
    BY <1>9 DEF ChannelError
  <2> QED BY <1>0, <1>1, <1>2, <2>1, OnProcessErrorGentle
<1>10. CASE Garbage
  <2>1. /\ UNCHANGED <<pi, expired>>
        /\ \E kill \in BOOLEAN : kill /\ app' = TransportFail(app, kill)
    <3>1. app' = TransportFail(app, TRUE) /\ UNCHANGED <<pi, expired>>
      BY <1>10 DEF Garbage
    <3> QED BY <3>1, Zenon
  <2>2. app.transport = "failed" => app.pending = {}
    BY <1>2
  <2> QED BY <1>0, <1>1, <2>1, <2>2, TransportFailGentle
<1> QED
  BY <1>5, <1>6, <1>7, <1>8, <1>9, <1>10 DEF Process

\* After a turn command nothing of the set-up is under way; before one, Pi can
\* only report the error of an extension.
LEMMA EventsInTurn ==
  ASSUME Talk(app), PiIdle, NEW type \in EventType, Emits(type)
  PROVE  LinkOver(app) \/ type = "extension_error"
<1>1. TurnStarted(app) => LinkOver(app)
  BY DEF Talk, Hydrates, LinkOver
<1>2. ASSUME pi.phase = "idle", ~pi.retrying PROVE type = "extension_error"
  BY <1>2 DEF Emits, EventType
<1> QED BY <1>1, <1>2 DEF PiIdle

\* What Pi's answers make the application write.
LEMMA PiKind ==
  ASSUME IInv, Talk(app), PiIdle, Pi
  PROVE  Kind
<1>0. Sound(app) /\ app \in AppState
  BY DEF IInv, Sound
<1>2. CASE PiAnswers
  <2>1. app.process = "running" /\ expired' = expired
    BY <1>2 DEF PiAnswers
  <2>2. PICK id \in app.inbox :
           \E r \in Answers(app.log[id].command) :
              /\ app' = OnResponse(Taken(app, id), id, r)
              /\ pi' \in IF r.ok THEN PiAfter(app.log[id].command) ELSE {pi}
    BY <1>2 DEF PiAnswers, Taken
  <2>3. PICK r \in Answers(app.log[id].command) :
           /\ app' = OnResponse(Taken(app, id), id, r)
           /\ pi' \in IF r.ok THEN PiAfter(app.log[id].command) ELSE {pi}
    BY <2>2
  <2>4. r \in Reply
    BY <2>3 DEF Answers
  <2>5. \/ Gentle(app, app')
        \/ /\ id \in Hydrating(app) /\ id \notin app'.pending \cup app'.inbox
           /\ SetUpOutcome(app, app', app.log[id].command, r)
        \/ /\ id \in app.pending /\ id \notin app'.pending
           /\ app.log[id].command = "clear_queue"
           /\ Writes(app, app', "abort", 0) /\ Talk(app')
           /\ StaysUncertain(app, app') /\ app'.saved = app.saved
    BY <1>0, <2>1, <2>3, <2>4, OnResponseOutcome
  <2>6. CASE Gentle(app, app')
    BY <2>1, <2>3, <2>6 DEF Kind, Quiet, PiMoves
  <2>7. CASE /\ id \in Hydrating(app) /\ id \notin app'.pending \cup app'.inbox
             /\ SetUpOutcome(app, app', app.log[id].command, r)
    BY <2>1, <2>3, <2>7 DEF Kind, SetUp
  <2>8. CASE /\ id \in app.pending /\ id \notin app'.pending
             /\ app.log[id].command = "clear_queue"
             /\ Writes(app, app', "abort", 0) /\ Talk(app')
             /\ StaysUncertain(app, app') /\ app'.saved = app.saved
    <3>1. pi' = pi
      BY <2>3, <2>8 DEF PiAfter
    <3> QED BY <2>1, <2>8, <3>1 DEF Kind, Abort
  <2> QED BY <2>5, <2>6, <2>7, <2>8
<1>3. CASE PiSilent
  <2>1. expired' = expired
    BY <1>3 DEF PiSilent
  <2>2. PICK id \in app.inbox :
           app' = Taken(app, id) /\ pi' \in PiAfter(app.log[id].command)
    BY <1>3 DEF PiSilent, Taken
  <2>3. Gentle(app, app')
    BY <1>0, <2>2, TakenGentle
  <2> QED BY <2>1, <2>2, <2>3 DEF Kind, Quiet, PiMoves
<1>4. CASE PiEmits
  <2>1. expired' = expired
    BY <1>4 DEF PiEmits
  <2>2. PICK type \in EventType : Emits(type) /\ app' = OnEvent(app, type)
    BY <1>4 DEF PiEmits
  <2>3. LinkOver(app) \/ type = "extension_error"
    BY <2>2, EventsInTurn
  <2>4. Gentle(app, app')
    BY <1>0, <2>2, <2>3, OnEventGentle
  <2> QED BY <2>1, <2>2, <2>4 DEF Kind, Quiet, PiMoves
<1> QED
  BY <1>2, <1>3, <1>4 DEF Pi

\* Every step that changes something is of one of the kinds.
LEMMA EveryStepIsAKind ==
  ASSUME IInv, Talk(app), PiIdle, [Next]_vars
  PROVE  Kind \/ UNCHANGED vars
BY UserKind, TimerKind, ProcessKind, PiKind, QuitKind DEF Next, Exited

\* Every step keeps the requests in order.
LEMMA TalkStep ==
  ASSUME Talk(app), Kind
  PROVE  Talk(app')
<1>1. Quiet => Talk(app')
  BY GentleTalk DEF Quiet
<1>2. ASSUME NEW id, NEW r, SetUp(id, r) PROVE Talk(app')
  BY <1>2 DEF SetUp, SetUpOutcome
<1>3. ASSUME NEW c, Command(c) PROVE Talk(app')
  BY <1>3 DEF Command, WritesTurn
<1>4. ASSUME NEW id, Abort(id) PROVE Talk(app')
  BY <1>4 DEF Abort
<1>5. Connected \/ Started => Talk(app')
  BY DEF Connected, Started
<1>6. ASSUME NEW id, TimedOut(id) PROVE Talk(app')
  BY <1>6 DEF TimedOut
<1> QED BY <1>1, <1>2, <1>3, <1>4, <1>5, <1>6 DEF Kind

-----------------------------------------------------------------------------
\* What Pi does to its own state.

\* Only a turn command starts a turn, and only a fork changes the session.
LEMMA PiAfterKinds ==
  ASSUME pi \in PiState, NEW c, NEW q \in PiAfter(c)
  PROVE  /\ c \notin TurnCommand => q.phase = pi.phase /\ q.retrying = pi.retrying
         /\ c # "fork" => q.session = pi.session
         /\ c \notin {"prompt", "abort", "fork"} => q = pi
<1> DEFINE phased(p, f) == [pi EXCEPT !.phase = p, !.failed = f]
<1>1. ASSUME NEW p, NEW f PROVE phased(p, f).session = pi.session
  BY DEF PiState
<1>2. CASE c = "prompt"
  <2>1. q = [pi EXCEPT !.phase = "accepted"]
    BY <1>2 DEF PiAfter
  <2> QED BY <1>2, <2>1 DEF PiState, TurnCommand
<1>3. CASE c = "abort" /\ pi.phase = "running"
  <2>1. q = phased("ended", FALSE)
    BY <1>3 DEF PiAfter
  <2> HIDE DEF phased
  <2> QED BY <1>1, <1>3, <2>1 DEF TurnCommand
<1>4. CASE c = "fork"
  <2>1. q \in Forked
    BY <1>4 DEF PiAfter
  <2> QED BY <1>4, <2>1 DEF Forked
<1>5. CASE c \notin {"prompt", "fork"} /\ ~(c = "abort" /\ pi.phase = "running")
  <2>1. q = pi
    BY <1>5 DEF PiAfter
  <2> QED BY <2>1
<1> QED BY <1>2, <1>3, <1>4, <1>5

\* Before a turn Pi emits the error of an extension at most.
LEMMA EmitsIdle ==
  ASSUME pi.phase = "idle", ~pi.retrying, NEW type \in EventType, Emits(type)
  PROVE  pi' = pi
BY DEF Emits, EventType

\* A turn starts in Pi only after a turn command was written.
LEMMA PiIdleStep ==
  ASSUME TInv, Kind
  PROVE  PiIdle'
<1>0. pi \in PiState /\ app.inbox \subseteq DOMAIN app.log
  BY DEF TInv, IInv, Talk, Logged
<1>1. ASSUME app'.log = app.log PROVE TurnStarted(app') <=> TurnStarted(app)
  BY <1>1 DEF TurnStarted
<1>2. ASSUME NEW c, NEW m, Writes(app, app', c, m), ~TurnStarted(app')
      PROVE  ~TurnStarted(app) /\ c \notin TurnCommand
  BY <1>2 DEF TurnStarted, Writes
<1>3. ASSUME ~TurnStarted(app) PROVE pi.phase = "idle" /\ ~pi.retrying
  BY <1>3 DEF TInv, PiIdle
<1>4. CASE Quiet
  <2>1. app'.log = app.log
    BY <1>4 DEF Quiet, Gentle, Calm, Wanes
  <2>2. ASSUME ~TurnStarted(app) PROVE pi'.phase = "idle" /\ ~pi'.retrying
    <3>1. CASE pi' = pi
      BY <1>3, <2>2, <3>1
    <3>2. CASE pi' = NoPi
      BY <3>2 DEF NoPi
    <3>3. ASSUME NEW id \in app.inbox, pi' \in PiAfter(app.log[id].command)
          PROVE  pi'.phase = "idle" /\ ~pi'.retrying
      <4>1. app.log[id].command \notin TurnCommand
        BY <1>0, <2>2, <3>3 DEF TurnStarted
      <4> QED BY <1>0, <1>3, <2>2, <3>3, <4>1, PiAfterKinds
    <3>4. ASSUME NEW type \in EventType, Emits(type)
          PROVE  pi'.phase = "idle" /\ ~pi'.retrying
      BY <1>3, <2>2, <3>4, EmitsIdle
    <3> QED BY <1>4, <3>1, <3>2, <3>3, <3>4 DEF Quiet, PiMoves
  <2> QED BY <1>1, <2>1, <2>2 DEF PiIdle
<1>5. CASE Connected
  BY <1>5 DEF Connected, PiIdle
<1>6. CASE Started
  <2>1. ~TurnStarted(app) /\ pi' = pi
    BY <1>6 DEF Started, TurnStarted
  <2> QED BY <1>3, <2>1 DEF PiIdle
<1>7. ASSUME NEW id, TimedOut(id) PROVE PiIdle'
  <2>1. app'.log = app.log /\ pi' = pi
    BY <1>7 DEF TimedOut, Wanes
  <2> QED BY <1>1, <1>3, <2>1 DEF PiIdle
<1>8. ASSUME NEW id, NEW r, SetUp(id, r) PROVE PiIdle'
  <2>1. app.log[id].command \in HydrationCommand
    BY <1>8 DEF SetUp, Hydrating
  <2>2. pi'.phase = pi.phase /\ pi'.retrying = pi.retrying
    BY <1>0, <1>8, <2>1, KindsDiffer, PiAfterKinds DEF SetUp
  <2>3. ~TurnStarted(app') => ~TurnStarted(app)
    BY <1>1, <1>2, <1>8 DEF SetUp, SetUpOutcome, Ends, BecomesReady
  <2> QED BY <1>3, <2>2, <2>3 DEF PiIdle
<1>9. ASSUME NEW c, Command(c) PROVE PiIdle'
  <2>1. pi' = pi /\ \E m : Writes(app, app', c, m)
    BY <1>9 DEF Command, WritesTurn
  <2> QED BY <1>2, <1>3, <2>1 DEF PiIdle
<1>10. ASSUME NEW id, Abort(id) PROVE PiIdle'
  <2>1. pi' = pi /\ Writes(app, app', "abort", 0)
    BY <1>10 DEF Abort
  <2> QED BY <1>2, <1>3, <2>1 DEF PiIdle
<1> QED BY <1>4, <1>5, <1>6, <1>7, <1>8, <1>9, <1>10 DEF Kind

-----------------------------------------------------------------------------
\* Deadlines that have passed

\* Writing a command leaves the commands that were written what they are.
LEMMA WritesKeepsLog ==
  ASSUME NEW c, NEW m, Writes(app, app', c, m)
  PROVE  /\ \A i \in DOMAIN app.log :
               i \in DOMAIN app'.log /\ app'.log[i].command = app.log[i].command
         /\ \A d : d # c => Written(app', d) = Written(app, d)
         /\ \E n \in app'.pending :
               n \notin DOMAIN app.log /\ Written(app', c) = Written(app, c) \cup {n}
         /\ app'.pending \cap DOMAIN app.log \subseteq app.pending
BY DEF Writes, Written

\* No expired request waits again, and the composer stays closed over an expired
\* turn command.
LEMMA DeadlineStep ==
  ASSUME TInv, Kind
  PROVE  Expiry' /\ Blocked'
<1>0. /\ expired \cap app.pending = {} /\ expired \subseteq DOMAIN app.log
      /\ app.pending \subseteq DOMAIN app.log
      /\ \/ ~app.client \/ app.requires_reconciliation
         \/ \A id \in expired : app.log[id].command \notin TurnCommand
  BY DEF TInv, Talk, Logged, Expiry, Blocked
<1>1. ASSUME NEW c, NEW m, Writes(app, app', c, m), expired' = expired
      PROVE  Expiry' /\ Blocked'
  <2>1. /\ app'.client = app.client
        /\ app'.requires_reconciliation = app.requires_reconciliation
    BY <1>1 DEF Writes
  <2>2. Expiry'
    BY <1>0, <1>1, WritesKeepsLog DEF Expiry
  <2>3. Blocked'
    BY <1>0, <1>1, <2>1, WritesKeepsLog DEF Blocked
  <2> QED BY <2>2, <2>3
<1>2. CASE Quiet
  BY <1>0, <1>2 DEF Quiet, Gentle, Calm, Wanes, SameBlock, Expiry, Blocked
<1>3. CASE Connected
  BY <1>3 DEF Connected, Expiry, Blocked
<1>4. CASE Started
  <2>1. expired = {} /\ expired' = {}
    BY <1>0, <1>4 DEF Started
  <2> QED BY <2>1 DEF Expiry, Blocked
<1>5. ASSUME NEW id, TimedOut(id) PROVE Expiry' /\ Blocked'
  <2>1. /\ app'.log = app.log /\ app'.pending = app.pending \ {id}
        /\ id \in app.pending /\ expired' = expired \cup {id}
        /\ app'.client => app.client
    BY <1>5 DEF TimedOut, Wanes
  <2>2. Expiry'
    BY <1>0, <2>1 DEF Expiry
  <2>3. Blocked'
    BY <1>0, <1>5, <2>1 DEF Blocked, TimedOut, Gentle, Calm, SameBlock
  <2> QED BY <2>2, <2>3
<1>6. ASSUME NEW id, NEW r, SetUp(id, r) PROVE Expiry' /\ Blocked'
  <2>1. expired' = expired /\ SetUpOutcome(app, app', app.log[id].command, r)
    BY <1>6 DEF SetUp
  <2>2. CASE Ends(app, app')
    BY <1>0, <2>1, <2>2 DEF Ends, Expiry, Blocked
  <2>3. CASE BecomesReady(app, app')
    <3>1. ~TurnStarted(app)
      BY <1>6 DEF SetUp, TInv, Talk, Hydrates
    <3> QED BY <1>0, <2>1, <2>3, <3>1 DEF BecomesReady, Expiry, Blocked, TurnStarted
  <2> QED BY <1>1, <2>1, <2>2, <2>3 DEF SetUpOutcome
<1>7. ASSUME NEW c, Command(c) PROVE Expiry' /\ Blocked'
  BY <1>1, <1>7 DEF Command, WritesTurn
<1>8. ASSUME NEW id, Abort(id) PROVE Expiry' /\ Blocked'
  BY <1>1, <1>8 DEF Abort
<1> QED BY <1>2, <1>3, <1>4, <1>5, <1>6, <1>7, <1>8 DEF Kind

-----------------------------------------------------------------------------
\* The session that is open

\* A request waits for its answer, or a connection is ready, with a client only.
LEMMA AskedOfClient ==
  ASSUME NEW a, Sound(a), Talk(a), NEW c, a.connection = "ready" \/ Asked(a, c)
  PROVE  a.client
BY DEF Sound, Detached, Asked, Talk, Hydrates

\* Nothing that touches the session was written.
LEMMA OpensFades ==
  ASSUME Opens, app'.log = app.log,
         app'.inbox \subseteq app.inbox, app'.pending \subseteq app.pending,
         app'.connection = "ready" => app.connection = "ready",
         app'.connection = "ready" \/ Asked(app', "get_messages") =>
            app'.saved = app.saved /\ (NoForkWaits => pi'.session = pi.session)
  PROVE  Opens'
<1>1. ASSUME NEW c, Asked(app', c) PROVE Asked(app, c)
  BY <1>1 DEF Asked
<1>2. NoForkWaits => NoForkWaits'
  BY DEF NoForkWaits
<1>3. Written(app', "fork") = Written(app, "fork")
  BY DEF Written
<1> QED BY <1>1, <1>2, <1>3 DEF Opens

\* A command of a turn touches no session.
LEMMA OpensKept ==
  ASSUME Opens, Talk(app), NEW c \in TurnCommand, NEW m, Writes(app, app', c, m),
         app'.saved = app.saved, pi'.session = pi.session
  PROVE  Opens'
<1>0. c # "fork" /\ c \notin HydrationCommand
  BY KindsDiffer DEF HydrationCommand
<1>1. ASSUME NEW d \in HydrationCommand, Asked(app', d) PROVE Asked(app, d)
  BY <1>0, <1>1 DEF Asked, Writes, Talk, Logged
<1>2. NoForkWaits => NoForkWaits'
  BY <1>0 DEF NoForkWaits, Writes, Talk, Logged
<1>3. Written(app', "fork") = Written(app, "fork")
  BY <1>0, WritesKeepsLog
<1>4. app'.connection = app.connection
  BY DEF Writes
<1>5. {"get_messages", "get_state", "get_recovered_state"} \subseteq HydrationCommand
  BY DEF HydrationCommand
<1> QED BY <1>1, <1>2, <1>3, <1>4, <1>5 DEF Opens

\* When the next request of the set-up is written it is the only one.
LEMMA SetUpAlone ==
  ASSUME Talk(app'), NEW c \in HydrationCommand, NEW m, Writes(app, app', c, m),
         NEW d \in HydrationCommand, Asked(app', d)
  PROVE  d = c
<1> DEFINE n == Len(app.log) + 1
<1>1. n \in Hydrating(app') /\ app'.log[n].command = c
  BY DEF Writes, Hydrating
<1>2. PICK i \in app'.pending : app'.log[i].command = d
  BY DEF Asked
<1>3. i \in Hydrating(app')
  BY <1>2 DEF Hydrating
<1> HIDE DEF n
<1>4. i = n
  BY <1>1, <1>3 DEF Talk, Hydrates
<1> QED BY <1>1, <1>2, <1>4

\* The reply that names the session is the one Pi gives at that moment, and a
\* fork is never followed by another answer than its own.
LEMMA OpensStep ==
  ASSUME TInv, Kind, Sound(app'), Talk(app')
  PROVE  Opens'
<1>0. /\ pi \in PiState /\ Opens /\ Talk(app) /\ Sound(app)
      /\ app.pending \subseteq DOMAIN app.log /\ app.inbox \subseteq DOMAIN app.log
  BY DEF TInv, IInv, Talk, Logged
<1>1. CASE Quiet
  <2>1. /\ app'.log = app.log /\ app'.inbox \subseteq app.inbox
        /\ app'.pending \subseteq app.pending
        /\ app'.connection = "ready" => app.connection = "ready"
        /\ app'.client => app'.saved = app.saved
    BY <1>1 DEF Quiet, Gentle, Calm, Wanes, KeepsPhase
  <2>2. ASSUME app'.connection = "ready" \/ Asked(app', "get_messages"), NoForkWaits
        PROVE  pi'.session = pi.session
    <3>1. ~(app'.pending = {} /\ app'.connection # "ready")
      BY <2>2 DEF Asked
    <3>2. ASSUME NEW id \in app.inbox, pi' \in PiAfter(app.log[id].command)
          PROVE  pi'.session = pi.session
      BY <1>0, <2>2, <3>2, PiAfterKinds DEF NoForkWaits
    <3>3. ASSUME NEW type \in EventType, Emits(type) PROVE pi'.session = pi.session
      BY <1>0, <3>3, EmitsFrame
    <3> QED BY <1>1, <3>1, <3>2, <3>3 DEF Quiet, PiMoves
  <2>3. app'.connection = "ready" \/ Asked(app', "get_messages") => app'.saved = app.saved
    BY <2>1, AskedOfClient
  <2> QED BY <1>0, <2>1, <2>2, <2>3, OpensFades
<1>2. CASE Connected
  BY <1>2 DEF Connected, Opens, Asked
<1>3. CASE Started
  <2>1. /\ \A i \in DOMAIN app'.log : app'.log[i].command = "get_state"
        /\ app'.connection # "ready"
        /\ app'.pending \subseteq DOMAIN app'.log
    BY <1>3 DEF Started, Talk, Logged
  <2> QED BY <2>1 DEF Opens, Asked, Written
<1>4. ASSUME NEW id, TimedOut(id) PROVE Opens'
  <2>1. /\ app'.log = app.log /\ app'.inbox \subseteq app.inbox
        /\ app'.pending \subseteq app.pending
        /\ app'.connection = "ready" => app.connection = "ready"
        /\ app'.client => app'.saved = app.saved
        /\ pi' = pi
    BY <1>4 DEF TimedOut, Wanes, KeepsPhase
  <2>2. app'.connection = "ready" \/ Asked(app', "get_messages") => app'.saved = app.saved
    BY <2>1, AskedOfClient
  <2> QED BY <1>0, <2>1, <2>2, OpensFades
<1>5. ASSUME NEW id, NEW r, SetUp(id, r) PROVE Opens'
  <2> DEFINE c == app.log[id].command
  <2>1. /\ c \in HydrationCommand /\ id \in app.pending /\ Asked(app, c)
        /\ app.connection = "loading-session"
        /\ SetUpOutcome(app, app', c, r)
        /\ r \in Answers(c) /\ id \notin app'.pending \cup app'.inbox
        /\ pi' \in IF r.ok THEN PiAfter(c) ELSE {pi}
    BY <1>0, <1>5 DEF SetUp, Hydrating, Asked, Talk, Hydrates
  <2>2. c # "fork" => pi'.session = pi.session
    BY <1>0, <2>1, PiAfterKinds
  <2>3. CASE Ends(app, app')
    BY <2>3 DEF Ends, Opens, Asked
  <2>4. CASE BecomesReady(app, app') /\ c = "get_messages"
    <3>1. app.saved = pi.session /\ NoForkWaits
      BY <1>0, <2>1, <2>4 DEF Opens
    <3>2. /\ app'.log = app.log /\ app'.inbox \subseteq app.inbox
          /\ app'.saved = pi'.session
      BY <2>2, <2>4, <3>1 DEF BecomesReady
    <3>3. NoForkWaits'
      BY <3>1, <3>2 DEF NoForkWaits
    <3>4. ASSUME NEW d \in HydrationCommand PROVE ~Asked(app', d)
      <4>1. Hydrating(app') = {}
        BY <2>4 DEF BecomesReady, Talk, Hydrates
      <4> QED BY <4>1 DEF Asked, Hydrating
    <3>5. ~Asked(app', "get_state") /\ ~Asked(app', "get_recovered_state")
      BY <3>4 DEF HydrationCommand
    <3> QED BY <3>2, <3>3, <3>5 DEF Opens
  <2>5. ASSUME NEW next \in HydrationCommand, Follows(c, next), r.ok,
               Writes(app, app', next, 0), SavesSession(c, r, app, app')
        PROVE  Opens'
    <3>0. {"get_messages", "get_state", "get_recovered_state"} \subseteq HydrationCommand
      BY DEF HydrationCommand
    <3>1. ASSUME NEW d \in HydrationCommand, Asked(app', d) PROVE d = next
      BY <2>5, <3>1, SetUpAlone
    <3>2. app'.connection # "ready"
      BY <2>1, <2>5 DEF Writes
    <3>3. next # "get_state"
      BY <2>5 DEF Follows
    <3>4. CASE next = "get_messages"
      <4>1. app'.saved = pi'.session
        BY <2>1, <2>2, <2>5, <3>4 DEF Follows, SavesSession, Answers
      <4>2. NoForkWaits
        BY <1>0, <2>1, <2>5, <3>4 DEF Follows, Opens, NoForkWaits, Written
      <4>3. NoForkWaits'
        BY <1>0, <2>5, <3>4, <4>2 DEF NoForkWaits, Writes
      <4> QED BY <3>0, <3>1, <3>4, <4>1, <4>3 DEF Opens
    <3>5. CASE next = "get_recovered_state"
      <4>1. c = "fork"
        BY <2>5, <3>5 DEF Follows
      <4>2. \A i \in app.inbox : i # id => app.log[i].command # "fork"
        BY <1>0, <2>1, <4>1 DEF Talk, Recovers, Written
      <4>3. NoForkWaits'
        BY <1>0, <2>1, <2>5, <3>5, <4>2 DEF NoForkWaits, Writes
      <4> QED BY <3>0, <3>1, <3>2, <3>5, <4>3 DEF Opens
    <3>6. CASE next \notin {"get_messages", "get_recovered_state"}
      BY <3>0, <3>1, <3>2, <3>3, <3>6 DEF Opens
    <3> QED BY <3>4, <3>5, <3>6
  <2> QED BY <2>1, <2>3, <2>4, <2>5 DEF SetUpOutcome
<1>6. ASSUME NEW c \in TurnCommand, Command(c) PROVE Opens'
  BY <1>0, <1>6, OpensKept DEF Command, WritesTurn
<1>7. ASSUME NEW id, Abort(id) PROVE Opens'
  <2>1. "abort" \in TurnCommand
    BY DEF TurnCommand
  <2> QED BY <1>0, <1>7, <2>1, OpensKept DEF Abort
<1>8. "prompt" \in TurnCommand /\ "clear_queue" \in TurnCommand
  BY DEF TurnCommand
<1> QED BY <1>1, <1>2, <1>3, <1>4, <1>5, <1>6, <1>7, <1>8 DEF Kind

-----------------------------------------------------------------------------
\* Aborts and the clear_queues they follow

\* clear_queue commands that were answered.
Settled == Written(app, "clear_queue") \ (app.pending \cup expired)

\* The log is finite, and so are the writes of one command.
LEMMA WrittenFinite ==
  ASSUME NEW a \in AppState, NEW c
  PROVE  IsFiniteSet(Written(a, c)) /\ Cardinality(Written(a, c)) \in Nat
<1>1. a.log \in Seq(Request)
  BY DEF AppState
<1>2. DOMAIN a.log = 1 .. Len(a.log) /\ Len(a.log) \in Nat
  BY <1>1
<1>3. IsFiniteSet(DOMAIN a.log)
  BY <1>2, FS_Interval
<1>4. Written(a, c) \subseteq DOMAIN a.log
  BY DEF Written
<1> QED BY <1>3, <1>4, FS_Subset, FS_CardinalityType

\* No abort is written and no clear_queue becomes unanswered.
LEMMA AbortsKept ==
  ASSUME app \in AppState, app' \in AppState, AbortFollowsClearQueue,
         Written(app', "abort") = Written(app, "abort"), Settled \subseteq Settled'
  PROVE  AbortFollowsClearQueue'
<1>1. IsFiniteSet(Settled') /\ Cardinality(Settled') \in Nat
  BY WrittenFinite, FS_Subset, FS_CardinalityType DEF Settled
<1>2. Cardinality(Settled) <= Cardinality(Settled') /\ Cardinality(Settled) \in Nat
  BY <1>1, FS_Subset, FS_CardinalityType
<1>3. Cardinality(Written(app, "abort")) <= Cardinality(Settled)
  BY DEF AbortFollowsClearQueue, Settled
<1>4. /\ Cardinality(Written(app, "abort")) \in Nat
      /\ Cardinality(Written(app', "abort")) = Cardinality(Written(app, "abort"))
  BY WrittenFinite
<1>5. Cardinality(Written(app', "abort")) <= Cardinality(Settled')
  BY <1>1, <1>2, <1>3, <1>4
<1> QED BY <1>5 DEF AbortFollowsClearQueue, Settled

\* Another command than an abort is written.
LEMMA AbortsOtherWritten ==
  ASSUME TInv, app' \in AppState, NEW c, c # "abort", NEW m, Writes(app, app', c, m),
         expired' = expired
  PROVE  AbortFollowsClearQueue'
<1>1. app \in AppState /\ AbortFollowsClearQueue /\ expired \subseteq DOMAIN app.log
  BY DEF TInv, IInv, Sound, Expiry
<1>2. Written(app', "abort") = Written(app, "abort")
  BY WritesKeepsLog
<1>3. Written(app, "clear_queue") \subseteq Written(app', "clear_queue")
  BY DEF Writes, Written
<1>4. \A i \in Written(app, "clear_queue") : i \in DOMAIN app.log
  BY DEF Written
<1>5. Settled \subseteq Settled'
  BY <1>3, <1>4, WritesKeepsLog DEF Settled
<1> QED BY <1>1, <1>2, <1>5, AbortsKept

\* An abort is written when a clear_queue of its own was just answered.
LEMMA AbortsStep ==
  ASSUME TInv, Kind, app' \in AppState
  PROVE  AbortFollowsClearQueue'
<1>0. /\ app \in AppState /\ AbortFollowsClearQueue
      /\ expired \cap app.pending = {} /\ expired \subseteq DOMAIN app.log
      /\ app.pending \subseteq DOMAIN app.log
  BY DEF TInv, IInv, Sound, Expiry, Talk, Logged
<1>1. ASSUME app'.log = app.log,
             app'.pending \cup expired' \subseteq app.pending \cup expired
      PROVE  AbortFollowsClearQueue'
  <2>1. \A c : Written(app', c) = Written(app, c)
    BY <1>1 DEF Written
  <2>2. Settled \subseteq Settled'
    BY <1>1, <2>1 DEF Settled
  <2> QED BY <1>0, <2>1, <2>2, AbortsKept
<1>2. ASSUME Written(app', "abort") = {} PROVE AbortFollowsClearQueue'
  <2>1. Cardinality(Settled') \in Nat
    BY WrittenFinite, FS_Subset, FS_CardinalityType DEF Settled
  <2>2. Cardinality(Written(app', "abort")) = 0
    BY <1>2, FS_EmptySet
  <2>3. Cardinality(Written(app', "abort")) <= Cardinality(Settled')
    BY <2>1, <2>2
  <2> QED BY <2>3 DEF AbortFollowsClearQueue, Settled
<1>3. CASE Quiet
  <2>1. app'.log = app.log /\ app'.pending \subseteq app.pending /\ expired' = expired
    BY <1>3 DEF Quiet, Gentle, Calm, Wanes
  <2> QED BY <1>1, <2>1
<1>4. CASE Connected
  BY <1>2, <1>4 DEF Connected, Written
<1>5. CASE Started
  BY <1>2, <1>5 DEF Started, Written
<1>6. ASSUME NEW id, TimedOut(id) PROVE AbortFollowsClearQueue'
  <2>1. /\ app'.log = app.log /\ id \in app.pending
        /\ app'.pending = app.pending \ {id} /\ expired' = expired \cup {id}
    BY <1>6 DEF TimedOut, Wanes
  <2> QED BY <1>1, <2>1
<1>7. ASSUME NEW id, NEW r, SetUp(id, r) PROVE AbortFollowsClearQueue'
  <2>1. expired' = expired /\ SetUpOutcome(app, app', app.log[id].command, r)
    BY <1>7 DEF SetUp
  <2>2. CASE Ends(app, app') \/ BecomesReady(app, app')
    <3>1. app'.log = app.log /\ app'.pending \subseteq app.pending
      BY <2>2 DEF Ends, BecomesReady
    <3> QED BY <1>1, <2>1, <3>1
  <2>3. ASSUME NEW next \in HydrationCommand, Writes(app, app', next, 0)
        PROVE  AbortFollowsClearQueue'
    <3>1. next # "abort"
      BY DEF HydrationCommand
    <3> QED BY <1>0, <2>1, <2>3, <3>1, AbortsOtherWritten
  <2> QED BY <2>1, <2>2, <2>3 DEF SetUpOutcome
<1>8. ASSUME NEW c, c # "abort", Command(c) PROVE AbortFollowsClearQueue'
  BY <1>0, <1>8, AbortsOtherWritten DEF Command, WritesTurn
<1>9. ASSUME NEW id, Abort(id) PROVE AbortFollowsClearQueue'
  <2>1. /\ Writes(app, app', "abort", 0) /\ expired' = expired
        /\ id \in Written(app, "clear_queue") /\ id \in app.pending /\ id \notin app'.pending
    BY <1>0, <1>9 DEF Abort, Written
  <2>2. PICK n : Written(app', "abort") = Written(app, "abort") \cup {n}
    BY <2>1, WritesKeepsLog
  <2>3. Written(app', "clear_queue") = Written(app, "clear_queue")
    BY <2>1, WritesKeepsLog
  <2>4. \A i \in Written(app, "clear_queue") : i \in DOMAIN app.log
    BY DEF Written
  <2>5. Settled \cup {id} \subseteq Settled' /\ id \notin Settled
    BY <1>0, <2>1, <2>3, <2>4, WritesKeepsLog DEF Settled
  <2>6. IsFiniteSet(Settled') /\ IsFiniteSet(Settled)
    BY <1>0, WrittenFinite, FS_Subset DEF Settled
  <2>7. /\ Cardinality(Settled) \in Nat
        /\ Cardinality(Settled \cup {id}) = Cardinality(Settled) + 1
    BY <2>5, <2>6, FS_AddElement, FS_CardinalityType
  <2>8. Cardinality(Settled \cup {id}) <= Cardinality(Settled') /\ Cardinality(Settled') \in Nat
    BY <2>5, <2>6, FS_Subset, FS_CardinalityType
  <2>9. Cardinality(Written(app', "abort")) <= Cardinality(Written(app, "abort")) + 1
    BY <1>0, <2>2, WrittenFinite, FS_AddElement
  <2>10. Cardinality(Written(app, "abort")) <= Cardinality(Settled)
    BY <1>0 DEF AbortFollowsClearQueue, Settled
  <2>11. Cardinality(Written(app', "abort")) <= Cardinality(Settled')
    BY <1>0, <2>7, <2>8, <2>9, <2>10, WrittenFinite
  <2> QED BY <2>11 DEF AbortFollowsClearQueue, Settled
<1> QED BY <1>3, <1>4, <1>5, <1>6, <1>7, <1>8, <1>9 DEF Kind

-----------------------------------------------------------------------------
\* The application as main.py builds it has no request and no message.
LEMMA InitTInv ==
  ASSUME Init
  PROVE  TInv
<1>1. PICK w \in Workspaces, s \in SessionId \cup {NoSession}, p \in BOOLEAN :
         app = InitialApp(w, s, p)
  BY DEF Init
<1>2. /\ app.log = <<>> /\ app.messages = <<>>
      /\ app.pending = {} /\ app.inbox = {} /\ app.prompt_requests = {}
      /\ app.active_user = 0 /\ app.active_assistant = 0
      /\ ~app.client /\ ~app.shutdown_timer
      /\ app.connection = "disconnected" /\ app.process = "not-running"
  BY <1>1 DEF InitialApp
<1>3. IInv
  BY InitIInv
<1>4. Talk(app)
  <2>1. DOMAIN app.log = {} /\ DOMAIN app.messages = {}
    BY <1>2
  <2>2. Logged(app) /\ Hydrates(app) /\ Recovers(app)
    BY <1>2, <2>1 DEF Logged, Hydrates, Hydrating, TurnStarted, Recovers, Written, Asked
  <2>3. Chat(app)
    BY <1>2, <2>1 DEF Chat, Named, Tracked, Closed
  <2> QED BY <2>2, <2>3 DEF Talk
<1>5. pi = NoPi /\ expired = {}
  BY DEF Init
<1>6. Opens /\ PiIdle /\ Expiry /\ Blocked
  BY <1>2, <1>5 DEF Opens, Asked, PiIdle, NoPi, Expiry, Blocked
<1>7. AbortFollowsClearQueue
  <2>1. DOMAIN app.log = {}
    BY <1>2
  <2>2. /\ Written(app, "abort") = {}
        /\ Written(app, "clear_queue") \ (app.pending \cup expired) = {}
    BY <2>1 DEF Written
  <2>3. Cardinality({}) <= Cardinality({})
    BY FS_EmptySet
  <2> QED BY <2>2, <2>3 DEF AbortFollowsClearQueue
<1> QED BY <1>3, <1>4, <1>6, <1>7 DEF TInv

\* Every step preserves the invariant.
LEMMA TInvStep ==
  ASSUME TInv, IInv', [Next]_vars
  PROVE  TInv' /\ (Kind \/ UNCHANGED vars)
<1>1. Kind \/ UNCHANGED vars
  BY EveryStepIsAKind DEF TInv
<1>2. CASE Kind
  <2>1. Sound(app') /\ app' \in AppState
    BY DEF IInv, Sound
  <2>2. Talk(app')
    BY <1>2, TalkStep DEF TInv
  <2>3. Opens' /\ PiIdle' /\ Expiry' /\ Blocked' /\ AbortFollowsClearQueue'
    BY <1>2, <2>1, <2>2, OpensStep, PiIdleStep, DeadlineStep, AbortsStep
  <2> QED BY <1>2, <2>2, <2>3 DEF TInv
<1>3. CASE UNCHANGED vars
  BY <1>3 DEF vars, TInv, Opens, NoForkWaits, PiIdle, Expiry, Blocked, AbortFollowsClearQueue
<1> QED BY <1>1, <1>2, <1>3

\* The invariant of the requests is inductive, and so holds in every reachable
\* state: what the four classes may still be answered, and what that would mean,
\* is known at every moment.
THEOREM RequestsInvariance == Spec => []TInv
<1>1. Init => TInv
  BY InitTInv
<1>2. TInv /\ [Next]_vars => TInv'
  <2>1. TInv /\ [Next]_vars => IInv'
    BY IInvStep DEF TInv
  <2> QED BY <2>1, TInvStep
<1> QED BY <1>1, <1>2, PTL DEF Spec

\* AgentController is READY only on a live transport, and the session Pi has
\* open is then the one whose id the settings keep.
THEOREM ReadySession == Spec => []ReadyMeansOwnSession
<1>1. TInv => ReadyMeansOwnSession
  BY DEF TInv, Talk, Hydrates, Opens, ReadyMeansOwnSession
<1> QED BY <1>1, RequestsInvariance, PTL

\* A set of which any two elements are the same has at most one.
LEMMA AtMostOne ==
  ASSUME NEW S, \A i, j \in S : i = j
  PROVE  Cardinality(S) <= 1
<1>1. CASE S = {}
  BY <1>1, FS_EmptySet
<1>2. CASE S # {}
  <2>1. PICK x \in S : TRUE
    BY <1>2
  <2>2. S = {x}
    BY <2>1
  <2> QED BY <2>2, FS_Singleton
<1> QED BY <1>1, <1>2

\* _on_messages_response starts the recovery of a failed branch at most once per
\* connection.
THEOREM RecoveryOnce == Spec => []RecoveryRunsOnce
<1>1. TInv => RecoveryRunsOnce
  BY AtMostOne DEF TInv, Talk, Recovers, RecoveryRunsOnce
<1> QED BY <1>1, RequestsInvariance, PTL

\* Every answer to a prompt finds its own user message, whatever became of the
\* message list of AgentController in between.
THEOREM PromptsNamed == Spec => []PromptsNameTheirMessage
<1>1. TInv => PromptsNameTheirMessage
  BY DEF TInv, Talk, Chat, Named, PromptsNameTheirMessage
<1> QED BY <1>1, RequestsInvariance, PTL

\* On a ready connection AgentController still waits for the end of every message
\* it shows as being sent or streaming.
THEOREM MessagesTracked == Spec => []OpenMessagesAreTracked
<1>1. TInv => OpenMessagesAreTracked
  BY DEF TInv, Talk, Chat, Tracked, OpenMessagesAreTracked
<1> QED BY <1>1, RequestsInvariance, PTL

\* AgentController._after_clear_queue writes one abort for one answered
\* clear_queue, and none once that request's deadline has passed.
THEOREM AbortsFollow == Spec => []AbortFollowsClearQueue
<1>1. TInv => AbortFollowsClearQueue
  BY DEF TInv
<1> QED BY <1>1, RequestsInvariance, PTL

-----------------------------------------------------------------------------
\* What a step may never do

\* A step in which the connection becomes ready is the answer to get_messages.
LEMMA ReadyStep ==
  ASSUME Kind, app.connection # "ready", app'.connection = "ready"
  PROVE  \E id, r : /\ SetUp(id, r) /\ app.log[id].command = "get_messages"
                    /\ r.ok /\ r.tail # "failed" /\ BecomesReady(app, app')
<1>1. ~Quiet
  BY DEF Quiet, Gentle, Calm, KeepsPhase
<1>2. ~Connected /\ ~Started
  BY DEF Connected, Started
<1>3. ASSUME NEW id, TimedOut(id) PROVE FALSE
  BY <1>3 DEF TimedOut, KeepsPhase
<1>4. ASSUME NEW c, NEW m, Writes(app, app', c, m) PROVE FALSE
  BY <1>4 DEF Writes
<1>5. ASSUME NEW c, Command(c) PROVE FALSE
  BY <1>4, <1>5 DEF Command, WritesTurn
<1>6. ASSUME NEW id, Abort(id) PROVE FALSE
  BY <1>4, <1>6 DEF Abort
<1>7. PICK id, r : SetUp(id, r)
  BY <1>1, <1>2, <1>3, <1>5, <1>6 DEF Kind
<1>8. ~Ends(app, app')
  BY DEF Ends
<1>9. /\ app.log[id].command = "get_messages"
      /\ r.ok /\ r.tail # "failed" /\ BecomesReady(app, app')
  BY <1>4, <1>7, <1>8 DEF SetUp, SetUpOutcome
<1> QED BY <1>7, <1>9

\* AgentController._on_messages_response makes the connection ready only when the
\* branch that Pi has open does not end in a failed turn.
THEOREM CleanBranch == Spec => ReadyOnCleanBranch
<1>1. ASSUME TInv, [Next]_vars
      PROVE  [app.connection # "ready" /\ app'.connection = "ready" => ~pi'.failed]_vars
  <2>1. Kind \/ UNCHANGED vars
    BY <1>1, EveryStepIsAKind DEF TInv
  <2>2. ASSUME Kind, app.connection # "ready", app'.connection = "ready"
        PROVE  ~pi'.failed
    <3>1. PICK id, r : /\ SetUp(id, r) /\ app.log[id].command = "get_messages"
                       /\ r.ok /\ r.tail # "failed"
      BY <2>2, ReadyStep
    <3>2. pi' \in PiAfter("get_messages") /\ r \in Answers("get_messages")
      BY <3>1 DEF SetUp
    <3>3. pi' = pi /\ ~pi.failed
      BY <3>1, <3>2 DEF PiAfter, Answers
    <3> QED BY <3>3
  <2> QED BY <2>1, <2>2
<1> QED BY <1>1, RequestsInvariance, PTL DEF Spec, ReadyOnCleanBranch

\* Prompts are written by send_message alone.
LEMMA PromptStep ==
  ASSUME TInv, Kind
  PROVE  \/ Written(app', "prompt") \subseteq Written(app, "prompt")
         \/ CanSend(app) /\ Command("prompt")
<1>1. ASSUME app'.log = app.log PROVE Written(app', "prompt") = Written(app, "prompt")
  BY <1>1 DEF Written
<1>2. ASSUME NEW c, c # "prompt", NEW m, Writes(app, app', c, m)
      PROVE  Written(app', "prompt") = Written(app, "prompt")
  BY <1>2, WritesKeepsLog
<1>3. Quiet => app'.log = app.log
  BY DEF Quiet, Gentle, Calm, Wanes
<1>4. Connected \/ Started => Written(app', "prompt") = {}
  BY DEF Connected, Started, Written
<1>5. ASSUME NEW id, TimedOut(id) PROVE app'.log = app.log
  BY <1>5 DEF TimedOut, Wanes
<1>6. ASSUME NEW id, NEW r, SetUp(id, r)
      PROVE  Written(app', "prompt") = Written(app, "prompt")
  <2>1. "prompt" \notin HydrationCommand
    BY DEF HydrationCommand
  <2> QED BY <1>1, <1>2, <1>6, <2>1 DEF SetUp, SetUpOutcome, Ends, BecomesReady
<1>7. ASSUME Command("clear_queue") PROVE Written(app', "prompt") = Written(app, "prompt")
  BY <1>2, <1>7 DEF Command, WritesTurn
<1>8. ASSUME NEW id, Abort(id) PROVE Written(app', "prompt") = Written(app, "prompt")
  BY <1>2, <1>8 DEF Abort
<1> QED BY <1>1, <1>3, <1>4, <1>5, <1>6, <1>7, <1>8 DEF Kind

\* AgentController writes no prompt on a connection on which the deadline of a
\* prompt, a clear_queue or an abort has passed.
THEOREM UnknownBlocks == Spec => UnknownOutcomeBlocksPrompts
<1>1. ASSUME TInv, [Next]_vars
      PROVE  [(\E id \in expired : app.log[id].command \in TurnCommand)
                 => Written(app', "prompt") \subseteq Written(app, "prompt")]_vars
  <2>1. Kind \/ UNCHANGED vars
    BY <1>1, EveryStepIsAKind DEF TInv
  <2>2. ASSUME Kind, \E id \in expired : app.log[id].command \in TurnCommand
        PROVE  Written(app', "prompt") \subseteq Written(app, "prompt")
    <3>1. ~CanSend(app)
      BY <1>1, <2>2 DEF TInv, Blocked, CanSend
    <3> QED BY <1>1, <2>2, <3>1, PromptStep
  <2> QED BY <2>1, <2>2
<1> QED BY <1>1, RequestsInvariance, PTL DEF Spec, UnknownOutcomeBlocksPrompts

\* A message that AgentController marked uncertain is marked nothing else, and
\* stays in the list, until a new connection loads its history.
THEOREM UncertainStays == Spec => UncertainIsFinal
<1>1. ASSUME TInv, [Next]_vars
      PROVE  [\A i \in DOMAIN app.messages :
                /\ app.messages[i].state = "uncertain"
                /\ app.connection # "loading-session"
                => i \in DOMAIN app'.messages
                   /\ app'.messages[i].state = "uncertain"]_vars
  <2>1. Kind \/ UNCHANGED vars
    BY <1>1, EveryStepIsAKind DEF TInv
  <2>2. ASSUME Kind, app.connection # "loading-session"
        PROVE  StaysUncertain(app, app')
    <3>1. Chat(app)
      BY <1>1 DEF TInv, Talk
    <3>2. Quiet => StaysUncertain(app, app')
      BY <3>1 DEF Quiet, Gentle, Calm, Wanes
    <3>3. Connected \/ Started => StaysUncertain(app, app')
      BY DEF Connected, Started
    <3>4. ASSUME NEW id, TimedOut(id) PROVE StaysUncertain(app, app')
      BY <3>1, <3>4 DEF TimedOut, Wanes
    <3>5. ASSUME NEW id, NEW r, SetUp(id, r) PROVE FALSE
      BY <1>1, <2>2, <3>5 DEF SetUp, TInv, Talk, Hydrates
    <3>6. ASSUME NEW c, Command(c) PROVE StaysUncertain(app, app')
      BY <3>6 DEF Command, WritesTurn
    <3>7. ASSUME NEW id, Abort(id) PROVE StaysUncertain(app, app')
      BY <3>7 DEF Abort
    <3> QED BY <2>2, <3>2, <3>3, <3>4, <3>5, <3>6, <3>7 DEF Kind
  <2> QED BY <2>1, <2>2 DEF StaysUncertain
<1> QED BY <1>1, RequestsInvariance, PTL DEF Spec, UncertainIsFinal

-----------------------------------------------------------------------------
(***************************************************************************)
(* The session keeps the promise of SessionContract: every kind of step is *)
(* a step of the contract or changes nothing of what it is about.          *)
(***************************************************************************)

\* What SessionContract sees of an application.
Link(a) ==
    IF ~a.client THEN "down"
    ELSE IF a.connection = "ready" THEN "ready"
    ELSE IF a.connection \in {"starting", "loading-session"} /\ a.open THEN "opening"
    ELSE "closing"

Barred(a) == a.client /\ a.requires_reconciliation

Prompts(a) == IF a.client THEN Cardinality(Written(a, "prompt")) ELSE 0

\* The steps of the contract in these terms.
LEMMA ContractSteps ==
  /\ Link(app) = "down" /\ Link(app') = "opening"
        /\ Barred(app') = Barred(app) /\ Prompts(app') = Prompts(app)
     => Contract!Open
  /\ Link(app) = "opening" /\ ~Barred(app) /\ Link(app') = "ready"
        /\ Barred(app') = Barred(app) /\ Prompts(app') = Prompts(app)
     => Contract!BecomeReady
  /\ Link(app) = "ready" /\ ~Barred(app) /\ Prompts(app') = Prompts(app) + 1
        /\ Link(app') = Link(app) /\ Barred(app') = Barred(app)
     => Contract!WritePrompt
  /\ Link(app) \in {"ready", "closing"} /\ Barred(app')
        /\ Link(app') = Link(app) /\ Prompts(app') = Prompts(app)
     => Contract!OutcomeUnknown
  /\ Link(app) \in {"opening", "ready"} /\ Link(app') = "closing"
        /\ Barred(app') = Barred(app) /\ Prompts(app') = Prompts(app)
     => Contract!BeginClosing
  /\ Link(app) # "down" /\ ~app'.client => Contract!Close
  /\ Link(app') = Link(app) /\ Barred(app') = Barred(app) /\ Prompts(app') = Prompts(app)
     => UNCHANGED Contract!vars
BY DEF Link, Barred, Prompts, Contract!Open, Contract!BecomeReady, Contract!WritePrompt,
       Contract!OutcomeUnknown, Contract!BeginClosing, Contract!Close, Contract!vars

\* A step of the contract, or one that changes nothing of what it is about.
ContractStep == [Contract!Next]_(Contract!vars)

LEMMA StepsOfContract ==
  ASSUME \/ Contract!Open \/ Contract!BecomeReady \/ Contract!WritePrompt
         \/ Contract!OutcomeUnknown \/ Contract!BeginClosing \/ Contract!Close
         \/ UNCHANGED Contract!vars
  PROVE  ContractStep
BY DEF ContractStep, Contract!Next

\* The prompts of a log that is not changed.
LEMMA PromptsKept ==
  ASSUME Written(app', "prompt") = Written(app, "prompt"), app'.client = app.client
  PROVE  Prompts(app') = Prompts(app)
BY DEF Prompts

\* The connection ends, or is being ended, and nothing is written.
LEMMA EndingKeepsContract ==
  ASSUME Written(app', "prompt") = Written(app, "prompt"), app'.client => app.client,
         app'.client => app'.requires_reconciliation = app.requires_reconciliation,
         app'.connection \notin {"ready", "starting", "loading-session"}
  PROVE  ContractStep
<1>1. CASE app'.client
  <2>1. /\ Link(app') = "closing" /\ Link(app) \in {"opening", "ready", "closing"}
        /\ Barred(app') = Barred(app) /\ Prompts(app') = Prompts(app)
    BY <1>1, PromptsKept DEF Link, Barred
  <2> QED BY <2>1, ContractSteps, StepsOfContract
<1>2. CASE ~app'.client /\ app.client
  <2>1. Link(app) # "down"
    BY <1>2 DEF Link
  <2> QED BY <1>2, <2>1, ContractSteps, StepsOfContract
<1>3. CASE ~app'.client /\ ~app.client
  <2>1. /\ Link(app') = Link(app) /\ Barred(app') = Barred(app)
        /\ Prompts(app') = Prompts(app)
    BY <1>3 DEF Link, Barred, Prompts
  <2> QED BY <2>1, ContractSteps, StepsOfContract
<1> QED BY <1>1, <1>2, <1>3

\* A handler that writes nothing closes the connection at most.
LEMMA GentleKeepsContract ==
  ASSUME Gentle(app, app')
  PROVE  ContractStep
<1>1. /\ app'.log = app.log /\ (app'.client => app.client)
      /\ app'.client => app'.requires_reconciliation = app.requires_reconciliation
      /\ app'.open => app.open
      /\ app'.connection \in {"ready", "starting", "loading-session"} =>
            app'.connection = app.connection
      /\ app'.connection = "ready" => app'.client = app.client
  BY DEF Gentle, Calm, Wanes, SameBlock, KeepsPhase
<1>2. Written(app', "prompt") = Written(app, "prompt")
  BY <1>1 DEF Written
<1>3. CASE app'.connection \notin {"ready", "starting", "loading-session"}
  BY <1>1, <1>2, <1>3, EndingKeepsContract
<1>4. CASE app'.connection \in {"ready", "starting", "loading-session"} /\ ~app'.client
  <2>1. \/ ~app.client \/ Link(app) # "down"
    BY DEF Link
  <2>2. ~app.client => /\ Link(app') = Link(app) /\ Barred(app') = Barred(app)
                       /\ Prompts(app') = Prompts(app)
    BY <1>4 DEF Link, Barred, Prompts
  <2> QED BY <1>4, <2>1, <2>2, ContractSteps, StepsOfContract
<1>5. CASE app'.connection \in {"ready", "starting", "loading-session"} /\ app'.client
  <2>1. Barred(app') = Barred(app) /\ Prompts(app') = Prompts(app)
    BY <1>1, <1>2, <1>5, PromptsKept DEF Barred
  <2>2. \/ Link(app') = Link(app)
        \/ Link(app) = "opening" /\ Link(app') = "closing"
    BY <1>1, <1>5 DEF Link
  <2> QED BY <2>1, <2>2, ContractSteps, StepsOfContract
<1> QED BY <1>3, <1>4, <1>5

\* Another command than a prompt changes nothing the contract sees.
LEMMA WritesKeepsContract ==
  ASSUME NEW c, c # "prompt", NEW m, Writes(app, app', c, m)
  PROVE  ContractStep
<1>1. /\ app'.client = app.client /\ app'.connection = app.connection
      /\ app'.open = app.open
      /\ app'.requires_reconciliation = app.requires_reconciliation
  BY DEF Writes
<1>2. Written(app', "prompt") = Written(app, "prompt")
  BY WritesKeepsLog
<1>3. /\ Link(app') = Link(app) /\ Barred(app') = Barred(app)
      /\ Prompts(app') = Prompts(app)
  BY <1>1, <1>2, PromptsKept DEF Link, Barred
<1> QED BY <1>3, ContractSteps, StepsOfContract

\* The set-up of a connection makes it ready or gives it up.
LEMMA SetUpKeepsContract ==
  ASSUME TInv, NEW id, NEW r, SetUp(id, r), Talk(app')
  PROVE  ContractStep
<1>1. /\ app.connection = "loading-session" /\ app.client
      /\ ~app.requires_reconciliation
      /\ SetUpOutcome(app, app', app.log[id].command, r)
  <2>1. app.pending # {} /\ app.connection = "loading-session" /\ ~TurnStarted(app)
    BY DEF SetUp, TInv, Talk, Hydrates, Hydrating
  <2>2. app.client
    BY <2>1 DEF TInv, IInv, Sound, Detached
  <2> QED BY <2>1, <2>2 DEF SetUp, TInv, Talk, Hydrates
<1>2. CASE Ends(app, app')
  <2>1. Written(app', "prompt") = Written(app, "prompt")
    BY <1>2 DEF Ends, Written
  <2> QED BY <1>2, <2>1, EndingKeepsContract DEF Ends
<1>3. CASE BecomesReady(app, app')
  <2>1. /\ app'.client /\ ~app'.requires_reconciliation /\ app'.connection = "ready"
        /\ app'.open = app.open /\ app'.open
        /\ Written(app', "prompt") = Written(app, "prompt")
    BY <1>3 DEF BecomesReady, Written, Talk, Hydrates
  <2>2. /\ Link(app) = "opening" /\ Link(app') = "ready" /\ ~Barred(app)
        /\ Barred(app') = Barred(app) /\ Prompts(app') = Prompts(app)
    BY <1>1, <2>1, PromptsKept DEF Link, Barred
  <2> QED BY <2>2, ContractSteps, StepsOfContract
<1>4. ASSUME NEW next \in HydrationCommand, Writes(app, app', next, 0) PROVE ContractStep
  <2>1. next # "prompt"
    BY DEF HydrationCommand
  <2> QED BY <1>4, <2>1, WritesKeepsContract
<1> QED BY <1>1, <1>2, <1>3, <1>4 DEF SetUpOutcome

\* Every kind of step is one the contract allows.
LEMMA KindKeepsContract ==
  ASSUME TInv, Kind, Talk(app')
  PROVE  ContractStep
<1>1. CASE Quiet
  BY <1>1, GentleKeepsContract DEF Quiet
<1>2. CASE Connected
  <2>1. Written(app', "prompt") = {}
    BY <1>2 DEF Connected, Written
  <2>2. /\ Link(app) = "down" /\ Link(app') = "opening" /\ Barred(app') = Barred(app)
        /\ Prompts(app') = Prompts(app)
    BY <1>2, <2>1, FS_EmptySet DEF Connected, Link, Barred, Prompts
  <2> QED BY <2>2, ContractSteps, StepsOfContract
<1>3. CASE Started
  <2>1. Written(app', "prompt") = {} /\ Written(app, "prompt") = {}
    BY <1>3 DEF Started, Written
  <2>2. CASE app'.connection = "loading-session" /\ app'.client /\ app'.open = app.open
    <3>1. /\ Link(app') = Link(app) /\ Barred(app') = Barred(app)
          /\ Prompts(app') = Prompts(app)
      BY <1>3, <2>1, <2>2, PromptsKept DEF Started, Link, Barred
    <3> QED BY <3>1, ContractSteps, StepsOfContract
  <2>3. CASE app'.connection \in {"disconnected", "stopping", "failed"}
    BY <1>3, <2>1, <2>3, EndingKeepsContract DEF Started
  <2> QED BY <1>3, <2>2, <2>3 DEF Started
<1>4. ASSUME NEW id, TimedOut(id) PROVE ContractStep
  <2>1. CASE Gentle(app, app')
    BY <2>1, GentleKeepsContract
  <2>2. CASE /\ app.log[id].command \in TurnCommand
             /\ app'.connection = app.connection /\ app'.client = app.client
             /\ app'.open = app.open /\ app'.requires_reconciliation
    <3>1. app.client
      BY <1>4 DEF TimedOut, TInv, IInv, Sound, Detached
    <3>2. app.connection \notin {"starting", "loading-session"}
      BY <1>4, <2>2 DEF TimedOut, TInv, Talk, Logged, Hydrates, TurnStarted
    <3>3. Written(app', "prompt") = Written(app, "prompt")
      BY <1>4 DEF TimedOut, Wanes, Written
    <3>4. /\ Link(app) \in {"ready", "closing"} /\ Link(app') = Link(app)
          /\ Barred(app') /\ Prompts(app') = Prompts(app)
      BY <2>2, <3>1, <3>2, <3>3, PromptsKept DEF Link, Barred
    <3> QED BY <3>4, ContractSteps, StepsOfContract
  <2> QED BY <1>4, <2>1, <2>2 DEF TimedOut
<1>5. ASSUME NEW id, NEW r, SetUp(id, r) PROVE ContractStep
  BY <1>5, SetUpKeepsContract
<1>6. CASE CanSend(app) /\ Command("prompt")
  <2>1. PICK m : Writes(app, app', "prompt", m)
    BY <1>6 DEF Command, WritesTurn
  <2>2. PICK n : /\ n \notin DOMAIN app.log
                 /\ Written(app', "prompt") = Written(app, "prompt") \cup {n}
    BY <2>1, WritesKeepsLog
  <2>3. n \notin Written(app, "prompt") /\ IsFiniteSet(Written(app, "prompt"))
    BY <2>2, WrittenFinite DEF Written, TInv, IInv, Sound
  <2>4. Cardinality(Written(app', "prompt")) = Cardinality(Written(app, "prompt")) + 1
    BY <2>2, <2>3, FS_AddElement
  <2>5. /\ app'.client = app.client /\ app'.connection = app.connection
        /\ app'.requires_reconciliation = app.requires_reconciliation
    BY <2>1 DEF Writes
  <2>6. /\ Link(app) = "ready" /\ Link(app') = Link(app)
        /\ ~Barred(app) /\ Barred(app') = Barred(app)
        /\ Prompts(app') = Prompts(app) + 1
    BY <1>6, <2>4, <2>5 DEF CanSend, Link, Barred, Prompts
  <2> QED BY <2>6, ContractSteps, StepsOfContract
<1>7. CASE Command("clear_queue")
  BY <1>7, WritesKeepsContract DEF Command, WritesTurn
<1>8. ASSUME NEW id, Abort(id) PROVE ContractStep
  BY <1>8, WritesKeepsContract DEF Abort
<1> QED BY <1>1, <1>2, <1>3, <1>4, <1>5, <1>6, <1>7, <1>8 DEF Kind

\* The session implements SessionContract: a connection becomes ready once, while
\* it opens; a prompt is written on a ready connection on which no outcome is
\* unknown; only a new connection lifts that block.
THEOREM SessionRefinesContract == Spec => KeepsContract
<1>1. Init => Contract!Init
  <2> SUFFICES ASSUME Init PROVE Contract!Init
    OBVIOUS
  <2>1. ~app.client
    BY DEF Init, InitialApp
  <2> QED BY <2>1 DEF Contract!Init
<1>2. TInv /\ TInv' /\ [Next]_vars => [Contract!Next]_(Contract!vars)
  <2> SUFFICES ASSUME TInv, TInv', [Next]_vars
               PROVE  ContractStep
    BY DEF ContractStep
  <2>1. CASE Kind
    BY <2>1, KindKeepsContract DEF TInv
  <2>2. CASE UNCHANGED vars
    <3>1. UNCHANGED Contract!vars
      BY <2>2 DEF vars, Contract!vars
    <3> QED BY <3>1, StepsOfContract
  <2> QED BY <2>1, <2>2, EveryStepIsAKind DEF TInv
<1> QED BY <1>1, <1>2, RequestsInvariance, PTL DEF Spec, KeepsContract, Contract!Spec
=============================================================================
