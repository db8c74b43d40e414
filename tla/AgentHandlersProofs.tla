------------------------ MODULE AgentHandlersProofs ------------------------
(***************************************************************************)
(* What every handler of module AgentHandlers preserves: the type of the   *)
(* application record, and the relation between the controller's client,   *)
(* its transport, its process and the requests under way (Sound).          *)
(***************************************************************************)
EXTENDS AgentHandlers, SequenceTheorems, TLAPS

-----------------------------------------------------------------------------
\* The inductive invariant of the record, one named part per idea.

\* Without a client nothing of a connection is left.
Detached(a) ==
    /\ a.process = "not-running"
    /\ a.transport = "stopped"
    /\ a.pending = {} /\ a.prompt_requests = {}
    /\ ~a.watch
    /\ a.connection \in {"disconnected", "failed"}

\* Requests are paired with deadlines and wait on a READY transport only.
Paired(a) ==
    /\ a.deadlines = a.pending
    /\ a.pending # {} => a.transport = "ready"
    /\ a.watch => a.turn \in BusyTurn

\* A close request that still waits does so for a client that is stopping.
Waiting(a) == a.quit = "active" => a.connection = "stopping" /\ a.client

Sound(a) ==
    /\ a \in AppState
    /\ ~a.client => Detached(a)
    /\ a.client => a.transport # "stopped"
    /\ Paired(a)
    /\ Waiting(a)

\* What holds even between a change of the connection and the stateChanged that
\* announces it.
Coherent(a) ==
    /\ a \in AppState
    /\ ~a.client => Detached(a)
    /\ a.client => a.transport # "stopped"
    /\ Paired(a)

\* Coherent drops only what concerns the close request.
LEMMA SoundIsCoherent ==
  ASSUME NEW a, Sound(a)
  PROVE  Coherent(a)
BY DEF Sound, Coherent

\* What no callback touches: the workspace, the saved session and the process,
\* which may be signalled.  A client may be lost, and the close coordinator may
\* be released.
Keeps(a, b) ==
    /\ b.client => a.client
    /\ b.workspace = a.workspace
    /\ b.saved = a.saved
    /\ b.requested \in {a.requested, NoSession}
    /\ b.process = a.process
    /\ b.signal = a.signal \/ b.signal # "none"
    /\ b.quit = "done" \/ (b.quit = a.quit /\ b.watchdog = a.watchdog)

\* What a handler that only touches messages, texts and flags leaves alone.
SameLink(a, b) ==
    /\ b \in AppState
    /\ b.client = a.client /\ b.process = a.process /\ b.signal = a.signal
    /\ b.transport = a.transport
    /\ b.pending = a.pending /\ b.deadlines = a.deadlines
    /\ b.prompt_requests \subseteq a.prompt_requests
    /\ b.watch = a.watch /\ b.turn = a.turn
    /\ b.workspace = a.workspace /\ b.saved = a.saved /\ b.requested = a.requested
    /\ b.quit = "done" \/ (b.quit = a.quit /\ b.watchdog = a.watchdog)

\* Nothing of the link, the connection or the close request changes.
Silent(a, b) ==
    /\ SameLink(a, b)
    /\ b.connection = a.connection
    /\ b.quit = a.quit /\ b.watchdog = a.watchdog

\* A handler that is silent preserves the invariant.
LEMMA SilentSound ==
  ASSUME NEW a, Sound(a), NEW b, Silent(a, b)
  PROVE  Sound(b) /\ Keeps(a, b)
BY DEF Sound, Silent, SameLink, Keeps, Detached, Paired, Waiting

\* Another handler may follow in the same callback.
LEMMA KeepsTrans ==
  ASSUME NEW a, NEW b, NEW c, Keeps(a, b), Keeps(b, c)
  PROVE  Keeps(a, c)
BY DEF Keeps

\* Two silent handlers in a row are silent.
LEMMA SilentTrans ==
  ASSUME NEW a, NEW b, NEW c, Silent(a, b), Silent(b, c)
  PROVE  Silent(a, c)
BY DEF Silent, SameLink

-----------------------------------------------------------------------------
\* The close coordinator's reaction touches its own state only.
LEMMA StateChangedFrame ==
  ASSUME NEW a \in AppState
  PROVE  /\ SameLink(a, StateChanged(a))
         /\ StateChanged(a).connection = a.connection
         /\ StateChanged(a).quit = "active" =>
                a.quit = "active" /\ a.connection = "stopping"
<1>1. Complete(a) \in AppState
  BY DEF Complete, AppState
<1>2. StateChanged(a) \in AppState
  BY <1>1 DEF StateChanged
<1> QED
  BY <1>2 DEF StateChanged, Complete, AppState, SameLink, Silent

\* A handler that ends in stateChanged establishes Waiting by itself.
LEMMA StateChangedSound ==
  ASSUME NEW a \in AppState,
         ~a.client => Detached(a),
         a.client => a.transport # "stopped",
         Paired(a),
         a.connection = "stopping" => a.client
  PROVE  /\ Sound(StateChanged(a))
         /\ SameLink(a, StateChanged(a))
         /\ StateChanged(a).connection = a.connection
BY StateChangedFrame DEF Sound, Detached, Paired, Waiting, SameLink, Silent

\* AgentController._fail announces the failed connection, which releases a
\* waiting close request: it repairs Waiting.
LEMMA FailCoherent ==
  ASSUME NEW a, Coherent(a)
  PROVE  /\ Sound(Fail(a)) /\ Keeps(a, Fail(a)) /\ SameLink(a, Fail(a))
         /\ Fail(a).connection = "failed"
<1> DEFINE b == [a EXCEPT !.inactivity_warning = FALSE,
                           !.last_error = TRUE,
                           !.connection = "failed",
                           !.session_ready = FALSE]
<1>1. a \in AppState
  BY DEF Coherent
<1>2. SameLink(a, b) /\ b.connection = "failed"
  BY <1>1 DEF AppState, ConnectionState, SameLink, Silent
<1> HIDE DEF b
<1>3. /\ ~b.client => Detached(b)
      /\ b.client => b.transport # "stopped"
      /\ Paired(b)
  BY <1>2 DEF Coherent, Detached, Paired, SameLink, Silent
<1>4. Sound(StateChanged(b)) /\ SameLink(b, StateChanged(b))
      /\ StateChanged(b).connection = "failed"
  BY <1>2, <1>3, StateChangedSound DEF SameLink, Silent
<1>5. Fail(a) = StateChanged(b)
  BY DEF Fail, b
<1> QED
  BY <1>2, <1>4, <1>5 DEF Keeps, SameLink, Silent

\* AgentController._fail preserves the invariant and keeps the link.
LEMMA FailSound ==
  ASSUME NEW a, Sound(a)
  PROVE  /\ Sound(Fail(a)) /\ Keeps(a, Fail(a)) /\ SameLink(a, Fail(a))
         /\ Fail(a).connection = "failed"
BY SoundIsCoherent, FailCoherent

-----------------------------------------------------------------------------
\* Handlers that touch messages and flags only

\* Clearing the inactivity warning changes nothing of the link.
LEMMA ClearInactivityWarningSame ==
  ASSUME NEW a \in AppState
  PROVE  /\ Silent(a, ClearInactivityWarning(a))
<1>1. ClearInactivityWarning(a) \in AppState
  <2>1. [a EXCEPT !.inactivity_warning = FALSE, !.last_error = FALSE] \in AppState
    BY DEF AppState
  <2> QED BY <2>1 DEF ClearInactivityWarning
<1> QED
  BY <1>1 DEF ClearInactivityWarning, AppState, SameLink, Silent

\* Replacing the message list changes nothing of the link.
LEMMA MessagesSame ==
  ASSUME NEW a \in AppState, NEW v \in Seq(Message)
  PROVE  LET b == [a EXCEPT !.messages = v]
         IN  Silent(a, b)
BY DEF AppState, SameLink, Silent

\* Giving a message another state, or failing to find it, is silent.
LEMMA MarkMessageSame ==
  ASSUME NEW a \in AppState, NEW i, NEW s \in MessageState
  PROVE  /\ Silent(a, MarkMessage(a, i, s))
<1>1. CASE i \notin DOMAIN a.messages
  BY <1>1 DEF MarkMessage, SameLink, Silent
<1>2. CASE i \in DOMAIN a.messages
  <2> DEFINE v == [a.messages EXCEPT ![i].state = s]
  <2>1. a.messages \in Seq(Message)
    BY DEF AppState
  <2>2. i \in 1 .. Len(a.messages) /\ a.messages[i] \in Message
    BY <2>1, <1>2
  <2>3. [a.messages[i] EXCEPT !.state = s] \in Message
    BY <2>2 DEF Message
  <2>4. v \in Seq(Message)
    BY <2>1, <2>2, <2>3, ExceptSeq
  <2>5. MarkMessage(a, i, s) = [a EXCEPT !.messages = v]
    BY <1>2 DEF MarkMessage
  <2> QED BY <2>4, <2>5, MessagesSame
<1> QED BY <1>1, <1>2

\* Appending a message is silent.
LEMMA AppendMessageSame ==
  ASSUME NEW a \in AppState, NEW role \in {"user", "assistant"}, NEW s \in MessageState
  PROVE  /\ Silent(a, AppendMessage(a, role, s))
<1>1. Append(a.messages, [role |-> role, state |-> s]) \in Seq(Message)
  BY DEF AppState, Message
<1> QED
  BY <1>1, MessagesSame DEF AppendMessage

\* active_user and active_assistant are written by many handlers.
LEMMA ActiveSame ==
  ASSUME NEW a \in AppState, NEW u \in Nat, NEW v \in Nat
  PROVE  LET b == [a EXCEPT !.active_user = u, !.active_assistant = v]
         IN  Silent(a, b)
BY DEF AppState, SameLink, Silent

\* Marking the messages of the failed turn is silent.
LEMMA MarkActiveTurnFailedSame ==
  ASSUME NEW a \in AppState
  PROVE  /\ Silent(a, MarkActiveTurnFailed(a))
<1> DEFINE b == MarkMessage(a, a.active_user, "failed")
           c == MarkMessage(b, a.active_assistant, "failed")
<1>1. Silent(a, b)
  BY MarkMessageSame DEF MessageState
<1>2. Silent(b, c)
  BY <1>1, MarkMessageSame DEF MessageState, SameLink, Silent
<1>3. MarkActiveTurnFailed(a) = [c EXCEPT !.active_user = 0, !.active_assistant = 0]
  BY DEF MarkActiveTurnFailed
<1> HIDE DEF b, c
<1>4. c \in AppState
  BY <1>2 DEF SameLink, Silent
<1>5. LET d == [c EXCEPT !.active_user = 0, !.active_assistant = 0]
      IN  Silent(c, d)
  BY <1>4, ActiveSame
<1> QED
  BY <1>1, <1>2, <1>3, <1>5, SilentTrans

-----------------------------------------------------------------------------
\* AgentClient: turn state and deadlines

\* What a change of the turn and the loss of all requests leave alone.
SameProcess(a, b) ==
    /\ b \in AppState
    /\ b.client = a.client /\ b.process = a.process /\ b.signal = a.signal
    /\ b.transport = a.transport
    /\ b.prompt_requests \subseteq a.prompt_requests
    /\ b.workspace = a.workspace /\ b.saved = a.saved /\ b.requested = a.requested
    /\ b.quit = "done" \/ (b.quit = a.quit /\ b.watchdog = a.watchdog)

\* Setting the turn and its inactivity timer leaves every other field.
LEMMA TurnFieldsFrame ==
  ASSUME NEW a \in AppState, NEW t \in TurnState, NEW w \in BOOLEAN
  PROVE  LET b == [a EXCEPT !.turn = t, !.watch = w]
         IN  /\ SameProcess(a, b)
             /\ b.pending = a.pending /\ b.deadlines = a.deadlines
             /\ b.turn = t /\ b.watch = w
             /\ b.connection = a.connection /\ b.quit = a.quit /\ b.watchdog = a.watchdog
BY DEF AppState, SameProcess

\* AgentClient._set_turn_state: the inactivity timer runs only in a busy turn
\* afterwards, and a waiting close request stays as it was.
LEMMA SetTurnFrame ==
  ASSUME NEW a \in AppState, NEW t \in TurnState,
         a.watch => a.turn \in BusyTurn
  PROVE  LET b == SetTurn(a, t)
         IN  /\ SameProcess(a, b)
             /\ b.pending = a.pending /\ b.deadlines = a.deadlines
             /\ b.turn = t
             /\ b.watch => t \in BusyTurn
             /\ b.connection = a.connection
             /\ b.quit = "active" =>
                    a.quit = "active" /\ (a.connection = "stopping" \/ b = a)
<1>1. CASE a.turn = t
  BY <1>1 DEF SetTurn, SameProcess
<1>2. CASE a.turn # t
  <2> DEFINE b == [a EXCEPT !.turn = t, !.watch = t \in BusyTurn]
             c == ClearInactivityWarning(b)
             d == StateChanged(c)
  <2>1. /\ SameProcess(a, b)
        /\ b.pending = a.pending /\ b.deadlines = a.deadlines
        /\ b.turn = t /\ (b.watch => t \in BusyTurn)
        /\ b.connection = a.connection /\ b.quit = a.quit /\ b.watchdog = a.watchdog
    <3>1. CASE t \in BusyTurn
      <4>1. b = [a EXCEPT !.turn = t, !.watch = TRUE]
        BY <3>1, Zenon
      <4> HIDE DEF b
      <4> QED BY <3>1, <4>1, TurnFieldsFrame
    <3>2. CASE t \notin BusyTurn
      <4>0. (t \in BusyTurn) = FALSE
        BY <3>2
      <4>1. b = [a EXCEPT !.turn = t, !.watch = FALSE]
        BY <4>0, Zenon
      <4> HIDE DEF b
      <4> QED BY <3>2, <4>1, TurnFieldsFrame
    <3> QED BY <3>1, <3>2
  <2> HIDE DEF b
  <2>2. Silent(b, c)
    BY <2>1, ClearInactivityWarningSame DEF SameProcess
  <2> HIDE DEF c
  <2>3. /\ SameLink(c, d) /\ d.connection = c.connection
        /\ d.quit = "active" => c.quit = "active" /\ c.connection = "stopping"
    BY <2>2, StateChangedFrame DEF SameLink, Silent
  <2> HIDE DEF d
  <2>4. SetTurn(a, t) = d
    BY <1>2 DEF SetTurn, b, c, d
  <2> QED
    BY <2>1, <2>2, <2>3, <2>4 DEF SameLink, Silent, SameProcess
<1> QED BY <1>1, <1>2

\* AgentClient._set_turn_state preserves the invariant.
LEMMA SetTurnSound ==
  ASSUME NEW a, Sound(a), a.client, NEW t \in TurnState
  PROVE  LET b == SetTurn(a, t)
         IN  /\ Sound(b) /\ Keeps(a, b) /\ SameProcess(a, b)
             /\ b.pending = a.pending /\ b.turn = t /\ b.connection = a.connection
<1> DEFINE b == SetTurn(a, t)
<1>1. a \in AppState /\ (a.watch => a.turn \in BusyTurn)
  BY DEF Sound, Paired
<1>2. /\ SameProcess(a, b)
      /\ b.pending = a.pending /\ b.deadlines = a.deadlines
      /\ b.turn = t /\ (b.watch => t \in BusyTurn)
      /\ b.connection = a.connection
      /\ b.quit = "active" =>
             a.quit = "active" /\ (a.connection = "stopping" \/ b = a)
  BY <1>1, SetTurnFrame
<1> HIDE DEF b
<1>3. Sound(b)
  BY <1>2 DEF Sound, Paired, Waiting, SameProcess
<1>4. Keeps(a, b)
  BY <1>2 DEF Keeps, SameProcess
<1> QED BY <1>2, <1>3, <1>4 DEF b

\* AgentClient._clear_pending empties requests, deadlines and the inactivity
\* timer together.
LEMMA DropRequestsFrame ==
  ASSUME NEW a \in AppState
  PROVE  LET b == DropRequests(a)
         IN  /\ SameProcess(a, b)
             /\ b.pending = {} /\ b.deadlines = {} /\ ~b.watch
             /\ b.turn = a.turn /\ b.connection = a.connection /\ b.quit = a.quit /\ b.watchdog = a.watchdog
BY DEF DropRequests, AppState, SameProcess

\* AgentClient._clear_pending preserves the invariant.
LEMMA DropRequestsSound ==
  ASSUME NEW a, Sound(a)
  PROVE  LET b == DropRequests(a)
         IN  /\ Sound(b) /\ Keeps(a, b) /\ SameProcess(a, b)
             /\ b.pending = {} /\ b.connection = a.connection
<1> DEFINE b == DropRequests(a)
<1>1. a \in AppState
  BY DEF Sound
<1>2. /\ SameProcess(a, b)
      /\ b.pending = {} /\ b.deadlines = {} /\ ~b.watch
      /\ b.turn = a.turn /\ b.connection = a.connection /\ b.quit = a.quit /\ b.watchdog = a.watchdog
  BY <1>1, DropRequestsFrame
<1> HIDE DEF b
<1>3. Keeps(a, b)
  BY <1>2 DEF Keeps, SameProcess
<1>4. Sound(b)
  BY <1>2 DEF Sound, Detached, Paired, Waiting, SameProcess
<1> QED BY <1>2, <1>3, <1>4 DEF b

\* AgentClient._note_activity restarts the timer in a busy turn only.
LEMMA NoteActivitySound ==
  ASSUME NEW a, Sound(a), a.turn \in BusyTurn => a.client
  PROVE  /\ Sound(NoteActivity(a)) /\ Keeps(a, NoteActivity(a))
         /\ SameProcess(a, NoteActivity(a))
         /\ NoteActivity(a).pending = a.pending
<1>1. a \in AppState
  BY DEF Sound
<1>2. CASE a.turn \in BusyTurn
  <2> DEFINE b == [a EXCEPT !.watch = TRUE]
  <2>1. /\ SameProcess(a, b) /\ b.turn = a.turn
        /\ b.pending = a.pending /\ b.deadlines = a.deadlines
        /\ b.connection = a.connection /\ b.quit = a.quit /\ b.watchdog = a.watchdog
    BY <1>1 DEF AppState, SameProcess
  <2>2. NoteActivity(a) = b
    BY <1>2 DEF NoteActivity
  <2> HIDE DEF b
  <2> QED
    BY <1>2, <2>1, <2>2 DEF Sound, Keeps, Paired, Waiting, SameProcess
<1>3. CASE a.turn \notin BusyTurn
  BY <1>1, <1>3 DEF NoteActivity, Keeps, SameProcess
<1> QED BY <1>2, <1>3

-----------------------------------------------------------------------------
\* QProcessAgentTransport

\* Setting the state of the transport leaves every other field.
LEMMA TransportStateFrame ==
  ASSUME NEW a \in AppState, NEW t \in TransportState
  PROVE  LET b == [a EXCEPT !.transport = t]
         IN  /\ b \in AppState
             /\ b.transport = t
             /\ b.client = a.client /\ b.process = a.process /\ b.signal = a.signal
             /\ b.pending = a.pending /\ b.deadlines = a.deadlines
             /\ b.prompt_requests = a.prompt_requests
             /\ b.watch = a.watch /\ b.turn = a.turn
             /\ b.connection = a.connection /\ b.quit = a.quit /\ b.watchdog = a.watchdog
             /\ b.workspace = a.workspace /\ b.saved = a.saved
             /\ b.requested = a.requested
BY DEF AppState

\* What STOPPED leaves alone, whatever it resets.
SameTransport(a, b) ==
    /\ b \in AppState
    /\ b.process = a.process /\ b.signal = a.signal /\ b.transport = a.transport
    /\ b.pending = a.pending /\ b.deadlines = a.deadlines
    /\ b.watch = a.watch /\ b.turn = a.turn
    /\ b.workspace = a.workspace /\ b.saved = a.saved
    /\ b.quit = "done" \/ (b.quit = a.quit /\ b.watchdog = a.watchdog)

\* The controller, told that the transport stopped, gives up client, prompt
\* requests and requested session, and releases a close request.
LEMMA OnTransportStoppedFrame ==
  ASSUME NEW a \in AppState
  PROVE  LET b == OnTransportStopped(a)
         IN  /\ SameTransport(a, b)
             /\ ~b.client /\ b.prompt_requests = {} /\ b.requested = NoSession
             /\ b.connection \in {"disconnected", "failed"}
             /\ b.quit # "active"
<1> DEFINE c(d) == [d EXCEPT
                    !.session_ready = FALSE, !.requested = NoSession,
                    !.recovery_attempted = FALSE,
                    !.active_user = 0, !.active_assistant = 0]
           e(d) == [d EXCEPT
                    !.prompt_requests = {}, !.client = FALSE,
                    !.requires_reconciliation = FALSE,
                    !.inactivity_warning = FALSE]
           f(d, k) == [d EXCEPT !.connection = k, !.disconnect_requested = FALSE]
           g(k) == f(e(c(a)), k)
<1>1. SameTransport(a, c(a)) /\ c(a).requested = NoSession
  BY DEF AppState, SameTransport
<1>2. ASSUME NEW d \in AppState
      PROVE  /\ SameTransport(d, e(d)) /\ e(d).requested = d.requested
             /\ ~e(d).client /\ e(d).prompt_requests = {}
  <2>1. e(d) \in AppState
    BY DEF AppState
  <2> QED BY <2>1 DEF AppState, SameTransport
<1>3. ASSUME NEW d \in AppState, NEW k \in {"disconnected", "failed"}
      PROVE  /\ SameTransport(d, f(d, k)) /\ f(d, k).requested = d.requested
             /\ f(d, k).client = d.client
             /\ f(d, k).prompt_requests = d.prompt_requests
             /\ f(d, k).connection = k
  <2>1. k \in ConnectionState
    BY DEF ConnectionState
  <2>2. f(d, k) \in AppState
    BY <2>1 DEF AppState
  <2> QED BY <2>2 DEF AppState, SameTransport
<1>4. \/ OnTransportStopped(a) = StateChanged(g("disconnected"))
      \/ OnTransportStopped(a) = StateChanged(g("failed"))
  BY Zenon DEF OnTransportStopped
<1>5. ASSUME NEW k \in {"disconnected", "failed"}
      PROVE  /\ SameTransport(a, g(k)) /\ g(k).requested = NoSession
             /\ ~g(k).client /\ g(k).prompt_requests = {}
             /\ g(k).connection = k
  <2> HIDE DEF c, e, f
  <2> QED BY <1>1, <1>2, <1>3 DEF SameTransport
<1> HIDE DEF g
<1>6. PICK k \in {"disconnected", "failed"} :
          OnTransportStopped(a) = StateChanged(g(k))
  BY <1>4
<1>7. g(k) \in AppState
  BY <1>5 DEF SameTransport
<1>8. /\ SameLink(g(k), StateChanged(g(k)))
      /\ StateChanged(g(k)).connection = g(k).connection
      /\ StateChanged(g(k)).quit = "active" => g(k).connection = "stopping"
  BY <1>7, StateChangedFrame
<1> QED
  BY <1>5, <1>6, <1>8 DEF SameLink, Silent, SameTransport

\* RpcTransport reaching STOPPED, with all its callbacks, leaves a session
\* without client detached.
LEMMA SetStoppedSound ==
  ASSUME NEW a, Sound(a), a.process = "not-running"
  PROVE  LET b == SetStopped(a)
         IN  /\ Sound(b) /\ Keeps(a, b) /\ ~b.client
             /\ b.process = a.process /\ b.signal = a.signal
<1>1. CASE a.transport = "stopped"
  BY <1>1 DEF SetStopped, Sound, Keeps
<1>2. CASE a.transport # "stopped"
  <2> DEFINE b == [a EXCEPT !.transport = "stopped"]
             c == DropRequests(b)
             d == IF c.turn = "failed" THEN c ELSE SetTurn(c, "idle")
             e == OnTransportStopped(d)
  <2>1. /\ b \in AppState /\ b.transport = "stopped" /\ b.quit = a.quit /\ b.watchdog = a.watchdog
        /\ b.process = a.process /\ b.signal = a.signal
        /\ b.workspace = a.workspace /\ b.saved = a.saved /\ b.requested = a.requested
    BY TransportStateFrame DEF Sound, TransportState
  <2> HIDE DEF b
  <2>2. /\ SameProcess(b, c)
        /\ c.pending = {} /\ c.deadlines = {} /\ ~c.watch
    BY <2>1, DropRequestsFrame
  <2> HIDE DEF c
  <2>3. /\ SameProcess(c, d)
        /\ d.pending = {} /\ d.deadlines = {} /\ ~d.watch
    <3>1. CASE c.turn = "failed"
      BY <2>2, <3>1 DEF SameProcess
    <3>2. CASE c.turn # "failed"
      BY <2>2, <3>2, SetTurnFrame DEF SameProcess, TurnState, BusyTurn
    <3> QED BY <3>1, <3>2
  <2> HIDE DEF d
  <2>4. SetStopped(a) = e
    BY <1>2 DEF SetStopped, TransportStopped, b, c, d, e
  <2>5. /\ e \in AppState /\ ~e.client /\ e.prompt_requests = {}
        /\ e.requested = NoSession
        /\ e.connection \in {"disconnected", "failed"}
        /\ e.process = d.process /\ e.signal = d.signal
        /\ e.transport = d.transport
        /\ e.pending = {} /\ e.deadlines = {} /\ ~e.watch
        /\ e.workspace = d.workspace /\ e.saved = d.saved
        /\ e.quit # "active" /\ ((e.quit = d.quit /\ e.watchdog = d.watchdog) \/ e.quit = "done")
    BY <2>3, OnTransportStoppedFrame DEF SameProcess, SameTransport
  <2> HIDE DEF e
  <2> QED
    BY <2>1, <2>2, <2>3, <2>4, <2>5
    DEF SameProcess, Sound, Keeps, Detached, Paired, Waiting
<1> QED BY <1>1, <1>2

\* RpcTransport reaching STOPPING, with all its callbacks.
LEMMA SetStoppingSound ==
  ASSUME NEW a, Sound(a), a.client, a.pending = {}
  PROVE  LET b == SetStopping(a)
         IN  /\ Sound(b) /\ Keeps(a, b) /\ b.client
             /\ b.process = a.process /\ b.signal = a.signal
             /\ b.transport = "stopping" /\ b.pending = {}
<1>1. CASE a.transport = "stopping"
  BY <1>1 DEF SetStopping, Sound, Keeps
<1>2. CASE a.transport # "stopping"
  <2> DEFINE b == [a EXCEPT !.transport = "stopping"]
             c == [b EXCEPT !.connection = "stopping"]
  <2>1. /\ b \in AppState /\ b.transport = "stopping" /\ b.quit = a.quit /\ b.watchdog = a.watchdog
        /\ b.client /\ b.process = a.process /\ b.signal = a.signal
        /\ b.pending = {} /\ b.deadlines = {}
        /\ b.watch = a.watch /\ b.turn = a.turn
        /\ b.workspace = a.workspace /\ b.saved = a.saved /\ b.requested = a.requested
    <3>1. a \in AppState /\ a.deadlines = {} /\ "stopping" \in TransportState
      BY DEF Sound, Paired, TransportState
    <3> QED BY <3>1, TransportStateFrame
  <2> HIDE DEF b
  <2>2. SameLink(b, c) /\ c.connection = "stopping"
    BY <2>1 DEF AppState, ConnectionState, SameLink, Silent
  <2>3. SetStopping(a) = StateChanged(c)
    BY <1>2 DEF SetStopping, OnTransportStopping, b, c
  <2> HIDE DEF c
  <2>4. /\ Sound(StateChanged(c)) /\ SameLink(c, StateChanged(c))
        /\ StateChanged(c).connection = "stopping"
    <3>1. c \in AppState /\ c.client /\ c.transport = "stopping"
      BY <2>1, <2>2 DEF SameLink, Silent
    <3>2. Paired(c)
      BY <2>1, <2>2 DEF SameLink, Silent, Sound, Paired
    <3> QED BY <2>2, <3>1, <3>2, StateChangedSound
  <2> QED
    BY <2>1, <2>2, <2>3, <2>4 DEF SameLink, Silent, Keeps
<1> QED BY <1>1, <1>2

-----------------------------------------------------------------------------
\* RpcTransport reaching FAILED, with all its callbacks.
LEMMA SetFailedSound ==
  ASSUME NEW a, Sound(a), a.client
  PROVE  LET b == SetFailed(a)
         IN  /\ Sound(b) /\ Keeps(a, b) /\ b.client
             /\ b.transport = "failed" /\ b.pending = {}
<1>0. a \in AppState
  BY DEF Sound
<1>1. CASE a.transport = "failed"
  BY <1>1 DEF SetFailed, Sound, Keeps, Paired
<1>2. CASE a.transport # "failed"
  <2> DEFINE b == [a EXCEPT !.transport = "failed"]
             c == DropRequests(b)
             d == SetTurn(c, "failed")
             e == [d EXCEPT !.connection = "failed", !.session_ready = FALSE]
  <2>1. /\ b \in AppState /\ b.transport = "failed" /\ b.client
        /\ b.process = a.process /\ b.signal = a.signal
        /\ b.connection = a.connection /\ b.quit = a.quit /\ b.watchdog = a.watchdog
        /\ b.workspace = a.workspace /\ b.saved = a.saved /\ b.requested = a.requested
    <3>1. "failed" \in TransportState
      BY DEF TransportState
    <3> QED BY <1>0, <3>1, TransportStateFrame
  <2> HIDE DEF b
  <2>2. /\ SameProcess(b, c)
        /\ c.pending = {} /\ c.deadlines = {} /\ ~c.watch
        /\ c.connection = b.connection /\ c.quit = b.quit /\ c.watchdog = b.watchdog
    BY <2>1, DropRequestsFrame
  <2> HIDE DEF c
  <2>3. Sound(c) /\ c.client
    BY <2>1, <2>2 DEF Sound, Paired, Waiting, SameProcess
  <2>4. /\ Sound(d) /\ SameProcess(c, d) /\ d.pending = {}
    BY <2>2, <2>3, SetTurnSound DEF TurnState
  <2> HIDE DEF d
  <2>5. SameLink(d, e) /\ e.connection = "failed"
    <3>1. d \in AppState
      BY <2>4 DEF Sound
    <3>2. e \in AppState
      BY <3>1 DEF AppState, ConnectionState
    <3> QED BY <3>1, <3>2 DEF AppState, SameLink, Silent
  <2>6. SetFailed(a) = StateChanged(e)
    BY <1>2 DEF SetFailed, TransportFailed, OnTransportFailed, b, c, d, e
  <2> HIDE DEF e
  <2>7. /\ Sound(StateChanged(e)) /\ SameLink(e, StateChanged(e))
    <3>1. e \in AppState /\ e.client /\ e.transport = "failed"
      BY <2>1, <2>2, <2>4, <2>5 DEF SameLink, Silent, SameProcess
    <3>2. Paired(e)
      BY <2>4, <2>5 DEF Sound, Paired, SameLink, Silent
    <3> QED BY <2>5, <3>1, <3>2, StateChangedSound
  <2> QED
    BY <2>1, <2>2, <2>4, <2>5, <2>6, <2>7 DEF SameLink, Silent, SameProcess, Keeps
<1> QED BY <1>1, <1>2

\* The error a failed transport reports fails turn and connection.
LEMMA ClientTransportErrorSound ==
  ASSUME NEW a, Sound(a), a.client
  PROVE  LET b == ClientTransportError(a)
         IN  /\ Sound(b) /\ Keeps(a, b) /\ b.client
             /\ b.transport = a.transport /\ b.pending = {}
<1> DEFINE b == DropRequests(a)
           c == IF b.turn = "idle" THEN b ELSE SetTurn(b, "failed")
           d == Fail(c)
<1>1. Sound(b) /\ Keeps(a, b) /\ SameProcess(a, b) /\ b.pending = {}
  BY DropRequestsSound
<1>2. ClientTransportError(a) = d
  BY DEF ClientTransportError
<1> HIDE DEF b
<1>3. Sound(c) /\ Keeps(b, c) /\ SameProcess(b, c) /\ c.pending = {}
  <2>1. CASE b.turn = "idle"
    BY <1>1, <2>1 DEF Keeps, SameProcess, Sound
  <2>2. CASE b.turn # "idle"
    <3>1. b.client
      BY <1>1 DEF SameProcess
    <3> QED BY <1>1, <2>2, <3>1, SetTurnSound DEF TurnState
  <2> QED BY <2>1, <2>2
<1> HIDE DEF c
<1>4. Sound(d) /\ Keeps(c, d) /\ SameLink(c, d)
  BY <1>3, FailSound
<1> QED
  BY <1>1, <1>2, <1>3, <1>4, KeepsTrans DEF SameLink, Silent, SameProcess

\* The timers of the transport.
LEMMA TimersSame ==
  ASSUME NEW a \in AppState, NEW s \in BOOLEAN, NEW t \in BOOLEAN
  PROVE  LET b == [a EXCEPT !.startup_timer = s, !.shutdown_timer = t]
         IN  Silent(a, b)
<1> DEFINE b == [a EXCEPT !.startup_timer = s, !.shutdown_timer = t]
<1>1. b \in AppState
  BY DEF AppState
<1> QED BY <1>1 DEF AppState, SameLink, Silent

\* Stopping the start-up timer is silent.
LEMMA StartupTimerSame ==
  ASSUME NEW a \in AppState
  PROVE  LET b == [a EXCEPT !.startup_timer = FALSE]
         IN  Silent(a, b)
<1> DEFINE b == [a EXCEPT !.startup_timer = FALSE]
<1>1. b \in AppState
  BY DEF AppState
<1> QED BY <1>1 DEF AppState, SameLink, Silent

\* Starting or stopping the shutdown timer is silent.
LEMMA ShutdownTimerSame ==
  ASSUME NEW a \in AppState
  PROVE  LET b == [a EXCEPT !.shutdown_timer = FALSE]
         IN  Silent(a, b)
<1> DEFINE b == [a EXCEPT !.shutdown_timer = FALSE]
<1>1. b \in AppState
  BY DEF AppState
<1> QED BY <1>1 DEF AppState, SameLink, Silent

\* What signalling the process leaves alone.
Signalled(a, b) ==
    /\ b \in AppState
    /\ b.client = a.client /\ b.process = a.process /\ b.transport = a.transport
    /\ b.pending = a.pending /\ b.deadlines = a.deadlines
    /\ b.prompt_requests = a.prompt_requests
    /\ b.watch = a.watch /\ b.turn = a.turn
    /\ b.workspace = a.workspace /\ b.saved = a.saved /\ b.requested = a.requested
    /\ b.connection = a.connection /\ b.quit = a.quit /\ b.watchdog = a.watchdog
    /\ b.signal # "none"

\* A handler that only signals the process preserves the invariant.
LEMMA SignalledSound ==
  ASSUME NEW a, Sound(a), NEW b, Signalled(a, b)
  PROVE  Sound(b) /\ Keeps(a, b)
BY DEF Sound, Detached, Paired, Waiting, Keeps, Signalled

\* QProcess.kill is a signal that closes the pipes.
LEMMA KillSignals ==
  ASSUME NEW a \in AppState
  PROVE  Signalled(a, [a EXCEPT !.signal = "kill", !.open = FALSE])
<1> DEFINE b == [a EXCEPT !.signal = "kill", !.open = FALSE]
<1>1. b \in AppState
  BY DEF AppState
<1> QED BY <1>1 DEF AppState, Signalled

\* QProcess.terminate is a signal that closes the pipes.
LEMMA TerminateSignals ==
  ASSUME NEW a \in AppState, NEW s \in {"term", "kill"}
  PROVE  Signalled(a, [a EXCEPT !.open = FALSE, !.signal = s, !.shutdown_timer = TRUE])
<1> DEFINE b == [a EXCEPT !.open = FALSE, !.signal = s, !.shutdown_timer = TRUE]
<1>1. b \in AppState
  BY DEF AppState
<1> QED BY <1>1 DEF AppState, Signalled

\* RpcTransport.stop, in each state of the transport.
LEMMA TransportStopSound ==
  ASSUME NEW a, Sound(a), a.pending = {}
  PROVE  LET b == TransportStop(a)
         IN  /\ Sound(b) /\ Keeps(a, b)
             /\ b.process # "not-running" => b.signal # "none"
<1> DEFINE b == [a EXCEPT !.startup_timer = FALSE]
<1>0. a \in AppState
  BY DEF Sound
<1>1. Silent(a, b)
  BY <1>0, StartupTimerSame
<1> HIDE DEF b
<1>2. Sound(b) /\ Keeps(a, b) /\ b.pending = {}
  BY <1>1, SilentSound DEF SameLink, Silent
<1>3. CASE b.process = "not-running"
  <2>1. TransportStop(a) = SetStopped(b)
    BY <1>3 DEF TransportStop, b
  <2>2. Sound(SetStopped(b)) /\ Keeps(b, SetStopped(b))
        /\ SetStopped(b).process = "not-running"
    BY <1>2, <1>3, SetStoppedSound
  <2> QED BY <1>2, <2>1, <2>2, KeepsTrans
<1>4. CASE b.process # "not-running"
  <2> DEFINE c == SetStopping(b)
             d(s) == [c EXCEPT !.open = FALSE, !.signal = s, !.shutdown_timer = TRUE]
  <2>1. Sound(c) /\ Keeps(b, c)
    <3>1. b.client
      BY <1>2, <1>4 DEF Sound, Detached
    <3> QED BY <1>2, <3>1, SetStoppingSound
  <2>2. TransportStop(a) = d("term") \/ TransportStop(a) = d("kill")
    BY <1>4, Zenon DEF TransportStop, b
  <2> HIDE DEF c
  <2>3. ASSUME NEW s \in {"term", "kill"} PROVE Signalled(c, d(s))
    BY <2>1, TerminateSignals DEF Sound
  <2> HIDE DEF d
  <2>4. PICK s \in {"term", "kill"} : TransportStop(a) = d(s)
    BY <2>2
  <2>5. Sound(d(s)) /\ Keeps(c, d(s)) /\ d(s).signal # "none"
    BY <2>1, <2>3, SignalledSound DEF Signalled
  <2> QED BY <1>2, <2>1, <2>4, <2>5, KeepsTrans
<1> QED BY <1>3, <1>4

\* RpcTransport._fail, with or without killing the process.
LEMMA TransportFailSound ==
  ASSUME NEW a, Sound(a), a.client, NEW kill \in BOOLEAN
  PROVE  LET b == TransportFail(a, kill)
         IN  /\ Sound(b) /\ Keeps(a, b) /\ b.client
<1> DEFINE b == [a EXCEPT !.startup_timer = FALSE, !.shutdown_timer = FALSE]
           c == SetFailed(b)
           d == ClientTransportError(c)
           e == [d EXCEPT !.signal = "kill", !.open = FALSE]
<1>0. a \in AppState
  BY DEF Sound
<1>1. Sound(b) /\ Keeps(a, b) /\ b.client
  <2>1. Silent(a, b)
    BY <1>0, TimersSame
  <2> QED BY <2>1, SilentSound DEF SameLink, Silent
<1>2. TransportFail(a, kill) = d \/ TransportFail(a, kill) = e
  BY DEF TransportFail
<1> HIDE DEF b
<1>3. Sound(c) /\ Keeps(b, c) /\ c.client
  BY <1>1, SetFailedSound
<1> HIDE DEF c
<1>4. Sound(d) /\ Keeps(c, d) /\ d.client
  BY <1>3, ClientTransportErrorSound
<1> HIDE DEF d
<1>5. Signalled(d, e)
  BY <1>4, KillSignals DEF Sound
<1> HIDE DEF e
<1>6. Sound(e) /\ Keeps(d, e) /\ e.client
  BY <1>4, <1>5, SignalledSound DEF Signalled
<1> QED BY <1>1, <1>2, <1>3, <1>4, <1>6, KeepsTrans

-----------------------------------------------------------------------------
\* Shutting down and sending

\* AgentClient.shutdown drops the requests before the transport stops.
LEMMA ClientShutdownSound ==
  ASSUME NEW a, Sound(a)
  PROVE  LET b == ClientShutdown(a)
         IN  /\ Sound(b) /\ Keeps(a, b)
             /\ b.process # "not-running" => b.signal # "none"
<1> DEFINE b == DropRequests(a)
           c == TransportStop(b)
<1>1. Sound(b) /\ Keeps(a, b) /\ b.pending = {}
  BY DropRequestsSound
<1>2. ClientShutdown(a) = c
  BY DEF ClientShutdown
<1> HIDE DEF b
<1>3. /\ Sound(c) /\ Keeps(b, c)
      /\ c.process # "not-running" => c.signal # "none"
  BY <1>1, TransportStopSound
<1> QED BY <1>1, <1>2, <1>3, KeepsTrans

\* AgentController._fail_and_stop repairs Waiting, as _fail does.
LEMMA FailAndStopCoherent ==
  ASSUME NEW a, Coherent(a)
  PROVE  Sound(FailAndStop(a)) /\ Keeps(a, FailAndStop(a))
<1> DEFINE b == Fail(a)
           c == [b EXCEPT !.disconnect_requested = FALSE]
           d == ClientShutdown(c)
<1>1. Sound(b) /\ Keeps(a, b)
  BY FailCoherent
<1>2. FailAndStop(a) = b \/ FailAndStop(a) = d
  BY DEF FailAndStop
<1> HIDE DEF b
<1>3. Silent(b, c)
  <2>1. b \in AppState
    BY <1>1 DEF Sound
  <2>2. c \in AppState
    BY <2>1 DEF AppState
  <2> QED BY <2>1, <2>2 DEF AppState, SameLink, Silent
<1> HIDE DEF c
<1>4. Sound(c) /\ Keeps(b, c)
  BY <1>1, <1>3, SilentSound
<1>5. Sound(d) /\ Keeps(c, d)
  BY <1>4, ClientShutdownSound
<1> QED BY <1>1, <1>2, <1>4, <1>5, KeepsTrans

\* AgentController._fail_and_stop preserves the invariant.
LEMMA FailAndStopSound ==
  ASSUME NEW a, Sound(a)
  PROVE  Sound(FailAndStop(a)) /\ Keeps(a, FailAndStop(a))
BY SoundIsCoherent, FailAndStopCoherent

\* Everything that matters to the link, the saved and requested session and
\* the connection excepted.
LinkOnly(a, b) ==
    /\ b \in AppState
    /\ b.client = a.client /\ b.process = a.process /\ b.signal = a.signal
    /\ b.transport = a.transport
    /\ b.pending = a.pending /\ b.deadlines = a.deadlines
    /\ b.prompt_requests \subseteq a.prompt_requests
    /\ b.watch = a.watch /\ b.turn = a.turn
    /\ b.workspace = a.workspace /\ b.quit = a.quit /\ b.watchdog = a.watchdog

\* A handler that changes such fields and ends in stateChanged.
LEMMA AnnouncedSound ==
  ASSUME NEW a, Sound(a), NEW b, LinkOnly(a, b),
         ~b.client => b.connection \in {"disconnected", "failed"}
  PROVE  /\ Sound(StateChanged(b))
         /\ SameLink(b, StateChanged(b))
         /\ StateChanged(b).connection = b.connection
<1>1. b \in AppState
  BY DEF LinkOnly
<1>2. ~b.client => Detached(b)
  BY DEF LinkOnly, Sound, Detached
<1>3. b.client => b.transport # "stopped"
  BY DEF LinkOnly, Sound
<1>4. Paired(b)
  BY DEF LinkOnly, Sound, Paired
<1>5. b.connection = "stopping" => b.client
  OBVIOUS
<1> QED BY <1>1, <1>2, <1>3, <1>4, <1>5, StateChangedSound

\* Announcing an unchanged connection preserves the invariant.
LEMMA AnnounceSound ==
  ASSUME NEW a, Sound(a)
  PROVE  Sound(StateChanged(a)) /\ Keeps(a, StateChanged(a))
         /\ SameLink(a, StateChanged(a))
<1>1. LinkOnly(a, a)
  BY DEF LinkOnly, Sound
<1>2. ~a.client => a.connection \in {"disconnected", "failed"}
  BY DEF Sound, Detached
<1>3. Sound(StateChanged(a)) /\ SameLink(a, StateChanged(a))
  BY <1>1, <1>2, AnnouncedSound
<1> QED BY <1>3 DEF SameLink, Silent, Keeps

\* AgentClient._send
LEMMA SendType ==
  ASSUME NEW a \in AppState, NEW m \in Nat, NEW c \in HydrationCommand \cup TurnCommand
  PROVE  Send(a, c, m) \in AppState
<1> DEFINE id == Len(a.log) + 1
<1>1. /\ a.log \in Seq(Request) /\ a.pending \in SUBSET Nat
      /\ a.deadlines \in SUBSET Nat /\ a.inbox \in SUBSET Nat
  BY DEF AppState
<1>2. id \in Nat
  BY <1>1
<1>3. Append(a.log, [command |-> c, message |-> m]) \in Seq(Request)
  BY <1>1 DEF Request
<1>4. /\ a.pending \cup {id} \in SUBSET Nat
      /\ a.deadlines \cup {id} \in SUBSET Nat
      /\ (IF a.open THEN a.inbox \cup {id} ELSE a.inbox) \in SUBSET Nat
  BY <1>1, <1>2
<1> HIDE DEF id
<1> DEFINE next(l, p, d, i) ==
             [a EXCEPT !.log = l, !.pending = p, !.deadlines = d, !.inbox = i]
<1>5. Send(a, c, m) = next(Append(a.log, [command |-> c, message |-> m]),
                           a.pending \cup {id}, a.deadlines \cup {id},
                           IF a.open THEN a.inbox \cup {id} ELSE a.inbox)
  BY DEF Send, id, AppState
<1>6. ASSUME NEW l \in Seq(Request), NEW p \in SUBSET Nat,
             NEW d \in SUBSET Nat, NEW i \in SUBSET Nat
      PROVE  next(l, p, d, i) \in AppState
  BY DEF AppState
<1> HIDE DEF next
<1> QED BY <1>3, <1>4, <1>5, <1>6

\* AgentClient._send adds a request and its deadline together, on a READY
\* transport.
LEMMA SendCoherent ==
  ASSUME NEW a, Coherent(a), a.transport = "ready",
         NEW m \in Nat, NEW c \in HydrationCommand \cup TurnCommand
  PROVE  LET b == Send(a, c, m)
         IN  /\ Coherent(b) /\ Keeps(a, b)
             /\ b.client /\ b.transport = "ready" /\ b.turn = a.turn
             /\ b.messages = a.messages /\ b.prompt_requests = a.prompt_requests
             /\ b.connection = a.connection /\ b.quit = a.quit /\ b.watchdog = a.watchdog
<1> DEFINE b == Send(a, c, m)
<1>0. a \in AppState /\ a.client /\ a.deadlines = a.pending
  BY DEF Coherent, Detached, Paired
<1>1. b \in AppState
  BY <1>0, SendType
<1>2. /\ b.client = a.client /\ b.process = a.process /\ b.signal = a.signal
      /\ b.transport = a.transport /\ b.turn = a.turn /\ b.watch = a.watch
      /\ b.messages = a.messages /\ b.prompt_requests = a.prompt_requests
      /\ b.workspace = a.workspace /\ b.saved = a.saved /\ b.requested = a.requested
      /\ b.connection = a.connection /\ b.quit = a.quit /\ b.watchdog = a.watchdog
  BY <1>0 DEF Send, AppState
<1>3. b.pending = a.pending \cup {Len(a.log) + 1}
      /\ b.deadlines = a.deadlines \cup {Len(a.log) + 1}
  BY <1>0 DEF Send, AppState
<1>4. Coherent(b)
  BY <1>0, <1>1, <1>2, <1>3 DEF Coherent, Paired
<1>5. Keeps(a, b)
  BY <1>2 DEF Keeps
<1> QED BY <1>0, <1>2, <1>4, <1>5

\* AgentClient._send preserves the invariant.
LEMMA SendSound ==
  ASSUME NEW a, Sound(a), a.transport = "ready",
         NEW m \in Nat, NEW c \in HydrationCommand \cup TurnCommand
  PROVE  LET b == Send(a, c, m)
         IN  /\ Sound(b) /\ Keeps(a, b)
             /\ b.client /\ b.transport = "ready" /\ b.turn = a.turn
             /\ b.messages = a.messages /\ b.prompt_requests = a.prompt_requests
             /\ b.connection = a.connection
<1> DEFINE b == Send(a, c, m)
<1>1. Coherent(a) /\ a.client
  BY SoundIsCoherent DEF Sound, Detached
<1>2. /\ Coherent(b) /\ Keeps(a, b)
      /\ b.client /\ b.transport = "ready" /\ b.turn = a.turn
      /\ b.messages = a.messages /\ b.prompt_requests = a.prompt_requests
      /\ b.connection = a.connection /\ b.quit = a.quit /\ b.watchdog = a.watchdog
  BY <1>1, SendCoherent
<1> HIDE DEF b
<1>3. Sound(b)
  BY <1>1, <1>2 DEF Coherent, Sound, Waiting
<1> QED BY <1>2, <1>3 DEF b

\* A hydration command is written, or the connection is stopped.
LEMMA SendOrStopSound ==
  ASSUME NEW a, Sound(a), NEW written,
         NEW c \in HydrationCommand \cup TurnCommand
  PROVE  Sound(SendOrStop(a, c, written)) /\ Keeps(a, SendOrStop(a, c, written))
<1>1. CASE CanWrite(a, written)
  <2>1. a.transport = "ready"
    BY <1>1 DEF CanWrite
  <2>2. Sound(Send(a, c, 0)) /\ Keeps(a, Send(a, c, 0))
    BY <2>1, SendSound
  <2> QED BY <1>1, <2>2 DEF SendOrStop
<1>2. CASE ~CanWrite(a, written)
  BY <1>2, FailAndStopSound DEF SendOrStop
<1> QED BY <1>1, <1>2

-----------------------------------------------------------------------------
\* Replies.  Handling one leaves a session id that was saved or requested
\* before, or the one the reply names.

KeepsWith(a, b, session) ==
    /\ b.client => a.client
    /\ b.workspace = a.workspace
    /\ b.saved \in {a.saved, session}
    /\ b.requested \in {a.requested, NoSession, session}
    /\ b.process = a.process
    /\ b.signal = a.signal \/ b.signal # "none"
    /\ b.quit = "done" \/ (b.quit = a.quit /\ b.watchdog = a.watchdog)

\* A handler that keeps the saved session is one that may change it.
LEMMA KeepsIsKeepsWith ==
  ASSUME NEW a, NEW b, NEW session, Keeps(a, b)
  PROVE  KeepsWith(a, b, session)
BY DEF Keeps, KeepsWith

\* A handler that keeps the saved session may follow one that changes it.
LEMMA KeepsWithTrans ==
  ASSUME NEW a, NEW b, NEW c, NEW session, KeepsWith(a, b, session), Keeps(b, c)
  PROVE  KeepsWith(a, c, session)
BY DEF Keeps, KeepsWith

\* The saved and the requested session change together with the state handler.
LEMMA SessionFieldsSound ==
  ASSUME NEW a, Sound(a), NEW s \in SessionId \cup {NoSession},
         NEW q \in SessionId \cup {NoSession}, q \in {a.requested, s}
  PROVE  LET b == StateChanged([a EXCEPT !.saved = s, !.requested = q])
         IN  Sound(b) /\ KeepsWith(a, b, s)
<1> DEFINE b == [a EXCEPT !.saved = s, !.requested = q]
           c == StateChanged(b)
<1>0. a \in AppState
  BY DEF Sound
<1>1. b \in AppState
  BY <1>0 DEF AppState
<1>2. /\ LinkOnly(a, b) /\ b.connection = a.connection
      /\ b.saved = s /\ b.requested = q
  BY <1>0, <1>1 DEF AppState, LinkOnly
<1>3. ~b.client => b.connection \in {"disconnected", "failed"}
  BY <1>2 DEF LinkOnly, Sound, Detached
<1> HIDE DEF b
<1>4. Sound(c) /\ SameLink(b, c)
  BY <1>2, <1>3, AnnouncedSound
<1>5. KeepsWith(a, c, s)
  BY <1>2, <1>4 DEF LinkOnly, SameLink, Silent, KeepsWith
<1> QED BY <1>4, <1>5 DEF b

\* Saving the session id changes nothing else.
LEMMA SavedFieldSound ==
  ASSUME NEW a, Sound(a), NEW s \in SessionId \cup {NoSession}
  PROVE  LET b == StateChanged([a EXCEPT !.saved = s])
         IN  Sound(b) /\ KeepsWith(a, b, s)
<1> DEFINE b == [a EXCEPT !.saved = s]
           c == StateChanged(b)
<1>0. a \in AppState
  BY DEF Sound
<1>1. b \in AppState
  BY <1>0 DEF AppState
<1>2. /\ LinkOnly(a, b) /\ b.connection = a.connection
      /\ b.saved = s /\ b.requested = a.requested
  BY <1>0, <1>1 DEF AppState, LinkOnly
<1>3. ~b.client => b.connection \in {"disconnected", "failed"}
  BY <1>2 DEF LinkOnly, Sound, Detached
<1> HIDE DEF b
<1>4. Sound(c) /\ SameLink(b, c)
  BY <1>2, <1>3, AnnouncedSound
<1>5. KeepsWith(a, c, s)
  BY <1>2, <1>4 DEF LinkOnly, SameLink, Silent, KeepsWith
<1> QED BY <1>4, <1>5 DEF b

\* AgentController._on_session_state: only the answered session is saved.
LEMMA OnSessionStateSound ==
  ASSUME NEW a, Sound(a), NEW r \in Reply
  PROVE  LET b == OnSessionState(a, r)
         IN  Sound(b) /\ KeepsWith(a, b, r.session)
<1> DEFINE c == StateChanged([a EXCEPT !.saved = r.session])
           d == SendOrStop(c, "get_messages", r.written)
<1>1. Sound(FailAndStop(a)) /\ KeepsWith(a, FailAndStop(a), r.session)
  BY FailAndStopSound, KeepsIsKeepsWith
<1>2. Sound(c) /\ KeepsWith(a, c, r.session)
  BY SavedFieldSound DEF Reply
<1>3. OnSessionState(a, r) = FailAndStop(a) \/ OnSessionState(a, r) = d
  BY DEF OnSessionState
<1> HIDE DEF c
<1>4. Sound(d) /\ Keeps(c, d)
  BY <1>2, SendOrStopSound DEF HydrationCommand
<1> QED BY <1>1, <1>2, <1>3, <1>4, KeepsWithTrans

\* The get_state callback of a recovery: only the answered session is saved.
LEMMA OnRecoveredStateSound ==
  ASSUME NEW a, Sound(a), NEW r \in Reply
  PROVE  LET b == OnRecoveredState(a, r)
         IN  Sound(b) /\ KeepsWith(a, b, r.session)
<1> DEFINE c == StateChanged([a EXCEPT !.saved = r.session, !.requested = r.session])
           d == SendOrStop(c, "get_messages", r.written)
<1>1. Sound(FailAndStop(a)) /\ KeepsWith(a, FailAndStop(a), r.session)
  BY FailAndStopSound, KeepsIsKeepsWith
<1>2. Sound(c) /\ KeepsWith(a, c, r.session)
  BY SessionFieldsSound DEF Reply
<1>3. OnRecoveredState(a, r) = FailAndStop(a) \/ OnRecoveredState(a, r) = d
  BY DEF OnRecoveredState
<1> HIDE DEF c
<1>4. Sound(d) /\ Keeps(c, d)
  BY <1>2, SendOrStopSound DEF HydrationCommand
<1> QED BY <1>1, <1>2, <1>3, <1>4, KeepsWithTrans

\* Each step of a recovery sends its next command or stops.
LEMMA OnRecoveryStepSound ==
  ASSUME NEW a, Sound(a), NEW r \in Reply
  PROVE  /\ Sound(OnRecoveryEntries(a, r)) /\ Keeps(a, OnRecoveryEntries(a, r))
         /\ Sound(OnRecoveryFork(a, r)) /\ Keeps(a, OnRecoveryFork(a, r))
<1> DEFINE b == StateChanged(a)
           c(x) == SendOrStop(b, x, r.written)
<1>1. Sound(b) /\ Keeps(a, b)
  BY AnnounceSound
<1>2. Sound(FailAndStop(a)) /\ Keeps(a, FailAndStop(a))
  BY FailAndStopSound
<1>3. /\ OnRecoveryEntries(a, r) \in {FailAndStop(a), c("fork")}
      /\ OnRecoveryFork(a, r) \in {FailAndStop(a), c("get_recovered_state")}
  BY DEF OnRecoveryEntries, OnRecoveryFork
<1> HIDE DEF b
<1>4. ASSUME NEW x \in {"fork", "get_recovered_state"}
      PROVE  Sound(c(x)) /\ Keeps(a, c(x))
  <2>1. Sound(c(x)) /\ Keeps(b, c(x))
    BY <1>1, SendOrStopSound DEF HydrationCommand
  <2> QED BY <1>1, <2>1, KeepsTrans
<1> HIDE DEF c
<1> QED BY <1>2, <1>3, <1>4

\* Starting the recovery of a failed turn.
LEMMA BeginFailedTurnRecoverySound ==
  ASSUME NEW a, Sound(a), a.client, NEW r \in Reply
  PROVE  LET b == BeginFailedTurnRecovery(a, r)
         IN  Sound(b) /\ Keeps(a, b)
<1> DEFINE c == [a EXCEPT !.recovery_attempted = TRUE,
                          !.session_ready = FALSE,
                          !.connection = "loading-session"]
           d == StateChanged(c)
           e == SendOrStop(d, "get_entries", r.written)
<1>0. a \in AppState
  BY DEF Sound
<1>1. c \in AppState
  BY <1>0 DEF AppState, ConnectionState
<1>2. LinkOnly(a, c) /\ c.saved = a.saved /\ c.requested = a.requested
  BY <1>0, <1>1 DEF AppState, LinkOnly
<1>3. BeginFailedTurnRecovery(a, r) = e
  BY DEF BeginFailedTurnRecovery
<1> HIDE DEF c
<1>4. Sound(d) /\ SameLink(c, d)
  BY <1>2, AnnouncedSound DEF LinkOnly
<1>5. Keeps(a, d)
  BY <1>2, <1>4 DEF LinkOnly, SameLink, Silent, Keeps
<1> HIDE DEF d
<1>6. Sound(e) /\ Keeps(d, e)
  BY <1>4, SendOrStopSound DEF HydrationCommand
<1> QED BY <1>3, <1>5, <1>6, KeepsTrans

\* The history Pi answers is a list of messages.
LEMMA LoadedMessagesType ==
  ASSUME NEW r \in Reply
  PROVE  LoadedMessages(r) \in Seq(Message)
<1>1. CASE r.tail = "empty"
  BY <1>1 DEF LoadedMessages
<1>2. CASE r.tail # "empty"
  <2>1. r.tail \in {"complete", "failed"}
    BY <1>2 DEF Reply
  <2>2. [role |-> "user", state |-> r.tail] \in Message
    BY <2>1 DEF Message, MessageState
  <2>3. <<[role |-> "user", state |-> r.tail]>> \in Seq(Message)
    BY <2>2
  <2> QED BY <1>2, <2>3 DEF LoadedMessages
<1> QED BY <1>1, <1>2

\* AgentController._on_history, which opens the connection or recovers.
LEMMA OnHistorySound ==
  ASSUME NEW a, Sound(a), a.client, NEW r \in Reply
  PROVE  LET b == OnHistory(a, r)
         IN  Sound(b) /\ Keeps(a, b)
<1> DEFINE m == [a EXCEPT !.messages = LoadedMessages(r)]
           b == [m EXCEPT !.active_user = 0, !.active_assistant = 0]
           c == [b EXCEPT !.session_ready = TRUE,
                          !.requires_reconciliation = FALSE,
                          !.connection = "ready"]
           d == StateChanged(c)
<1>0. a \in AppState
  BY DEF Sound
<1>1. Silent(a, m)
  BY <1>0, LoadedMessagesType, MessagesSame
<1>2. OnHistory(a, r) \in
         {FailAndStop(a), d, FailAndStop(b), BeginFailedTurnRecovery(b, r)}
  BY DEF OnHistory
<1> HIDE DEF m
<1>3. m \in AppState
  BY <1>1 DEF SameLink, Silent
<1>4. Silent(m, b)
  BY <1>3, ActiveSame
<1> HIDE DEF b
<1>5. Silent(a, b)
  BY <1>1, <1>4, SilentTrans
<1>6. Sound(b) /\ Keeps(a, b) /\ b.client
  BY <1>5, SilentSound DEF SameLink, Silent
<1>7. Sound(d) /\ Keeps(b, d)
  <2>1. b \in AppState
    BY <1>6 DEF Sound
  <2>2. c \in AppState
    BY <2>1 DEF AppState, ConnectionState
  <2>3. LinkOnly(b, c) /\ c.saved = b.saved /\ c.requested = b.requested
    BY <2>1, <2>2 DEF AppState, LinkOnly
  <2> HIDE DEF c
  <2>4. Sound(d) /\ SameLink(c, d)
    BY <1>6, <2>3, AnnouncedSound DEF LinkOnly
  <2> QED BY <2>3, <2>4 DEF LinkOnly, SameLink, Silent, Keeps
<1> HIDE DEF d
<1>8. Sound(FailAndStop(a)) /\ Keeps(a, FailAndStop(a))
  BY FailAndStopSound
<1>9. Sound(FailAndStop(b)) /\ Keeps(b, FailAndStop(b))
  BY <1>6, FailAndStopSound
<1>10. /\ Sound(BeginFailedTurnRecovery(b, r))
       /\ Keeps(b, BeginFailedTurnRecovery(b, r))
  BY <1>6, BeginFailedTurnRecoverySound
<1> QED BY <1>2, <1>6, <1>7, <1>8, <1>9, <1>10, KeepsTrans

\* While a process is there the controller has its client, so that a turn may
\* be watched.
LEMMA NotedSound ==
  ASSUME NEW a, Sound(a), a.process # "not-running"
  PROVE  Sound(NoteActivity(a)) /\ Keeps(a, NoteActivity(a))
<1>1. a.client
  BY DEF Sound, Detached
<1> QED BY <1>1, NoteActivitySound

\* The abort is written whatever Pi answered to clear_queue, or not at all when
\* the write raises.
LEMMA AfterClearQueueSound ==
  ASSUME NEW a, Sound(a), a.process # "not-running", NEW r
  PROVE  LET b == AfterClearQueue(a, r)
         IN  Sound(b) /\ Keeps(a, b)
<1>1. CASE CanWrite(a, r.written)
  <2> DEFINE b == Send(a, "abort", 0)
  <2>1. a.transport = "ready"
    BY <1>1 DEF CanWrite
  <2>2. Sound(b) /\ Keeps(a, b)
    BY <2>1, SendSound DEF TurnCommand
  <2>3. AfterClearQueue(a, r) = NoteActivity(b)
    BY <1>1 DEF AfterClearQueue
  <2> HIDE DEF b
  <2>4. Sound(NoteActivity(b)) /\ Keeps(b, NoteActivity(b))
    BY <2>2, NotedSound DEF Keeps
  <2> QED BY <2>2, <2>3, <2>4, KeepsTrans
<1>2. CASE ~CanWrite(a, r.written)
  BY <1>2 DEF AfterClearQueue, Keeps
<1> QED BY <1>1, <1>2

\* A refused abort fails the turn and the connection.
LEMMA AfterAbortSound ==
  ASSUME NEW a, Sound(a), a.client, NEW r
  PROVE  LET b == AfterAbort(a, r)
         IN  Sound(b) /\ Keeps(a, b)
<1> DEFINE b == SetTurn(a, "failed")
           c == Fail(b)
<1>1. Sound(b) /\ Keeps(a, b)
  BY SetTurnSound DEF TurnState
<1>2. AfterAbort(a, r) \in {a, c}
  BY DEF AfterAbort
<1> HIDE DEF b
<1>3. Sound(c) /\ Keeps(b, c)
  BY <1>1, FailSound
<1>4. Keeps(a, a)
  BY DEF Keeps
<1> QED BY <1>1, <1>2, <1>3, <1>4, KeepsTrans

\* The callback of every command but prompt.
LEMMA CallbackSound ==
  ASSUME NEW a, Sound(a), a.process # "not-running", NEW r \in Reply, NEW command
  PROVE  LET b == Callback(a, command, r)
         IN  Sound(b) /\ KeepsWith(a, b, r.session)
<1> DEFINE good(b) == Sound(b) /\ KeepsWith(a, b, r.session)
<1>0. a.client
  BY DEF Sound, Detached
<1>1. ASSUME NEW b, good(b) PROVE good(NoteActivity(b))
  <2>1. b.process # "not-running"
    BY <1>1 DEF KeepsWith
  <2>2. Sound(NoteActivity(b)) /\ Keeps(b, NoteActivity(b))
    BY <1>1, <2>1, NotedSound
  <2> QED BY <1>1, <2>2, KeepsWithTrans
<1>2. ASSUME NEW b, Sound(b), Keeps(a, b) PROVE good(b)
  BY <1>2, KeepsIsKeepsWith
<1>3. good(OnSessionState(a, r)) /\ good(OnRecoveredState(a, r))
  BY OnSessionStateSound, OnRecoveredStateSound
<1>4. /\ good(OnHistory(a, r)) /\ good(OnRecoveryEntries(a, r))
      /\ good(OnRecoveryFork(a, r)) /\ good(AfterClearQueue(a, r))
      /\ good(AfterAbort(a, r)) /\ good(a)
  <2>1. Keeps(a, a)
    BY DEF Keeps
  <2>2. Sound(OnHistory(a, r)) /\ Keeps(a, OnHistory(a, r))
    BY <1>0, OnHistorySound
  <2>3. Sound(AfterClearQueue(a, r)) /\ Keeps(a, AfterClearQueue(a, r))
    BY AfterClearQueueSound
  <2>4. Sound(AfterAbort(a, r)) /\ Keeps(a, AfterAbort(a, r))
    BY <1>0, AfterAbortSound
  <2> HIDE DEF good
  <2> QED BY <1>2, <2>1, <2>2, <2>3, <2>4, OnRecoveryStepSound
<1> HIDE DEF good
<1>5. good(Callback(a, command, r))
  <2>1. CASE command = "get_state"
    BY <1>1, <1>3, <2>1 DEF Callback
  <2>2. CASE command = "get_messages"
    BY <1>1, <1>4, <2>2 DEF Callback
  <2>3. CASE command = "get_entries"
    BY <1>1, <1>4, <2>3 DEF Callback
  <2>4. CASE command = "fork"
    BY <1>1, <1>4, <2>4 DEF Callback
  <2>5. CASE command = "get_recovered_state"
    BY <1>1, <1>3, <2>5 DEF Callback
  <2>6. CASE command = "clear_queue"
    BY <1>4, <2>6 DEF Callback
  <2>7. CASE command = "abort"
    BY <1>1, <1>4, <2>7 DEF Callback
  <2>8. CASE command \notin {"get_state", "get_messages", "get_entries", "fork",
                             "get_recovered_state", "clear_queue", "abort"}
    BY <1>1, <1>4, <2>8 DEF Callback
  <2> QED BY <2>1, <2>2, <2>3, <2>4, <2>5, <2>6, <2>7, <2>8
<1> QED BY <1>5 DEF good

\* The registration of a prompt ends.
LEMMA PromptDroppedSame ==
  ASSUME NEW a \in AppState, NEW id
  PROVE  LET b == [a EXCEPT !.prompt_requests = @ \ {id}]
         IN  Silent(a, b)
<1> DEFINE p == a.prompt_requests \ {id}
           b == [a EXCEPT !.prompt_requests = p]
<1>1. p \in SUBSET Nat /\ p \subseteq a.prompt_requests
  BY DEF AppState
<1>2. [a EXCEPT !.prompt_requests = @ \ {id}] = b
  BY DEF AppState
<1> HIDE DEF p
<1>3. b \in AppState
  BY <1>1 DEF AppState
<1>4. Silent(a, b)
  BY <1>1, <1>3 DEF AppState, SameLink, Silent
<1> HIDE DEF b
<1> QED BY <1>2, <1>4

\* A message leaves the turn with an error shown.
LEMMA ActiveUserErrorSame ==
  ASSUME NEW a \in AppState, NEW u \in Nat
  PROVE  LET b == [a EXCEPT !.active_user = u, !.last_error = TRUE]
         IN  Silent(a, b)
<1> DEFINE b == [a EXCEPT !.active_user = u, !.last_error = TRUE]
<1>1. b \in AppState
  BY DEF AppState
<1> QED BY <1>1 DEF AppState, SameLink, Silent

\* The answer to a prompt, accepted or rejected.
LEMMA OnPromptAnswerSound ==
  ASSUME NEW a, Sound(a), NEW id, NEW r
  PROVE  LET b == OnPromptAnswer(a, id, r)
         IN  Sound(b) /\ Keeps(a, b)
<1> DEFINE b == ClearInactivityWarning(a)
           i == b.log[id].message
           c == [b EXCEPT !.prompt_requests = @ \ {id}]
           m(s) == MarkMessage(c, i, s)
           u == IF m("failed").active_user = i THEN 0 ELSE m("failed").active_user
           f == [m("failed") EXCEPT !.active_user = u, !.last_error = TRUE]
<1>1. Silent(a, b)
  BY ClearInactivityWarningSame DEF Sound
<1>2. OnPromptAnswer(a, id, r) \in {c, StateChanged(m("accepted")), StateChanged(f)}
  BY Zenon DEF OnPromptAnswer
<1> HIDE DEF b, i
<1>3. Silent(b, c)
  BY <1>1, PromptDroppedSame DEF SameLink, Silent
<1> HIDE DEF c
<1>4. Silent(a, c)
  BY <1>1, <1>3, SilentTrans
<1>5. Sound(c) /\ Keeps(a, c)
  BY <1>4, SilentSound
<1>6. ASSUME NEW s \in MessageState PROVE Sound(m(s)) /\ Keeps(c, m(s))
  BY <1>5, MarkMessageSame, SilentSound DEF Sound
<1>7. "accepted" \in MessageState /\ "failed" \in MessageState
  BY DEF MessageState
<1> HIDE DEF m
<1>8. Sound(f) /\ Keeps(m("failed"), f)
  <2>1. m("failed") \in AppState /\ u \in Nat
    BY <1>6, <1>7 DEF Sound, AppState
  <2> HIDE DEF u
  <2>2. Silent(m("failed"), f)
    BY <2>1, ActiveUserErrorSame
  <2> QED BY <1>6, <1>7, <2>2, SilentSound
<1> HIDE DEF f
<1>9. /\ Sound(StateChanged(m("accepted")))
      /\ Keeps(m("accepted"), StateChanged(m("accepted")))
      /\ Sound(StateChanged(f)) /\ Keeps(f, StateChanged(f))
  BY <1>6, <1>7, <1>8, AnnounceSound
<1> QED BY <1>2, <1>5, <1>6, <1>7, <1>8, <1>9, KeepsTrans

\* A request and its deadline leave together.
LEMMA AnsweredSound ==
  ASSUME NEW a, Sound(a), NEW id
  PROVE  LET b == [a EXCEPT !.pending = @ \ {id}, !.deadlines = @ \ {id}]
         IN  /\ Sound(b) /\ Keeps(a, b) /\ SameProcess(a, b)
             /\ b.turn = a.turn /\ b.connection = a.connection /\ b.quit = a.quit /\ b.watchdog = a.watchdog
<1> DEFINE p == a.pending \ {id}
           b == [a EXCEPT !.pending = p, !.deadlines = p]
<1>0. a \in AppState /\ a.deadlines = a.pending
  BY DEF Sound, Paired
<1>1. p \in SUBSET Nat /\ p \subseteq a.pending
  BY <1>0 DEF AppState
<1>2. [a EXCEPT !.pending = @ \ {id}, !.deadlines = @ \ {id}] = b
  BY <1>0 DEF AppState
<1> HIDE DEF p
<1>3. b \in AppState
  BY <1>0, <1>1 DEF AppState
<1>4. /\ SameProcess(a, b) /\ b.turn = a.turn /\ b.watch = a.watch
      /\ b.connection = a.connection /\ b.quit = a.quit /\ b.watchdog = a.watchdog
      /\ b.pending = p /\ b.deadlines = p
  BY <1>0, <1>3 DEF AppState, SameProcess
<1> HIDE DEF b
<1>5. Sound(b)
  BY <1>1, <1>4 DEF Sound, Detached, Paired, Waiting, SameProcess
<1>6. Keeps(a, b)
  BY <1>4 DEF Keeps, SameProcess
<1> QED BY <1>2, <1>4, <1>5, <1>6

\* AgentClient._on_response: the answered request and its deadline leave
\* together, then the callback of its command runs.
LEMMA OnResponseSound ==
  ASSUME NEW a, Sound(a), a.process # "not-running", NEW id, NEW r \in Reply
  PROVE  LET b == OnResponse(a, id, r)
         IN  Sound(b) /\ KeepsWith(a, b, r.session)
<1> DEFINE b == [a EXCEPT !.pending = @ \ {id}, !.deadlines = @ \ {id}]
           c == OnPromptAnswer(b, id, r)
           d == Callback(c, a.log[id].command, r)
<1>1. Sound(b) /\ Keeps(a, b)
  BY AnsweredSound
<1>2. OnResponse(a, id, r) \in {d, NoteActivity(c)}
  BY Zenon DEF OnResponse
<1> HIDE DEF b
<1>3. Sound(c) /\ Keeps(b, c)
  BY <1>1, OnPromptAnswerSound
<1>4. Keeps(a, c) /\ c.process # "not-running"
  BY <1>1, <1>3, KeepsTrans DEF Keeps
<1> HIDE DEF c
<1>5. Sound(d) /\ KeepsWith(c, d, r.session)
  BY <1>3, <1>4, CallbackSound
<1>6. Sound(NoteActivity(c)) /\ Keeps(c, NoteActivity(c))
  BY <1>3, <1>4, NotedSound
<1>7. KeepsWith(a, d, r.session)
  BY <1>4, <1>5 DEF Keeps, KeepsWith
<1> QED BY <1>2, <1>4, <1>5, <1>6, <1>7, KeepsTrans, KeepsIsKeepsWith

-----------------------------------------------------------------------------
\* Events.  They come from a running process, so the controller has a client.

\* A flag of the client or of the controller that nothing else depends on.
LEMMA FlagsSame ==
  ASSUME NEW a \in AppState, NEW v \in BOOLEAN
  PROVE  /\ LET b == [a EXCEPT !.auto_retry = v]
            IN  Silent(a, b)
         /\ LET b == [a EXCEPT !.last_error = v]
            IN  Silent(a, b)
         /\ LET b == [a EXCEPT !.inactivity_warning = v, !.last_error = v]
            IN  Silent(a, b)
<1> DEFINE b == [a EXCEPT !.auto_retry = v]
           c == [a EXCEPT !.last_error = v]
           d == [a EXCEPT !.inactivity_warning = v, !.last_error = v]
<1>1. b \in AppState
  BY DEF AppState
<1>2. c \in AppState
  BY DEF AppState
<1>3. d \in AppState
  BY DEF AppState
<1>4. Silent(a, b)
  BY <1>1 DEF AppState, SameLink, Silent
<1>5. Silent(a, c)
  BY <1>2 DEF AppState, SameLink, Silent
<1>6. Silent(a, d)
  BY <1>3 DEF AppState, SameLink, Silent
<1> QED BY <1>4, <1>5, <1>6

\* A failed turn is marked, failed and announced.
LEMMA TurnFailsSound ==
  ASSUME NEW a, Sound(a), a.client
  PROVE  Sound(TurnFails(a)) /\ Keeps(a, TurnFails(a))
<1> DEFINE b == SetTurn(a, "failed")
           c == MarkActiveTurnFailed(b)
           d == Fail(c)
<1>1. Sound(b) /\ Keeps(a, b)
  BY SetTurnSound DEF TurnState
<1>2. TurnFails(a) = d
  BY DEF TurnFails
<1> HIDE DEF b
<1>3. Silent(b, c)
  BY <1>1, MarkActiveTurnFailedSame DEF Sound
<1> HIDE DEF c
<1>4. Sound(c) /\ Keeps(b, c)
  BY <1>1, <1>3, SilentSound
<1>5. Sound(d) /\ Keeps(c, d)
  BY <1>4, FailSound
<1> QED BY <1>1, <1>2, <1>4, <1>5, KeepsTrans

\* AgentClient._on_event, the client half of an event.
LEMMA ClientEventSound ==
  ASSUME NEW a, Sound(a), a.client, NEW type
  PROVE  Sound(ClientEvent(a, type)) /\ Keeps(a, ClientEvent(a, type))
<1> DEFINE good(b) == Sound(b) /\ Keeps(a, b)
           f(v) == [a EXCEPT !.auto_retry = v]
<1>1. good(a)
  BY DEF Keeps
<1>2. ASSUME NEW v \in BOOLEAN PROVE good(f(v)) /\ f(v).client
  <2>1. Silent(a, f(v))
    BY FlagsSame DEF Sound
  <2> QED BY <2>1, SilentSound DEF SameLink, Silent
<1>3. good(SetTurn(a, "running")) /\ good(TurnFails(a))
  BY SetTurnSound, TurnFailsSound DEF TurnState
<1>4. ClientEvent(a, type) \in
         {a, f(TRUE), f(FALSE), SetTurn(a, "running"), TurnFails(a),
          TurnFails(f(FALSE)), SetTurn(f(FALSE), "idle")}
  BY Zenon DEF ClientEvent
<1> HIDE DEF f
<1>5. good(TurnFails(f(FALSE))) /\ good(SetTurn(f(FALSE), "idle"))
  <2>1. Sound(f(FALSE)) /\ Keeps(a, f(FALSE)) /\ f(FALSE).client
    BY <1>2
  <2>2. Sound(TurnFails(f(FALSE))) /\ Keeps(f(FALSE), TurnFails(f(FALSE)))
    BY <2>1, TurnFailsSound
  <2>3. Sound(SetTurn(f(FALSE), "idle")) /\ Keeps(f(FALSE), SetTurn(f(FALSE), "idle"))
    BY <2>1, SetTurnSound DEF TurnState
  <2> QED BY <2>1, <2>2, <2>3, KeepsTrans
<1>6. good(f(TRUE)) /\ good(f(FALSE))
  BY <1>2
<1> HIDE DEF good
<1>7. good(ClientEvent(a, type))
  BY <1>1, <1>3, <1>4, <1>5, <1>6
<1> QED BY <1>7 DEF good

\* Choosing the reply under way is silent.
LEMMA ActiveAssistantSame ==
  ASSUME NEW a \in AppState, NEW v \in Nat
  PROVE  LET b == [a EXCEPT !.active_assistant = v]
         IN  Silent(a, b)
<1> DEFINE b == [a EXCEPT !.active_assistant = v]
<1>1. b \in AppState
  BY DEF AppState
<1> QED BY <1>1 DEF AppState, SameLink, Silent

\* A text delta appends or extends the reply.
LEMMA AppendAssistantDeltaSound ==
  ASSUME NEW a, Sound(a)
  PROVE  Sound(AppendAssistantDelta(a)) /\ Keeps(a, AppendAssistantDelta(a))
<1> DEFINE b == AppendMessage(a, "assistant", "streaming")
           n == Len(a.messages) + 1
           c == [b EXCEPT !.active_assistant = n]
           d == MarkMessage(a, a.active_assistant, "streaming")
<1>1. a \in AppState /\ n \in Nat
  BY DEF Sound, AppState
<1>2. Silent(a, b)
  BY <1>1, AppendMessageSame DEF MessageState
<1>3. Silent(a, d)
  BY <1>1, MarkMessageSame DEF MessageState
<1>4. AppendAssistantDelta(a) \in {c, d}
  BY Zenon DEF AppendAssistantDelta
<1> HIDE DEF b, n
<1>5. Silent(b, c)
  BY <1>1, <1>2, ActiveAssistantSame DEF SameLink, Silent
<1> HIDE DEF c, d
<1>6. Silent(a, c)
  BY <1>2, <1>5, SilentTrans
<1> QED BY <1>3, <1>4, <1>6, SilentSound

\* The end of a message finalizes the reply.
LEMMA FinalizeAssistantSound ==
  ASSUME NEW a, Sound(a)
  PROVE  Sound(FinalizeAssistant(a)) /\ Keeps(a, FinalizeAssistant(a))
<1> DEFINE b == AppendMessage(a, "assistant", "complete")
           c == MarkMessage(a, a.active_assistant, "complete")
           d == [c EXCEPT !.active_assistant = 0]
<1>1. a \in AppState
  BY DEF Sound
<1>2. Silent(a, b)
  BY <1>1, AppendMessageSame DEF MessageState
<1>3. Silent(a, c)
  BY <1>1, MarkMessageSame DEF MessageState
<1>4. FinalizeAssistant(a) \in {b, d}
  BY Zenon DEF FinalizeAssistant
<1> HIDE DEF b, c
<1>5. Silent(c, d)
  BY <1>3, ActiveAssistantSame DEF SameLink, Silent
<1> HIDE DEF d
<1>6. Silent(a, d)
  BY <1>3, <1>5, SilentTrans
<1> QED BY <1>2, <1>4, <1>6, SilentSound

\* agent_settled closes the messages of the turn.
LEMMA SettleMessagesSound ==
  ASSUME NEW a, Sound(a)
  PROVE  Sound(SettleMessages(a)) /\ Keeps(a, SettleMessages(a))
<1> DEFINE b == MarkMessage(a, a.active_user, "complete")
           c == MarkMessage(b, a.active_assistant, "complete")
           d == [c EXCEPT !.active_user = 0, !.active_assistant = 0]
<1>1. a \in AppState
  BY DEF Sound
<1>2. Silent(a, b)
  BY <1>1, MarkMessageSame DEF MessageState
<1>3. SettleMessages(a) \in {a, d}
  BY Zenon DEF SettleMessages
<1> HIDE DEF b
<1>4. Silent(b, c)
  BY <1>2, MarkMessageSame DEF MessageState, SameLink, Silent
<1> HIDE DEF c
<1>5. Silent(c, d)
  <2>1. c \in AppState
    BY <1>4 DEF SameLink, Silent
  <2> QED BY <2>1, ActiveSame
<1> HIDE DEF d
<1>6. Silent(a, d)
  BY <1>2, <1>4, <1>5, SilentTrans
<1>7. Sound(d) /\ Keeps(a, d)
  BY <1>6, SilentSound
<1>8. Keeps(a, a)
  BY DEF Keeps
<1> QED BY <1>3, <1>7, <1>8

\* AgentController._on_event, the controller half of an event.
LEMMA ControllerEventSound ==
  ASSUME NEW a, Sound(a), NEW type
  PROVE  Sound(ControllerEvent(a, type)) /\ Keeps(a, ControllerEvent(a, type))
<1> DEFINE b == ClearInactivityWarning(a)
           c == [b EXCEPT !.last_error = TRUE]
<1>1. Silent(a, b)
  BY ClearInactivityWarningSame DEF Sound
<1>2. ControllerEvent(a, type) \in
         {AppendAssistantDelta(b), FinalizeAssistant(b), SettleMessages(b),
          StateChanged(c), StateChanged(b), b}
  BY Zenon DEF ControllerEvent
<1> HIDE DEF b
<1>3. Sound(b) /\ Keeps(a, b)
  BY <1>1, SilentSound
<1>4. Silent(b, c)
  BY <1>3, FlagsSame DEF Sound
<1> HIDE DEF c
<1>5. Sound(c) /\ Keeps(b, c)
  BY <1>3, <1>4, SilentSound
<1>6. /\ Sound(StateChanged(b)) /\ Keeps(b, StateChanged(b))
      /\ Sound(StateChanged(c)) /\ Keeps(c, StateChanged(c))
  BY <1>3, <1>5, AnnounceSound
<1>7. /\ Sound(AppendAssistantDelta(b)) /\ Keeps(b, AppendAssistantDelta(b))
      /\ Sound(FinalizeAssistant(b)) /\ Keeps(b, FinalizeAssistant(b))
      /\ Sound(SettleMessages(b)) /\ Keeps(b, SettleMessages(b))
  BY <1>3, AppendAssistantDeltaSound, FinalizeAssistantSound, SettleMessagesSound
<1> QED BY <1>2, <1>3, <1>5, <1>6, <1>7, KeepsTrans

\* An event passes through the client and then the controller.
LEMMA OnEventSound ==
  ASSUME NEW a, Sound(a), a.process # "not-running", NEW type
  PROVE  Sound(OnEvent(a, type)) /\ Keeps(a, OnEvent(a, type))
<1> DEFINE b == ClientEvent(a, type)
           c == NoteActivity(b)
           d == ControllerEvent(c, type)
<1>1. a.client
  BY DEF Sound, Detached
<1>2. Sound(b) /\ Keeps(a, b)
  BY <1>1, ClientEventSound
<1>3. OnEvent(a, type) = d
  BY DEF OnEvent
<1> HIDE DEF b
<1>4. Sound(c) /\ Keeps(b, c)
  BY <1>2, NotedSound DEF Keeps
<1> HIDE DEF c
<1>5. Sound(d) /\ Keeps(c, d)
  BY <1>4, ControllerEventSound
<1> QED BY <1>2, <1>3, <1>4, <1>5, KeepsTrans

-----------------------------------------------------------------------------
\* Deadlines and timers

\* What the expiry of a turn command's deadline sets.
LEMMA UnknownOutcomeSame ==
  ASSUME NEW a \in AppState
  PROVE  LET b == [a EXCEPT !.requires_reconciliation = TRUE,
                            !.inactivity_warning = FALSE,
                            !.last_error = TRUE]
         IN  Silent(a, b)
<1> DEFINE b == [a EXCEPT !.requires_reconciliation = TRUE,
                          !.inactivity_warning = FALSE,
                          !.last_error = TRUE]
<1>1. b \in AppState
  BY DEF AppState
<1> QED BY <1>1 DEF AppState, SameLink, Silent

\* Choosing the user message under way is silent.
LEMMA ActiveUserSame ==
  ASSUME NEW a \in AppState, NEW u \in Nat
  PROVE  LET b == [a EXCEPT !.active_user = u]
         IN  Silent(a, b)
<1> DEFINE b == [a EXCEPT !.active_user = u]
<1>1. b \in AppState
  BY DEF AppState
<1> QED BY <1>1 DEF AppState, SameLink, Silent

\* A passed deadline drops its request, whatever the command.
LEMMA OnRequestTimeoutSound ==
  ASSUME NEW a, Sound(a), NEW id
  PROVE  Sound(OnRequestTimeout(a, id)) /\ Keeps(a, OnRequestTimeout(a, id))
<1> DEFINE i == a.log[id].message
           b == [a EXCEPT !.deadlines = @ \ {id}, !.pending = @ \ {id}]
           c == SetTurn(b, "failed")
           p == [c EXCEPT !.prompt_requests = @ \ {id}]
           d == [p EXCEPT !.requires_reconciliation = TRUE,
                          !.inactivity_warning = FALSE,
                          !.last_error = TRUE]
           m == MarkMessage(d, i, "uncertain")
           u == IF m.active_user = i THEN 0 ELSE m.active_user
           e == [m EXCEPT !.active_user = u]
<1>1. Sound(b) /\ Keeps(a, b) /\ SameProcess(a, b)
  <2> DEFINE b1 == [a EXCEPT !.pending = @ \ {id}, !.deadlines = @ \ {id}]
  <2>1. b = b1
    BY DEF Sound, AppState
  <2>2. Sound(b1) /\ Keeps(a, b1) /\ SameProcess(a, b1)
    BY AnsweredSound
  <2> HIDE DEF b, b1
  <2> QED BY <2>1, <2>2
<1>2. /\ OnRequestTimeout(a, id) \in {b, Fail(b), StateChanged(e), StateChanged(d)}
      /\ id \notin a.pending => OnRequestTimeout(a, id) = b
  BY Zenon DEF OnRequestTimeout
<1> HIDE DEF b, i
<1>3. CASE id \notin a.pending
  BY <1>1, <1>2, <1>3
<1>4. CASE id \in a.pending
  <2>1. b.client
    BY <1>1, <1>4 DEF Sound, Detached, SameProcess
  <2>2. Sound(c) /\ Keeps(b, c)
    BY <1>1, <2>1, SetTurnSound DEF TurnState
  <2> HIDE DEF c
  <2>3. Silent(c, p)
    BY <2>2, PromptDroppedSame DEF Sound
  <2> HIDE DEF p
  <2>4. Sound(p) /\ Keeps(c, p)
    BY <2>2, <2>3, SilentSound
  <2>5. Silent(p, d)
    BY <2>4, UnknownOutcomeSame DEF Sound
  <2> HIDE DEF d
  <2>6. Sound(d) /\ Keeps(p, d)
    BY <2>4, <2>5, SilentSound
  <2>7. Silent(d, m)
    BY <2>6, MarkMessageSame DEF Sound, MessageState
  <2> HIDE DEF m
  <2>8. Sound(m) /\ Keeps(d, m)
    BY <2>6, <2>7, SilentSound
  <2>9. m \in AppState /\ u \in Nat
    BY <2>8 DEF Sound, AppState
  <2> HIDE DEF u
  <2>10. Silent(m, e)
    BY <2>9, ActiveUserSame
  <2> HIDE DEF e
  <2>11. Sound(e) /\ Keeps(m, e)
    BY <2>8, <2>10, SilentSound
  <2>12. /\ Sound(Fail(b)) /\ Keeps(b, Fail(b))
         /\ Sound(StateChanged(d)) /\ Keeps(d, StateChanged(d))
         /\ Sound(StateChanged(e)) /\ Keeps(e, StateChanged(e))
    BY <1>1, <2>6, <2>11, FailSound, AnnounceSound
  <2>13. Keeps(a, d) /\ Keeps(a, e)
    BY <1>1, <2>2, <2>4, <2>6, <2>8, <2>11, KeepsTrans
  <2> QED BY <1>1, <1>2, <2>12, <2>13, KeepsTrans
<1> QED BY <1>3, <1>4

\* The inactivity timer warns and does not touch the link.
LEMMA OnInactivityTimeoutSound ==
  ASSUME NEW a, Sound(a)
  PROVE  Sound(OnInactivityTimeout(a)) /\ Keeps(a, OnInactivityTimeout(a))
<1> DEFINE b == [a EXCEPT !.watch = FALSE]
           c == [b EXCEPT !.inactivity_warning = TRUE, !.last_error = TRUE]
<1>0. a \in AppState
  BY DEF Sound
<1>1. b \in AppState
  BY <1>0 DEF AppState
<1>2. /\ SameProcess(a, b) /\ ~b.watch
      /\ b.pending = a.pending /\ b.deadlines = a.deadlines
      /\ b.connection = a.connection /\ b.quit = a.quit /\ b.watchdog = a.watchdog
  BY <1>0, <1>1 DEF AppState, SameProcess
<1>3. OnInactivityTimeout(a) \in {b, StateChanged(c)}
  BY DEF OnInactivityTimeout
<1> HIDE DEF b
<1>4. Sound(b)
  BY <1>2 DEF Sound, Detached, Paired, Waiting, SameProcess
<1>5. Keeps(a, b)
  BY <1>2 DEF Keeps, SameProcess
<1>6. Silent(b, c)
  BY <1>1, FlagsSame
<1> HIDE DEF c
<1>7. Sound(c) /\ Keeps(b, c)
  BY <1>4, <1>6, SilentSound
<1>8. Sound(StateChanged(c)) /\ Keeps(c, StateChanged(c))
  BY <1>7, AnnounceSound
<1> QED BY <1>3, <1>4, <1>5, <1>7, <1>8, KeepsTrans

\* The start-up timer fails the transport.
LEMMA OnStartupTimeoutSound ==
  ASSUME NEW a, Sound(a)
  PROVE  Sound(OnStartupTimeout(a)) /\ Keeps(a, OnStartupTimeout(a))
<1> DEFINE b == [a EXCEPT !.startup_timer = FALSE]
           c == TransportFail(b, TRUE)
<1>1. Silent(a, b)
  BY StartupTimerSame DEF Sound
<1>2. /\ OnStartupTimeout(a) \in {b, c}
      /\ b.transport # "starting" => OnStartupTimeout(a) = b
  BY DEF OnStartupTimeout
<1> HIDE DEF b
<1>3. Sound(b) /\ Keeps(a, b)
  BY <1>1, SilentSound
<1>4. CASE b.transport = "starting"
  <2>1. b.client
    BY <1>3, <1>4 DEF Sound, Detached
  <2>2. Sound(c) /\ Keeps(b, c)
    BY <1>3, <2>1, TransportFailSound
  <2> HIDE DEF c
  <2> QED BY <1>2, <1>3, <2>2, KeepsTrans
<1>5. CASE b.transport # "starting"
  BY <1>2, <1>3, <1>5
<1> QED BY <1>4, <1>5

\* The shutdown timer kills the process.
LEMMA OnShutdownTimeoutSound ==
  ASSUME NEW a, Sound(a)
  PROVE  Sound(OnShutdownTimeout(a)) /\ Keeps(a, OnShutdownTimeout(a))
<1> DEFINE b == [a EXCEPT !.shutdown_timer = FALSE]
           c == [b EXCEPT !.signal = "kill", !.open = FALSE]
<1>1. Silent(a, b)
  BY ShutdownTimerSame DEF Sound
<1>2. OnShutdownTimeout(a) \in {b, c}
  BY DEF OnShutdownTimeout
<1> HIDE DEF b
<1>3. Sound(b) /\ Keeps(a, b)
  BY <1>1, SilentSound
<1>4. Signalled(b, c)
  BY <1>3, KillSignals DEF Sound
<1> HIDE DEF c
<1>5. Sound(c) /\ Keeps(b, c)
  BY <1>3, <1>4, SignalledSound
<1> QED BY <1>2, <1>3, <1>5, KeepsTrans

-----------------------------------------------------------------------------
\* Signals of the owned QProcess.  A process is only ever started or gone here;
\* the rest is kept as by a callback.

KeepsButProcess(a, b) ==
    /\ b.client => a.client
    /\ b.workspace = a.workspace
    /\ b.saved = a.saved
    /\ b.requested \in {a.requested, NoSession}
    /\ b.quit = "done" \/ (b.quit = a.quit /\ b.watchdog = a.watchdog)

\* Keeping the process is a way of letting it start or end.
LEMMA KeepsIsButProcess ==
  ASSUME NEW a, NEW b, NEW c, KeepsButProcess(a, b), Keeps(b, c)
  PROVE  KeepsButProcess(a, c) /\ c.process = b.process
BY DEF Keeps, KeepsButProcess

\* QProcess.started opens the transport and asks for the session.
LEMMA OnStartedSound ==
  ASSUME NEW a, Sound(a), a.client, NEW written
  PROVE  LET b == OnStarted(a, written)
         IN  Sound(b) /\ KeepsButProcess(a, b) /\ b.process = "running"
<1> DEFINE b0 == [a EXCEPT !.process = "running", !.startup_timer = FALSE,
                           !.transport = "ready"]
           b == [b0 EXCEPT !.connection = "loading-session", !.session_ready = FALSE]
           c == SendOrStop(b, "get_state", written)
           d == StateChanged(c)
<1>0. a \in AppState
  BY DEF Sound
<1>1. b0 \in AppState
  BY <1>0 DEF AppState, TransportState
<1>2. /\ b0.client = a.client /\ b0.process = "running"
      /\ b0.transport = "ready"
      /\ b0.pending = a.pending /\ b0.deadlines = a.deadlines
      /\ b0.watch = a.watch /\ b0.turn = a.turn
      /\ b0.workspace = a.workspace /\ b0.saved = a.saved
      /\ b0.requested = a.requested /\ b0.quit = a.quit /\ b0.watchdog = a.watchdog
  BY <1>0 DEF AppState
<1>3. OnStarted(a, written) = d
  BY DEF OnStarted
<1> HIDE DEF b0
<1>4. b \in AppState
  BY <1>1 DEF AppState, ConnectionState
<1>5. LinkOnly(b0, b) /\ b.saved = b0.saved /\ b.requested = b0.requested
      /\ b.connection = "loading-session"
  BY <1>1, <1>4 DEF AppState, LinkOnly
<1> HIDE DEF b
<1>6. Coherent(b)
  BY <1>2, <1>5 DEF Sound, Coherent, Paired, LinkOnly
<1>7. KeepsButProcess(a, b) /\ b.process = "running" /\ b.client
  BY <1>2, <1>5 DEF KeepsButProcess, LinkOnly
<1>8. Sound(d) /\ Keeps(b, d)
  <2>1. CASE CanWrite(b, written)
    <3> DEFINE e == Send(b, "get_state", 0)
    <3>1. b.transport = "ready"
      BY <2>1 DEF CanWrite
    <3>2. /\ Coherent(e) /\ Keeps(b, e) /\ e.client /\ e.transport = "ready"
          /\ e.connection = "loading-session"
      BY <1>5, <1>6, <3>1, SendCoherent DEF HydrationCommand
    <3>3. d = StateChanged(e)
      BY <2>1 DEF SendOrStop
    <3> HIDE DEF e
    <3>4. Sound(StateChanged(e)) /\ SameLink(e, StateChanged(e))
      <4>1. e \in AppState /\ Paired(e) /\ e.connection # "stopping"
        BY <3>2 DEF Coherent
      <4> QED BY <3>2, <4>1, StateChangedSound
    <3>5. Keeps(e, StateChanged(e))
      BY <3>4 DEF SameLink, Silent, Keeps
    <3> QED BY <3>2, <3>3, <3>4, <3>5, KeepsTrans
  <2>2. CASE ~CanWrite(b, written)
    <3> DEFINE e == FailAndStop(b)
    <3>1. Sound(e) /\ Keeps(b, e)
      BY <1>6, FailAndStopCoherent
    <3>2. d = StateChanged(e)
      BY <2>2 DEF SendOrStop
    <3> HIDE DEF e
    <3>3. Sound(StateChanged(e)) /\ Keeps(e, StateChanged(e))
      BY <3>1, AnnounceSound
    <3> QED BY <3>1, <3>2, <3>3, KeepsTrans
  <2> QED BY <2>1, <2>2
<1> QED BY <1>3, <1>7, <1>8, KeepsIsButProcess

\* QProcess.errorOccurred, whether or not the process is there.
LEMMA OnProcessErrorSound ==
  ASSUME NEW a, Sound(a), a.client
  PROVE  LET b == OnProcessError(a)
         IN  Sound(b) /\ Keeps(a, b) /\ b.client
<1>1. OnProcessError(a) \in {a, TransportFail(a, FALSE)}
  BY DEF OnProcessError
<1>2. /\ Sound(TransportFail(a, FALSE)) /\ Keeps(a, TransportFail(a, FALSE))
      /\ TransportFail(a, FALSE).client
  BY TransportFailSound
<1>3. Keeps(a, a)
  BY DEF Keeps
<1> QED BY <1>1, <1>2, <1>3

\* A process that has gone, before the code has been told.
LEMMA ProcessGoneSound ==
  ASSUME NEW a, Sound(a), a.client
  PROVE  LET b == ProcessGone(a)
         IN  /\ Sound(b) /\ KeepsButProcess(a, b) /\ b.client
             /\ b.process = "not-running"
<1> DEFINE b == ProcessGone(a)
<1>0. a \in AppState
  BY DEF Sound
<1>1. b \in AppState
  BY <1>0 DEF ProcessGone, AppState
<1>2. /\ b.client = a.client /\ b.process = "not-running"
      /\ b.transport = a.transport
      /\ b.pending = a.pending /\ b.deadlines = a.deadlines
      /\ b.watch = a.watch /\ b.turn = a.turn
      /\ b.workspace = a.workspace /\ b.saved = a.saved /\ b.requested = a.requested
      /\ b.connection = a.connection /\ b.quit = a.quit /\ b.watchdog = a.watchdog
  BY <1>0 DEF ProcessGone, AppState
<1> HIDE DEF b
<1>3. Sound(b)
  BY <1>1, <1>2 DEF Sound, Paired, Waiting
<1>4. KeepsButProcess(a, b)
  BY <1>2 DEF KeepsButProcess
<1> QED BY <1>2, <1>3, <1>4 DEF b

\* QProcess.finished, clean or not, leaves the transport stopped.
LEMMA OnFinishedSound ==
  ASSUME NEW a, Sound(a), a.client, a.process = "not-running",
         NEW clean \in BOOLEAN, NEW partial \in BOOLEAN
  PROVE  LET b == OnFinished(a, clean, partial)
         IN  Sound(b) /\ Keeps(a, b)
<1> DEFINE b == [a EXCEPT !.startup_timer = FALSE, !.shutdown_timer = FALSE]
           c == TransportFail(b, FALSE)
<1>1. Silent(a, b)
  BY TimersSame DEF Sound
<1>2. OnFinished(a, clean, partial) \in {b, SetStopped(b), c}
  BY Zenon DEF OnFinished
<1> HIDE DEF b
<1>3. Sound(b) /\ Keeps(a, b) /\ b.client /\ b.process = "not-running"
  BY <1>1, SilentSound DEF SameLink, Silent
<1>4. Sound(SetStopped(b)) /\ Keeps(b, SetStopped(b))
  BY <1>3, SetStoppedSound
<1>5. Sound(c) /\ Keeps(b, c)
  BY <1>3, TransportFailSound
<1> HIDE DEF c
<1> QED BY <1>2, <1>3, <1>4, <1>5, KeepsTrans

-----------------------------------------------------------------------------
\* Operations of the user and of main.py

\* disconnect_agent ends in a state of the connection that repairs Waiting or
\* keeps it.
LEMMA DisconnectAgentCoherent ==
  ASSUME NEW a, Coherent(a), a.client
  PROVE  LET b == DisconnectAgent(a)
         IN  /\ Sound(b) /\ Keeps(a, b)
             /\ b.process # "not-running" => b.signal # "none"
<1> DEFINE b == [a EXCEPT !.disconnect_requested = TRUE, !.connection = "stopping"]
           c == StateChanged(b)
           d == ClientShutdown(c)
<1>0. a \in AppState
  BY DEF Coherent
<1>1. b \in AppState
  BY <1>0 DEF AppState, ConnectionState
<1>2. /\ LinkOnly(a, b) /\ b.saved = a.saved /\ b.requested = a.requested
      /\ b.client
  BY <1>0, <1>1 DEF AppState, LinkOnly
<1>3. DisconnectAgent(a) = d
  BY DEF DisconnectAgent
<1> HIDE DEF b
<1>4. Sound(c) /\ SameLink(b, c)
  <2>1. b.transport # "stopped" /\ Paired(b)
    BY <1>2 DEF Coherent, Paired, LinkOnly
  <2> QED BY <1>1, <1>2, <2>1, StateChangedSound
<1>5. Keeps(a, c)
  BY <1>2, <1>4 DEF LinkOnly, SameLink, Keeps
<1> HIDE DEF c
<1>6. /\ Sound(d) /\ Keeps(c, d)
      /\ d.process # "not-running" => d.signal # "none"
  BY <1>4, ClientShutdownSound
<1> QED BY <1>3, <1>5, <1>6, KeepsTrans

\* disconnect_agent preserves the invariant.
LEMMA DisconnectAgentSound ==
  ASSUME NEW a, Sound(a)
  PROVE  LET b == DisconnectAgent(a)
         IN  /\ Sound(b) /\ Keeps(a, b)
             /\ b.process # "not-running" => b.signal # "none"
<1>1. CASE a.client
  BY <1>1, SoundIsCoherent, DisconnectAgentCoherent
<1>2. CASE ~a.client
  <2>1. DisconnectAgent(a) = a
    BY <1>2 DEF DisconnectAgent
  <2>2. a.process = "not-running" /\ Keeps(a, a)
    BY <1>2 DEF Sound, Detached, Keeps
  <2> QED BY <2>1, <2>2
<1> QED BY <1>1, <1>2

\* What an attempt to connect leaves as it was.
Unconnected(a, b) ==
    /\ b \in AppState
    /\ b.process = a.process /\ b.signal = a.signal /\ b.transport = a.transport
    /\ b.pending = a.pending /\ b.deadlines = a.deadlines
    /\ b.prompt_requests = a.prompt_requests
    /\ b.watch = a.watch /\ b.watchdog = a.watchdog
    /\ b.workspace = a.workspace /\ b.saved = a.saved

\* The first half of connect_agent requests the saved session and touches
\* nothing else of the link.
LEMMA BeginConnectFrame ==
  ASSUME NEW a, Sound(a), ~a.client, a.quit = "idle"
  PROVE  LET b == BeginConnect(a)
         IN  /\ Unconnected(a, b)
             /\ b.client = a.client /\ b.turn = a.turn /\ b.requested = a.saved
             /\ b.quit = "idle"
<1> DEFINE c(d) == [d EXCEPT
                      !.last_error = FALSE, !.inactivity_warning = FALSE,
                      !.requires_reconciliation = FALSE,
                      !.disconnect_requested = FALSE]
           e(d, s) == [d EXCEPT !.session_ready = FALSE, !.requested = s,
                           !.recovery_attempted = FALSE, !.connection = "starting"]
           f == e(c(a), a.saved)
<1>0. a \in AppState
  BY DEF Sound
<1>1. ASSUME NEW d \in AppState
      PROVE  /\ Unconnected(d, c(d))
             /\ c(d).client = d.client /\ c(d).turn = d.turn /\ c(d).quit = d.quit
  <2>1. c(d) \in AppState
    BY DEF AppState
  <2> QED BY <2>1 DEF AppState, Unconnected
<1>2. ASSUME NEW d \in AppState, NEW s \in SessionId \cup {NoSession}
      PROVE  /\ Unconnected(d, e(d, s)) /\ e(d, s).requested = s
             /\ e(d, s).client = d.client /\ e(d, s).turn = d.turn
             /\ e(d, s).quit = d.quit
  <2>1. e(d, s) \in AppState
    BY DEF AppState, ConnectionState
  <2> QED BY <2>1 DEF AppState, Unconnected
<1>3. BeginConnect(a) = StateChanged(f)
  BY Zenon DEF BeginConnect
<1>4. /\ Unconnected(a, f) /\ f.requested = a.saved
      /\ f.client = a.client /\ f.turn = a.turn /\ f.quit = "idle"
  <2>1. a.saved \in SessionId \cup {NoSession}
    BY <1>0 DEF AppState
  <2> HIDE DEF c, e
  <2> QED BY <1>0, <1>1, <1>2, <2>1 DEF Unconnected
<1> HIDE DEF f
<1>5. StateChanged(f) = f
  BY <1>4 DEF StateChanged
<1> QED BY <1>3, <1>4, <1>5

\* connect_agent failing before it has a process leaves no client.
LEMMA ConnectFailsSound ==
  ASSUME NEW a, Sound(a), ~a.client, a.quit = "idle", NEW turn \in TurnState
  PROVE  LET b == ConnectFails(a, turn)
         IN  Sound(b) /\ Keeps(a, b)
<1> DEFINE b == BeginConnect(a)
           c == [b EXCEPT !.turn = turn, !.client = FALSE, !.requested = NoSession]
           d == [c EXCEPT !.inactivity_warning = FALSE,
                          !.last_error = TRUE,
                          !.connection = "failed",
                          !.session_ready = FALSE]
<1>1. Unconnected(a, b) /\ b.quit = "idle"
  BY BeginConnectFrame
<1>2. ConnectFails(a, turn) = StateChanged(d)
  BY DEF ConnectFails, Fail
<1> HIDE DEF b
<1>3. b \in AppState
  BY <1>1 DEF Unconnected
<1>4. c \in AppState
  BY <1>3 DEF AppState
<1>5. /\ Unconnected(b, c) /\ ~c.client /\ c.requested = NoSession
      /\ c.quit = b.quit
  BY <1>3, <1>4 DEF AppState, Unconnected
<1> HIDE DEF c
<1>6. d \in AppState
  BY <1>4 DEF AppState, ConnectionState
<1>7. /\ Unconnected(c, d) /\ ~d.client /\ d.requested = NoSession
      /\ d.quit = c.quit /\ d.connection = "failed"
  BY <1>4, <1>5, <1>6 DEF AppState, Unconnected
<1> HIDE DEF d
<1>8. StateChanged(d) = d
  BY <1>1, <1>5, <1>7 DEF StateChanged
<1>9. Unconnected(a, d) /\ d.quit = "idle"
  BY <1>1, <1>5, <1>7 DEF Unconnected
<1>10. Sound(d)
  <2>1. Detached(d)
    BY <1>7, <1>9 DEF Unconnected, Sound, Detached
  <2>2. Paired(d)
    BY <1>9, <2>1 DEF Unconnected, Sound, Detached, Paired
  <2> QED BY <1>6, <1>7, <1>9, <2>1, <2>2 DEF Sound, Waiting
<1>11. Keeps(a, d)
  <2>1. d.quit = a.quit
    BY <1>9
  <2> QED BY <1>7, <1>9, <2>1 DEF Keeps, Unconnected
<1> QED BY <1>2, <1>8, <1>10, <1>11

\* A new connection begins with nothing of the last one.
LEMMA ConnectAgentSound ==
  ASSUME NEW a, Sound(a), ~a.client, a.quit = "idle"
  PROVE  LET b == ConnectAgent(a)
         IN  /\ Sound(b)
             /\ b.workspace = a.workspace /\ b.saved = a.saved
             /\ b.requested = a.saved /\ b.quit = "idle"
<1> DEFINE b == BeginConnect(a)
           c(d) == [d EXCEPT
                      !.client = TRUE, !.turn = "idle",
                      !.pending = {}, !.deadlines = {}]
           e(d) == [d EXCEPT !.watch = FALSE, !.auto_retry = FALSE,
                      !.transport = "starting", !.startup_timer = TRUE]
           f(d) == [d EXCEPT !.shutdown_timer = FALSE,
                      !.process = "starting", !.signal = "none", !.open = TRUE]
           g(d) == [d EXCEPT !.log = <<>>, !.inbox = {}]
           h(d) == [d EXCEPT !.connection = "starting"]
           Stays(d, x) ==
               /\ x \in AppState
               /\ x.workspace = d.workspace /\ x.saved = d.saved
               /\ x.requested = d.requested /\ x.quit = d.quit
           new == h(g(f(e(c(b)))))
<1>1. Unconnected(a, b) /\ b.requested = a.saved /\ b.quit = "idle"
  BY BeginConnectFrame
<1>2. ConnectAgent(a) = StateChanged(new)
  BY Zenon DEF ConnectAgent, OnTransportStarting
<1> HIDE DEF b
<1>3. ASSUME NEW d \in AppState
      PROVE  /\ Stays(d, c(d)) /\ c(d).client /\ c(d).turn = "idle"
             /\ c(d).pending = {} /\ c(d).deadlines = {}
  <2>1. c(d) \in AppState
    BY DEF AppState, TurnState
  <2> QED BY <2>1 DEF AppState
<1>4. ASSUME NEW d \in AppState
      PROVE  /\ Stays(d, e(d)) /\ ~e(d).watch /\ e(d).transport = "starting"
             /\ e(d).client = d.client /\ e(d).turn = d.turn
             /\ e(d).pending = d.pending /\ e(d).deadlines = d.deadlines
  <2>1. e(d) \in AppState
    BY DEF AppState, TransportState
  <2> QED BY <2>1 DEF AppState
<1> DEFINE Linked(d, x) ==
             /\ Stays(d, x)
             /\ x.client = d.client /\ x.turn = d.turn /\ x.watch = d.watch
             /\ x.transport = d.transport
             /\ x.pending = d.pending /\ x.deadlines = d.deadlines
<1>5. ASSUME NEW d \in AppState PROVE Linked(d, f(d))
  <2>1. f(d) \in AppState
    BY DEF AppState
  <2>2. /\ f(d).workspace = d.workspace /\ f(d).saved = d.saved
        /\ f(d).requested = d.requested /\ f(d).quit = d.quit
        /\ f(d).client = d.client /\ f(d).turn = d.turn /\ f(d).watch = d.watch
        /\ f(d).transport = d.transport
        /\ f(d).pending = d.pending /\ f(d).deadlines = d.deadlines
    BY DEF AppState
  <2> HIDE DEF f
  <2> QED BY <2>1, <2>2
<1>6. ASSUME NEW d \in AppState PROVE Linked(d, g(d))
  <2>1. g(d) \in AppState
    <3> DEFINE logged(l) == [d EXCEPT !.log = l, !.inbox = {}]
    <3>1. ASSUME NEW l \in Seq(Request) PROVE logged(l) \in AppState
      BY DEF AppState
    <3>2. g(d) = logged(<<>>)
      OBVIOUS
    <3>3. <<>> \in Seq(Request)
      OBVIOUS
    <3> HIDE DEF logged, g
    <3> QED BY <3>1, <3>2, <3>3
  <2> QED BY <2>1 DEF AppState
<1>7. ASSUME NEW d \in AppState PROVE Linked(d, h(d)) /\ h(d).connection = "starting"
  <2>1. h(d) \in AppState
    BY DEF AppState, ConnectionState
  <2> QED BY <2>1 DEF AppState
<1> HIDE DEF c, e, f, g, h
<1>8. /\ Stays(b, new) /\ new.client /\ new.transport = "starting"
      /\ new.pending = {} /\ new.deadlines = {} /\ ~new.watch
      /\ new.connection = "starting"
  <2>1. b \in AppState
    BY <1>1 DEF Unconnected
  <2>2. /\ Stays(b, c(b)) /\ c(b).client
        /\ c(b).pending = {} /\ c(b).deadlines = {}
    BY <1>3, <2>1
  <2>3. /\ Stays(b, e(c(b))) /\ e(c(b)).client
        /\ e(c(b)).pending = {} /\ e(c(b)).deadlines = {}
        /\ ~e(c(b)).watch /\ e(c(b)).transport = "starting"
    BY <1>4, <2>2
  <2>4. Linked(e(c(b)), f(e(c(b))))
    BY <1>5, <2>3
  <2>5. Linked(f(e(c(b))), g(f(e(c(b)))))
    BY <1>6, <2>4
  <2>6. Linked(g(f(e(c(b)))), new) /\ new.connection = "starting"
    BY <1>7, <2>5
  <2> QED BY <2>3, <2>4, <2>5, <2>6
<1> HIDE DEF new
<1>9. new.quit = "idle" /\ StateChanged(new) = new
  BY <1>1, <1>8 DEF StateChanged
<1>10. Sound(new)
  BY <1>8, <1>9 DEF Sound, Paired, Waiting
<1> QED BY <1>1, <1>2, <1>8, <1>9, <1>10 DEF Unconnected

\* send_message, written or refused.
LEMMA SendMessageSound ==
  ASSUME NEW a, Sound(a), a.client, NEW written
  PROVE  Sound(SendMessage(a, written)) /\ Keeps(a, SendMessage(a, written))
<1> DEFINE b == AppendMessage(a, "user", "sending")
           i == Len(b.messages)
           id == Len(a.log) + 1
           c == Send(b, "prompt", i)
           d == [c EXCEPT !.active_user = i, !.prompt_requests = @ \cup {id}]
           e == MarkMessage(b, i, "failed")
<1>1. Silent(a, b)
  BY AppendMessageSame DEF Sound, MessageState
<1>2. /\ CanWrite(b, written) => SendMessage(a, written) = StateChanged(d)
      /\ ~CanWrite(b, written) => SendMessage(a, written) = Fail(e)
  BY Zenon DEF SendMessage
<1> HIDE DEF b
<1>3. Sound(b) /\ Keeps(a, b) /\ b.client
  BY <1>1, SilentSound DEF Silent, SameLink
<1>4. i \in Nat /\ id \in Nat
  BY <1>3 DEF Sound, AppState
<1> HIDE DEF i, id
<1>5. CASE CanWrite(b, written)
  <2>1. Sound(c) /\ Keeps(b, c) /\ c.client
    BY <1>3, <1>4, <1>5, SendSound DEF CanWrite, TurnCommand
  <2> HIDE DEF c
  <2>2. c \in AppState /\ c.prompt_requests \cup {id} \in SUBSET Nat
    BY <1>4, <2>1 DEF Sound, AppState
  <2> DEFINE marked(p) == [c EXCEPT !.active_user = i, !.prompt_requests = p]
  <2>3. ASSUME NEW p \in SUBSET Nat PROVE marked(p) \in AppState
    BY <1>4, <2>2 DEF AppState
  <2>4. d = marked(c.prompt_requests \cup {id})
    BY <2>2 DEF AppState
  <2>5. d \in AppState
    <3> HIDE DEF marked, d
    <3> QED BY <2>2, <2>3, <2>4
  <2>6. /\ d.client = c.client /\ d.process = c.process /\ d.signal = c.signal
        /\ d.transport = c.transport /\ d.watch = c.watch /\ d.turn = c.turn
        /\ d.pending = c.pending /\ d.deadlines = c.deadlines
        /\ d.workspace = c.workspace /\ d.saved = c.saved
        /\ d.requested = c.requested /\ d.connection = c.connection
        /\ d.quit = c.quit /\ d.watchdog = c.watchdog
    BY <2>2 DEF AppState
  <2> HIDE DEF d
  <2>7. Sound(d) /\ Keeps(c, d)
    BY <2>1, <2>5, <2>6 DEF Sound, Paired, Waiting, Keeps
  <2>8. Sound(StateChanged(d)) /\ Keeps(d, StateChanged(d))
    BY <2>7, AnnounceSound
  <2> QED BY <1>2, <1>3, <1>5, <2>1, <2>7, <2>8, KeepsTrans
<1>6. CASE ~CanWrite(b, written)
  <2>1. Silent(b, e)
    BY <1>3, MarkMessageSame DEF Sound, MessageState
  <2> HIDE DEF e
  <2>2. Sound(e) /\ Keeps(b, e)
    BY <1>3, <2>1, SilentSound
  <2>3. Sound(Fail(e)) /\ Keeps(e, Fail(e))
    BY <2>2, FailSound
  <2> QED BY <1>2, <1>3, <1>6, <2>2, <2>3, KeepsTrans
<1> QED BY <1>5, <1>6

\* request_stop, written or refused.
LEMMA RequestStopSound ==
  ASSUME NEW a, Sound(a), a.client, NEW written
  PROVE  Sound(RequestStop(a, written)) /\ Keeps(a, RequestStop(a, written))
<1> DEFINE b == StateChanged(a)
           c == SetTurn(b, "cancelling")
           d == Send(c, "clear_queue", 0)
<1>1. Sound(b) /\ Keeps(a, b) /\ b.client
  BY AnnounceSound DEF SameLink
<1>2. /\ RequestStop(a, written) \in {c, d}
      /\ ~CanWrite(c, written) => RequestStop(a, written) = c
  BY DEF RequestStop
<1> HIDE DEF b
<1>3. Sound(c) /\ Keeps(b, c)
  BY <1>1, SetTurnSound DEF TurnState
<1> HIDE DEF c
<1>4. CASE CanWrite(c, written)
  <2>1. Sound(d) /\ Keeps(c, d)
    BY <1>3, <1>4, SendSound DEF CanWrite, TurnCommand
  <2> HIDE DEF d
  <2> QED BY <1>1, <1>2, <1>3, <2>1, KeepsTrans
<1>5. CASE ~CanWrite(c, written)
  BY <1>1, <1>2, <1>3, <1>5, KeepsTrans
<1> QED BY <1>4, <1>5

\* Only without a client can the workspace be changed or the profiles be read.
LEMMA SetWorkspaceSound ==
  ASSUME NEW a, Sound(a), ~a.client, NEW w \in Workspaces, NEW p \in BOOLEAN,
         a.quit = "idle"
  PROVE  LET b == SetWorkspace(a, w, p)
         IN  /\ Sound(b) /\ b.workspace = w /\ b.quit = "idle"
             /\ b.saved = (IF a.workspace = w THEN a.saved ELSE NoSession)
             /\ ~b.client
<1> DEFINE changed(s) == [a EXCEPT !.saved = s, !.workspace = w, !.profile = p,
                                   !.last_error = FALSE,
                                   !.connection = "disconnected"]
           s0 == IF a.workspace = w THEN a.saved ELSE NoSession
           b == changed(s0)
<1>0. a \in AppState /\ Detached(a)
  BY DEF Sound
<1>1. s0 \in SessionId \cup {NoSession}
  BY <1>0 DEF AppState
<1>2. ASSUME NEW s \in SessionId \cup {NoSession} PROVE changed(s) \in AppState
  BY <1>0 DEF AppState, ConnectionState
<1>3. SetWorkspace(a, w, p) = StateChanged(b)
  BY <1>0 DEF SetWorkspace, AppState
<1>4. /\ b.client = a.client /\ b.process = a.process /\ b.transport = a.transport
      /\ b.pending = a.pending /\ b.deadlines = a.deadlines
      /\ b.prompt_requests = a.prompt_requests /\ b.watch = a.watch
      /\ b.connection = "disconnected" /\ b.quit = "idle"
      /\ b.workspace = w /\ b.saved = s0
  BY <1>0 DEF AppState
<1> HIDE DEF changed
<1>5. b \in AppState
  BY <1>1, <1>2
<1> HIDE DEF b
<1>6. StateChanged(b) = b
  BY <1>4 DEF StateChanged
<1>7. Sound(b)
  BY <1>0, <1>4, <1>5 DEF Sound, Detached, Paired, Waiting
<1> QED BY <1>3, <1>4, <1>6, <1>7

\* refresh_profiles preserves the invariant.
LEMMA RefreshProfilesSound ==
  ASSUME NEW a, Sound(a), NEW p \in BOOLEAN
  PROVE  Sound(RefreshProfiles(a, p)) /\ Keeps(a, RefreshProfiles(a, p))
<1> DEFINE b == [a EXCEPT !.profile = p]
<1>1. a \in AppState
  BY DEF Sound
<1>2. b \in AppState
  BY <1>1 DEF AppState
<1>3. Silent(a, b)
  BY <1>1, <1>2 DEF AppState, Silent, SameLink
<1>4. RefreshProfiles(a, p) = StateChanged(b)
  BY DEF RefreshProfiles
<1> HIDE DEF b
<1>5. Sound(b) /\ Keeps(a, b)
  BY <1>3, SilentSound
<1>6. Sound(StateChanged(b)) /\ Keeps(b, StateChanged(b))
  BY <1>5, AnnounceSound
<1> QED BY <1>4, <1>5, <1>6, KeepsTrans

\* What the close coordinator's own fields leave alone.
CloseOnly(a, b) ==
    /\ b \in AppState
    /\ b.client = a.client /\ b.process = a.process /\ b.signal = a.signal
    /\ b.transport = a.transport
    /\ b.pending = a.pending /\ b.deadlines = a.deadlines
    /\ b.prompt_requests = a.prompt_requests
    /\ b.watch = a.watch /\ b.turn = a.turn
    /\ b.connection = a.connection
    /\ b.workspace = a.workspace /\ b.saved = a.saved /\ b.requested = a.requested

\* Setting a field of the close coordinator leaves every other field.
LEMMA CloseFieldsFrame ==
  ASSUME NEW a \in AppState, NEW q \in {"idle", "active", "done", "exited"},
         NEW w \in BOOLEAN
  PROVE  /\ LET b == [a EXCEPT !.quit = q]
            IN  CloseOnly(a, b) /\ b.quit = q /\ b.watchdog = a.watchdog
         /\ LET b == [a EXCEPT !.watchdog = w]
            IN  CloseOnly(a, b) /\ b.quit = a.quit /\ b.watchdog = w
         /\ LET b == [a EXCEPT !.forced = w]
            IN  CloseOnly(a, b) /\ b.quit = a.quit
<1> DEFINE b == [a EXCEPT !.quit = q]
           c == [a EXCEPT !.watchdog = w]
           d == [a EXCEPT !.forced = w]
<1>1. b \in AppState
  BY DEF AppState
<1>2. c \in AppState
  BY DEF AppState
<1>3. d \in AppState
  BY DEF AppState
<1>4. CloseOnly(a, b) /\ b.quit = q /\ b.watchdog = a.watchdog
  BY <1>1 DEF AppState, CloseOnly
<1>5. CloseOnly(a, c) /\ c.quit = a.quit /\ c.watchdog = w
  BY <1>2 DEF AppState, CloseOnly
<1>6. CloseOnly(a, d) /\ d.quit = a.quit
  BY <1>3 DEF AppState, CloseOnly
<1> QED BY <1>4, <1>5, <1>6

\* AppShutdownCoordinator._complete ends the wait and quits.
LEMMA CompleteFrame ==
  ASSUME NEW a \in AppState
  PROVE  CloseOnly(a, Complete(a)) /\ Complete(a).quit = "done"
<1> DEFINE b == Complete(a)
<1>1. b \in AppState
  BY DEF Complete, AppState
<1>2. CloseOnly(a, b) /\ b.quit = "done"
  BY <1>1 DEF Complete, AppState, CloseOnly
<1> QED BY <1>2

\* A step of the coordinator preserves the invariant unless it goes on waiting.
LEMMA CloseOnlySound ==
  ASSUME NEW a, Coherent(a), NEW b, CloseOnly(a, b)
  PROVE  Coherent(b) /\ (b.quit # "active" => Sound(b))
BY DEF Coherent, Sound, Detached, Paired, Waiting, CloseOnly

\* What a close request keeps: all but the fields of the coordinator.
KeepsLink(a, b) ==
    /\ b.client => a.client
    /\ b.workspace = a.workspace
    /\ b.saved = a.saved
    /\ b.requested \in {a.requested, NoSession}
    /\ b.process = a.process
    /\ b.signal = a.signal \/ b.signal # "none"

\* The watchdog ends the wait whatever the connection.
LEMMA ForceFinishSound ==
  ASSUME NEW a, Sound(a)
  PROVE  LET b == ForceFinish(a)
         IN  Sound(b) /\ KeepsLink(a, b) /\ b.quit = "done"
<1> DEFINE b == [a EXCEPT !.forced = TRUE]
           c == Complete(b)
<1>1. CloseOnly(a, b) /\ b.quit = a.quit
  BY CloseFieldsFrame DEF Sound
<1>2. ForceFinish(a) = c
  BY DEF ForceFinish
<1> HIDE DEF b
<1>3. Coherent(b)
  BY <1>1, SoundIsCoherent, CloseOnlySound
<1>4. CloseOnly(b, c) /\ c.quit = "done"
  BY <1>1, CompleteFrame DEF CloseOnly
<1> HIDE DEF c
<1>5. Sound(c)
  BY <1>3, <1>4, CloseOnlySound
<1>6. KeepsLink(a, c)
  BY <1>1, <1>4 DEF CloseOnly, KeepsLink
<1> QED BY <1>2, <1>4, <1>5, <1>6

\* The close request: it completes at once, or waits with its watchdog armed
\* for a connection that is stopping.
LEMMA RequestShutdownSound ==
  ASSUME NEW a, Sound(a), a.quit = "idle"
  PROVE  LET b == RequestShutdown(a)
         IN  /\ Sound(b) /\ KeepsLink(a, b)
             /\ b.quit \in {"active", "done"}
             /\ b.quit = "active" => b.watchdog
<1> DEFINE c == [a EXCEPT !.quit = "active"]
           d == DisconnectAgent(c)
           e == [d EXCEPT !.watchdog = TRUE]
           f == Complete(d)
<1>1. CloseOnly(a, c) /\ c.quit = "active"
  BY CloseFieldsFrame DEF Sound
<1>2. /\ d.quit # "active" => RequestShutdown(a) = d
      /\ d.quit = "active" /\ d.connection = "stopping" => RequestShutdown(a) = e
      /\ d.quit = "active" /\ d.connection # "stopping" => RequestShutdown(a) = f
  BY DEF RequestShutdown
<1>3. Coherent(c)
  BY <1>1, SoundIsCoherent, CloseOnlySound
<1>4. d = c \/ (c.client /\ Sound(d) /\ Keeps(c, d))
  <2>1. CASE c.client
    BY <1>3, <2>1, DisconnectAgentCoherent
  <2>2. CASE ~c.client
    BY <2>2 DEF DisconnectAgent
  <2> QED BY <2>1, <2>2
<1>5. c \in AppState /\ Coherent(d) /\ d \in AppState
  BY <1>3, <1>4, SoundIsCoherent DEF Coherent
<1>6. ~c.client => c.connection # "stopping"
  BY <1>3 DEF Coherent, Detached
<1>7. KeepsLink(a, d) /\ d.quit \in {"active", "done"}
  BY <1>1, <1>4 DEF CloseOnly, KeepsLink, Keeps
<1> HIDE DEF c
<1>8. CloseOnly(d, e) /\ e.quit = d.quit /\ e.watchdog
  BY <1>5, CloseFieldsFrame
<1>9. CloseOnly(d, f) /\ f.quit = "done"
  BY <1>5, CompleteFrame
<1>10. CASE d.quit # "active"
  <2>1. Sound(d)
    BY <1>1, <1>4, <1>10
  <2> HIDE DEF d
  <2> QED BY <1>2, <1>7, <1>10, <2>1
<1>11. CASE d.quit = "active" /\ d.connection = "stopping"
  <2>1. Sound(d)
    <3>1. d = c => c.client
      BY <1>6, <1>11
    <3>2. d.client
      BY <1>4, <3>1, <1>11 DEF Sound, Waiting
    <3> HIDE DEF d
    <3> QED BY <1>5, <1>11, <3>2 DEF Coherent, Sound, Waiting
  <2> HIDE DEF d, e
  <2>2. Sound(e)
    BY <1>8, <2>1 DEF Sound, Detached, Paired, Waiting, CloseOnly
  <2>3. KeepsLink(a, e)
    BY <1>7, <1>8 DEF CloseOnly, KeepsLink
  <2> QED BY <1>2, <1>8, <1>11, <2>2, <2>3
<1>12. CASE d.quit = "active" /\ d.connection # "stopping"
  <2> HIDE DEF d, f
  <2>1. Sound(f)
    BY <1>5, <1>9, CloseOnlySound
  <2>2. KeepsLink(a, f)
    BY <1>7, <1>9 DEF CloseOnly, KeepsLink
  <2> QED BY <1>2, <1>9, <1>12, <2>1, <2>2
<1> QED BY <1>10, <1>11, <1>12
=============================================================================
