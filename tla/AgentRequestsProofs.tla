------------------------ MODULE AgentRequestsProofs ------------------------
(***************************************************************************)
(* What the handlers of module AgentHandlers do to the requests and to the *)
(* messages of a session: which commands are written, which answers can    *)
(* still come and what they would mean, and which message each of them is  *)
(* about (Talk).  It stands on Sound, the invariant of AgentHandlersProofs.*)
(***************************************************************************)
EXTENDS AgentHandlersProofs, FiniteSetTheorems

-----------------------------------------------------------------------------
\* The inductive invariant of the requests, one named part per idea.

\* Requests of connect_agent's session set-up that wait for their answer.
Hydrating(a) == {i \in a.pending : a.log[i].command \in HydrationCommand}

Asked(a, command) == \E i \in a.pending : a.log[i].command = command

\* A prompt, a clear_queue or an abort was written on this connection.
TurnStarted(a) == \E i \in DOMAIN a.log : a.log[i].command \in TurnCommand

\* Ids are positions of the log, which begins with the process.
Logged(a) ==
    /\ a.pending \subseteq DOMAIN a.log
    /\ a.inbox \subseteq DOMAIN a.log
    /\ a.process = "starting" => a.log = <<>>

\* The set-up is a chain of single requests, on a connection that loads its
\* session and on which no turn was started.  What Pi can still answer was
\* written to a process that is not being stopped.
Hydrates(a) ==
    /\ \A i, j \in Hydrating(a) : i = j
    /\ Hydrating(a) # {} => a.connection = "loading-session"
    /\ a.connection \in {"starting", "loading-session"} => ~TurnStarted(a)
    /\ a.connection = "ready" =>
          a.client /\ a.session_ready /\ a.transport = "ready" /\ a.open
    /\ a.client /\ a.requires_reconciliation => TurnStarted(a)
    /\ a.process = "starting" /\ a.open => a.connection = "starting"
    /\ a.shutdown_timer => ~a.open
    /\ ~a.open => a.pending \cap a.inbox = {}

\* The branch is recovered once, entries first.
Recovers(a) ==
    /\ \A i, j \in Written(a, "get_entries") : i = j
    /\ \A i, j \in Written(a, "fork") : i = j
    /\ a.client /\ Written(a, "get_entries") # {} => a.recovery_attempted
    /\ Written(a, "fork") # {} =>
          Written(a, "get_entries") # {} /\ ~Asked(a, "get_entries")

\* An unanswered prompt names a user message of its own; so do the message and
\* the reply under way.
Named(a) ==
    /\ \A id \in a.prompt_requests :
          /\ id \in Written(a, "prompt")
          /\ a.log[id].message \in DOMAIN a.messages
          /\ a.messages[a.log[id].message].role = "user"
    /\ \A i, j \in a.prompt_requests :
          a.log[i].message = a.log[j].message => i = j
    /\ a.active_user # 0 =>
          /\ a.active_user \in DOMAIN a.messages
          /\ a.messages[a.active_user].role = "user"
    /\ a.active_assistant # 0 =>
          /\ a.active_assistant \in DOMAIN a.messages
          /\ a.messages[a.active_assistant].role = "assistant"

\* On a ready connection a message that is not over is awaited.
Tracked(a) ==
    a.connection = "ready" =>
        \A i \in DOMAIN a.messages :
            /\ a.messages[i].state = "sending" =>
                  \E id \in a.prompt_requests : a.log[id].message = i
            /\ a.messages[i].state = "streaming" => i = a.active_assistant

\* Nothing refers to a message whose outcome is unknown.
Closed(a) ==
    \A i \in DOMAIN a.messages :
        a.messages[i].state = "uncertain" =>
            /\ a.messages[i].role = "user"
            /\ i # a.active_user
            /\ \A id \in a.prompt_requests : a.log[id].message # i

Chat(a) == Named(a) /\ Tracked(a) /\ Closed(a)

Talk(a) == Logged(a) /\ Hydrates(a) /\ Recovers(a) /\ Chat(a)

-----------------------------------------------------------------------------
\* What a handler that writes no command may do.

\* Everything about requests, the process and the connection, which most
\* handlers leave alone.
SameRequests(a, b) ==
    /\ b.log = a.log /\ b.inbox = a.inbox /\ b.pending = a.pending
    /\ b.client = a.client /\ b.connection = a.connection
    /\ b.session_ready = a.session_ready
    /\ b.recovery_attempted = a.recovery_attempted
    /\ b.requires_reconciliation = a.requires_reconciliation
    /\ b.saved = a.saved /\ b.process = a.process /\ b.transport = a.transport
    /\ b.open = a.open
    /\ b.shutdown_timer => a.shutdown_timer

SameChat(a, b) ==
    /\ b.prompt_requests = a.prompt_requests
    /\ b.messages = a.messages
    /\ b.active_user = a.active_user /\ b.active_assistant = a.active_assistant

Untouched(a, b) == SameRequests(a, b) /\ SameChat(a, b)

\* A message whose outcome is unknown stays uncertain.
StaysUncertain(a, b) ==
    \A i \in DOMAIN a.messages :
        a.messages[i].state = "uncertain" =>
            i \in DOMAIN b.messages /\ b.messages[i].state = "uncertain"

\* Nothing is written; requests are given up, never made; the pipes are closed
\* only when no request is left; the messages stay in order.
Wanes(a, b) ==
    /\ b.log = a.log
    /\ b.inbox \subseteq a.inbox
    /\ b.pending \subseteq a.pending
    /\ b.process \in {a.process, "not-running"}
    /\ b.open => a.open
    /\ a.open => b.open \/ b.pending = {}
    /\ b.shutdown_timer => a.shutdown_timer \/ ~b.open
    /\ b.client => /\ a.client
                   /\ b.saved = a.saved
                   /\ b.recovery_attempted = a.recovery_attempted
    /\ Chat(a) => Chat(b) /\ StaysUncertain(a, b)

\* The composer is neither closed nor opened by requires_reconciliation.
SameBlock(a, b) ==
    b.client => b.requires_reconciliation = a.requires_reconciliation

\* A connection becomes neither ready nor a new one.
KeepsPhase(a, b) ==
    /\ b.connection = "ready" =>
          /\ a.connection = "ready"
          /\ b.client = a.client /\ b.session_ready = a.session_ready
          /\ b.transport = a.transport /\ b.open = a.open
    /\ b.connection \in {"starting", "loading-session"} =>
          a.connection = b.connection

Calm(a, b) == Wanes(a, b) /\ SameBlock(a, b) /\ KeepsPhase(a, b)

\* Neither a set-up request nor the start of the process is under way.
LinkOver(a) == Hydrating(a) = {} /\ ~(a.process = "starting" /\ a.open)

\* Two handlers in a row that change nothing.
LEMMA UntouchedTrans ==
  ASSUME NEW a, NEW b, NEW c, Untouched(a, b), Untouched(b, c)
  PROVE  Untouched(a, c)
BY DEF Untouched, SameRequests, SameChat

\* Two handlers in a row that leave the requests alone.
LEMMA SameRequestsTrans ==
  ASSUME NEW a, NEW b, NEW c, SameRequests(a, b), SameRequests(b, c)
  PROVE  SameRequests(a, c)
BY DEF SameRequests

\* An uncertain message survives two handlers in a row.
LEMMA StaysUncertainTrans ==
  ASSUME NEW a, NEW b, NEW c, StaysUncertain(a, b), StaysUncertain(b, c)
  PROVE  StaysUncertain(a, c)
BY DEF StaysUncertain

\* Requests only shrink over two handlers in a row.
LEMMA WanesTrans ==
  ASSUME NEW a, NEW b, NEW c, Wanes(a, b), Wanes(b, c)
  PROVE  /\ Wanes(a, c)
         /\ SameBlock(a, b) /\ SameBlock(b, c) => SameBlock(a, c)
<1>1. Chat(a) => Chat(c) /\ StaysUncertain(a, c)
  BY StaysUncertainTrans DEF Wanes
<1> QED BY <1>1 DEF Wanes, SameBlock

\* Two handlers in a row that write nothing.
LEMMA CalmTrans ==
  ASSUME NEW a, NEW b, NEW c, Calm(a, b), Calm(b, c)
  PROVE  Calm(a, c)
<1>1. Wanes(a, c) /\ SameBlock(a, c)
  BY WanesTrans DEF Calm
<1>2. KeepsPhase(a, c)
  BY DEF Calm, KeepsPhase
<1> QED BY <1>1, <1>2 DEF Calm

\* A handler that touches messages only.
LEMMA SameRequestsCalm ==
  ASSUME NEW a, NEW b, SameRequests(a, b),
         Chat(a) => Chat(b) /\ StaysUncertain(a, b)
  PROVE  Calm(a, b)
BY DEF SameRequests, Calm, Wanes, SameBlock, KeepsPhase

\* A handler that touches nothing of all this.
LEMMA UntouchedCalm ==
  ASSUME NEW a, NEW b, Untouched(a, b)
  PROVE  Calm(a, b)
<1>1. Chat(a) => Chat(b)
  <2>1. Named(a) => Named(b)
    BY DEF Untouched, SameRequests, SameChat, Named, Written
  <2>2. Tracked(a) => Tracked(b)
    BY DEF Untouched, SameRequests, SameChat, Tracked
  <2>3. Closed(a) => Closed(b)
    BY DEF Untouched, SameRequests, SameChat, Closed
  <2> QED BY <2>1, <2>2, <2>3 DEF Chat
<1>2. StaysUncertain(a, b)
  BY DEF StaysUncertain, Untouched, SameChat
<1> QED BY <1>1, <1>2, SameRequestsCalm DEF Untouched

\* Ending the connection hides what its transport went through.
LEMMA WanesCalm ==
  ASSUME NEW a, NEW b, Wanes(a, b), SameBlock(a, b),
         b.connection \in {"disconnected", "stopping", "failed"}
  PROVE  Calm(a, b)
BY DEF Calm, KeepsPhase

\* Nothing is written: the invariant holds afterwards if the connection is what
\* it was, or nothing of the set-up is left.
LEMMA WanesTalk ==
  ASSUME NEW a, Talk(a), NEW b, Wanes(a, b), KeepsPhase(a, b),
         SameBlock(a, b) \/ TurnStarted(a),
         b.connection = a.connection \/ LinkOver(b)
  PROVE  Talk(b)
<1>1. /\ b.log = a.log /\ b.pending \subseteq a.pending
      /\ \A c : Written(b, c) = Written(a, c)
      /\ Hydrating(b) \subseteq Hydrating(a)
      /\ TurnStarted(b) <=> TurnStarted(a)
      /\ \A c : Asked(b, c) => Asked(a, c)
  BY DEF Wanes, Written, Hydrating, TurnStarted, Asked
<1>2. Logged(b)
  BY DEF Talk, Logged, Wanes
<1>3. Hydrates(b)
  <2>1. \A i, j \in Hydrating(b) : i = j
    BY <1>1 DEF Talk, Hydrates
  <2>2. Hydrating(b) # {} => b.connection = "loading-session"
    BY <1>1 DEF Talk, Hydrates, LinkOver
  <2>3. b.connection \in {"starting", "loading-session"} => ~TurnStarted(b)
    BY <1>1 DEF Talk, Hydrates, KeepsPhase
  <2>4. b.connection = "ready" =>
           b.client /\ b.session_ready /\ b.transport = "ready" /\ b.open
    BY DEF Talk, Hydrates, KeepsPhase
  <2>5. b.client /\ b.requires_reconciliation => TurnStarted(b)
    BY <1>1 DEF Talk, Hydrates, Wanes, SameBlock
  <2>6. b.process = "starting" /\ b.open => b.connection = "starting"
    BY DEF Talk, Hydrates, Wanes, LinkOver
  <2>7. b.shutdown_timer => ~b.open
    BY DEF Talk, Hydrates, Wanes
  <2>8. ~b.open => b.pending \cap b.inbox = {}
    BY DEF Talk, Hydrates, Wanes
  <2> QED BY <2>1, <2>2, <2>3, <2>4, <2>5, <2>6, <2>7, <2>8 DEF Hydrates
<1>4. Recovers(b)
  BY <1>1 DEF Talk, Recovers, Wanes
<1>5. Chat(b)
  BY DEF Talk, Wanes
<1> QED BY <1>2, <1>3, <1>4, <1>5 DEF Talk

-----------------------------------------------------------------------------
\* Handlers that touch neither requests nor messages

\* The close coordinator's reaction.
LEMMA StateChangedUntouched ==
  ASSUME NEW a \in AppState
  PROVE  Untouched(a, StateChanged(a))
BY DEF StateChanged, Complete, AppState, Untouched, SameRequests, SameChat

\* A flag of the client or of the controller that nothing else depends on.
LEMMA FlagsUntouched ==
  ASSUME NEW a \in AppState, NEW v \in BOOLEAN, NEW w \in BOOLEAN
  PROVE  /\ Untouched(a, [a EXCEPT !.auto_retry = v])
         /\ Untouched(a, [a EXCEPT !.last_error = v])
         /\ Untouched(a, [a EXCEPT !.inactivity_warning = v, !.last_error = w])
         /\ Untouched(a, [a EXCEPT !.disconnect_requested = v])
         /\ Untouched(a, [a EXCEPT !.watch = v])
         /\ Untouched(a, [a EXCEPT !.startup_timer = FALSE])
         /\ Untouched(a, [a EXCEPT !.shutdown_timer = FALSE])
         /\ Untouched(a, [a EXCEPT !.startup_timer = FALSE, !.shutdown_timer = FALSE])
BY DEF AppState, Untouched, SameRequests, SameChat

\* AgentController._clear_inactivity_warning
LEMMA ClearInactivityWarningUntouched ==
  ASSUME NEW a \in AppState
  PROVE  Untouched(a, ClearInactivityWarning(a))
BY DEF ClearInactivityWarning, AppState, Untouched, SameRequests, SameChat

\* AgentClient._set_turn_state
LEMMA SetTurnUntouched ==
  ASSUME NEW a \in AppState, NEW t \in TurnState
  PROVE  Untouched(a, SetTurn(a, t)) /\ SetTurn(a, t) \in AppState
<1>1. CASE a.turn = t
  BY <1>1 DEF SetTurn, Untouched, SameRequests, SameChat
<1>2. CASE a.turn # t
  <2> DEFINE w == t \in BusyTurn
             set(x) == [a EXCEPT !.turn = t, !.watch = x]
             b == set(w)
             c == ClearInactivityWarning(b)
             d == StateChanged(c)
  <2>1. ASSUME NEW x \in BOOLEAN PROVE set(x) \in AppState /\ Untouched(a, set(x))
    BY DEF AppState, Untouched, SameRequests, SameChat
  <2>2. w \in BOOLEAN
    OBVIOUS
  <2>3. SetTurn(a, t) = d
    BY <1>2 DEF SetTurn
  <2> HIDE DEF w, set
  <2>4. b \in AppState /\ Untouched(a, b)
    BY <2>1, <2>2
  <2> HIDE DEF b
  <2>5. c \in AppState /\ Untouched(b, c)
    BY <2>4, ClearInactivityWarningUntouched, ClearInactivityWarningSame
    DEF Silent, SameLink
  <2> HIDE DEF c
  <2>6. d \in AppState /\ Untouched(c, d)
    BY <2>5, StateChangedUntouched, StateChangedFrame DEF SameLink
  <2> HIDE DEF d
  <2> QED BY <2>3, <2>4, <2>5, <2>6, UntouchedTrans
<1> QED BY <1>1, <1>2

\* AgentClient._note_activity
LEMMA NoteActivityUntouched ==
  ASSUME NEW a \in AppState
  PROVE  Untouched(a, NoteActivity(a))
<1>1. Untouched(a, a)
  BY DEF Untouched, SameRequests, SameChat
<1> QED BY <1>1, FlagsUntouched DEF NoteActivity

\* AgentClient._clear_pending
LEMMA DropRequestsCalm ==
  ASSUME NEW a \in AppState
  PROVE  /\ Calm(a, DropRequests(a))
         /\ DropRequests(a).pending = {} /\ DropRequests(a) \in AppState
         /\ DropRequests(a).connection = a.connection
         /\ DropRequests(a).process = a.process /\ DropRequests(a).open = a.open
         /\ DropRequests(a).client = a.client
<1> DEFINE b == DropRequests(a)
<1>1. b \in AppState /\ b.pending = {}
  BY DEF DropRequests, AppState
<1>2. /\ b.log = a.log /\ b.inbox = a.inbox
      /\ b.client = a.client /\ b.connection = a.connection
      /\ b.session_ready = a.session_ready
      /\ b.recovery_attempted = a.recovery_attempted
      /\ b.requires_reconciliation = a.requires_reconciliation
      /\ b.saved = a.saved /\ b.process = a.process /\ b.transport = a.transport
      /\ b.open = a.open /\ b.shutdown_timer = a.shutdown_timer
      /\ SameChat(a, b)
  BY DEF DropRequests, AppState, SameChat
<1> HIDE DEF b
<1>3. Chat(a) => Chat(b)
  <2>1. Named(a) => Named(b)
    BY <1>2 DEF SameChat, Named, Written
  <2>2. Tracked(a) => Tracked(b)
    BY <1>2 DEF SameChat, Tracked
  <2>3. Closed(a) => Closed(b)
    BY <1>2 DEF SameChat, Closed
  <2> QED BY <2>1, <2>2, <2>3 DEF Chat
<1>4. StaysUncertain(a, b)
  BY <1>2 DEF StaysUncertain, SameChat
<1>5. Calm(a, b)
  BY <1>1, <1>2, <1>3, <1>4 DEF Calm, Wanes, SameBlock, KeepsPhase
<1> QED BY <1>1, <1>2, <1>5 DEF b

-----------------------------------------------------------------------------
\* A handler that writes nothing and leaves the connection alone, or nothing
\* of the set-up: it preserves Talk.
Gentle(a, b) ==
    /\ Calm(a, b)
    /\ b.connection = a.connection \/ LinkOver(b)

\* Two such handlers in a row.
LEMMA GentleTrans ==
  ASSUME NEW a, NEW b, NEW c, Gentle(a, b), Gentle(b, c)
  PROVE  Gentle(a, c)
<1>1. Calm(a, c)
  BY CalmTrans DEF Gentle
<1>2. LinkOver(b) => LinkOver(c)
  <2>1. Hydrating(c) \subseteq Hydrating(b)
    BY DEF Gentle, Calm, Wanes, Hydrating
  <2> QED BY <2>1 DEF Gentle, Calm, Wanes, LinkOver
<1> QED BY <1>1, <1>2 DEF Gentle

\* Such a handler preserves the invariant of the requests.
LEMMA GentleTalk ==
  ASSUME NEW a, Talk(a), NEW b, Gentle(a, b)
  PROVE  Talk(b)
BY WanesTalk DEF Gentle, Calm

\* A handler that touches messages only.
LEMMA SameRequestsGentle ==
  ASSUME NEW a, NEW b, SameRequests(a, b),
         Chat(a) => Chat(b) /\ StaysUncertain(a, b)
  PROVE  Gentle(a, b)
BY SameRequestsCalm DEF Gentle, SameRequests

\* A handler that touches nothing of all this.
LEMMA UntouchedGentle ==
  ASSUME NEW a, NEW b, Untouched(a, b)
  PROVE  Gentle(a, b)
BY UntouchedCalm DEF Gentle, Untouched, SameRequests

-----------------------------------------------------------------------------
\* AgentController: messages

\* _mark_message changes the state of one message.
LEMMA MarkMessageFrame ==
  ASSUME NEW a \in AppState, NEW i, NEW s \in MessageState
  PROVE  LET b == MarkMessage(a, i, s)
         IN  /\ SameRequests(a, b)
             /\ b.prompt_requests = a.prompt_requests
             /\ b.active_user = a.active_user
             /\ b.active_assistant = a.active_assistant
             /\ DOMAIN b.messages = DOMAIN a.messages
             /\ \A j \in DOMAIN a.messages :
                   /\ b.messages[j].role = a.messages[j].role
                   /\ b.messages[j].state =
                         IF j = i THEN s ELSE a.messages[j].state
<1>1. CASE i \in DOMAIN a.messages
  <2> DEFINE new == [a.messages EXCEPT ![i].state = s]
             set(v) == [a EXCEPT !.messages = v]
  <2>1. /\ DOMAIN new = DOMAIN a.messages
        /\ \A j \in DOMAIN a.messages :
              /\ new[j].role = a.messages[j].role
              /\ new[j].state = IF j = i THEN s ELSE a.messages[j].state
    <3>1. /\ a.messages \in Seq(Message)
          /\ \A j \in DOMAIN a.messages : a.messages[j] \in Message
      BY DEF AppState
    <3> QED BY <1>1, <3>1 DEF Message
  <2>2. ASSUME NEW v
        PROVE  /\ SameRequests(a, set(v)) /\ set(v).messages = v
               /\ set(v).prompt_requests = a.prompt_requests
               /\ set(v).active_user = a.active_user
               /\ set(v).active_assistant = a.active_assistant
    BY DEF AppState, SameRequests
  <2>3. MarkMessage(a, i, s) = set(new)
    BY <1>1 DEF MarkMessage
  <2> HIDE DEF new, set
  <2> QED BY <2>1, <2>2, <2>3
<1>2. CASE i \notin DOMAIN a.messages
  BY <1>2 DEF MarkMessage, SameRequests
<1> QED BY <1>1, <1>2

\* Marking a message whose outcome is not unknown; only the reply under way is
\* marked streaming.
LEMMA MarkMessageGentle ==
  ASSUME NEW a \in AppState, NEW i, NEW s \in MessageState \ {"sending", "uncertain"},
         Chat(a) /\ i \in DOMAIN a.messages => a.messages[i].state # "uncertain",
         s = "streaming" => i = a.active_assistant
  PROVE  Gentle(a, MarkMessage(a, i, s))
<1> DEFINE b == MarkMessage(a, i, s)
<1>1. /\ SameRequests(a, b)
      /\ b.prompt_requests = a.prompt_requests
      /\ b.active_user = a.active_user
      /\ b.active_assistant = a.active_assistant
      /\ DOMAIN b.messages = DOMAIN a.messages
      /\ \A j \in DOMAIN a.messages :
            /\ b.messages[j].role = a.messages[j].role
            /\ b.messages[j].state = IF j = i THEN s ELSE a.messages[j].state
  BY MarkMessageFrame
<1> HIDE DEF b
<1>2. ASSUME Chat(a) PROVE Chat(b) /\ StaysUncertain(a, b)
  <2>1. Named(b)
    BY <1>1, <1>2 DEF Chat, Named, SameRequests, Written
  <2>2. Tracked(b)
    BY <1>1, <1>2 DEF Chat, Tracked, SameRequests
  <2>3. Closed(b)
    BY <1>1, <1>2 DEF Chat, Closed, SameRequests
  <2>4. StaysUncertain(a, b)
    BY <1>1, <1>2 DEF StaysUncertain
  <2> QED BY <2>1, <2>2, <2>3, <2>4 DEF Chat
<1> QED BY <1>1, <1>2, SameRequestsGentle DEF b

\* What is under way has a known outcome, or none yet.
LEMMA UnderWayKnown ==
  ASSUME NEW a \in AppState, Chat(a), NEW i,
         \/ i = a.active_user \/ i = a.active_assistant
         \/ \E id \in a.prompt_requests : a.log[id].message = i,
         i \in DOMAIN a.messages
  PROVE  a.messages[i].state # "uncertain"
<1>1. CASE i = a.active_assistant
  <2>1. i = 0 \/ a.messages[i].role = "assistant"
    BY <1>1 DEF Chat, Named
  <2>2. i # 0 => a.messages[i].state # "uncertain"
    BY <2>1 DEF Chat, Closed
  <2>3. i # 0
    BY DEF AppState
  <2> QED BY <2>2, <2>3
<1>2. CASE i # a.active_assistant
  BY <1>2 DEF Chat, Closed
<1> QED BY <1>1, <1>2

\* The indices of the messages under way are dropped: the reply is not shown as
\* streaming any more.
LEMMA ActiveGentle ==
  ASSUME NEW a \in AppState,
         NEW u \in {0, a.active_user}, NEW v \in {0, a.active_assistant},
         NEW b,
         b.messages = a.messages, b.prompt_requests = a.prompt_requests,
         b.active_user = u, b.active_assistant = v,
         SameRequests(a, b),
         v = 0 /\ a.active_assistant \in DOMAIN a.messages =>
            a.messages[a.active_assistant].state # "streaming"
  PROVE  Gentle(a, b)
<1>1. ASSUME Chat(a) PROVE Chat(b)
  <2>1. Named(b)
    BY <1>1 DEF Chat, Named, SameRequests, Written
  <2>2. Tracked(b)
    BY <1>1 DEF Chat, Tracked, SameRequests
  <2>3. Closed(b)
    <3>1. ASSUME NEW i \in DOMAIN a.messages PROVE i # 0
      BY DEF AppState
    <3> QED BY <1>1, <3>1 DEF Chat, Closed, SameRequests
  <2> QED BY <2>1, <2>2, <2>3 DEF Chat
<1>2. StaysUncertain(a, b)
  BY DEF StaysUncertain
<1> QED BY <1>1, <1>2, SameRequestsGentle

\* _mark_active_turn_failed
LEMMA MarkActiveTurnFailedGentle ==
  ASSUME NEW a \in AppState
  PROVE  Gentle(a, MarkActiveTurnFailed(a))
<1> DEFINE b == MarkMessage(a, a.active_user, "failed")
           c == MarkMessage(b, a.active_assistant, "failed")
           d == [c EXCEPT !.active_user = 0, !.active_assistant = 0]
<1>0. "failed" \in MessageState \ {"sending", "uncertain"}
  BY DEF MessageState
<1>1. b \in AppState
  BY <1>0, MarkMessageSame DEF Silent, SameLink
<1>2. Gentle(a, b)
  BY <1>0, UnderWayKnown, MarkMessageGentle
<1>3. b.active_assistant = a.active_assistant
  BY <1>0, MarkMessageFrame
<1>4. MarkActiveTurnFailed(a) = d
  BY DEF MarkActiveTurnFailed
<1> HIDE DEF b
<1>5. c \in AppState /\ Gentle(b, c)
  <2>1. c = MarkMessage(b, b.active_assistant, "failed")
    BY <1>3
  <2> HIDE DEF c
  <2>2. Chat(b) /\ b.active_assistant \in DOMAIN b.messages =>
           b.messages[b.active_assistant].state # "uncertain"
    BY <1>1, UnderWayKnown
  <2>3. Silent(b, MarkMessage(b, b.active_assistant, "failed"))
    BY <1>0, <1>1, MarkMessageSame
  <2>4. Gentle(b, MarkMessage(b, b.active_assistant, "failed"))
    BY <1>0, <1>1, <2>2, MarkMessageGentle
  <2> QED BY <2>1, <2>3, <2>4 DEF Silent, SameLink
<1>6. c.active_assistant \in DOMAIN c.messages =>
         c.messages[c.active_assistant].state # "streaming"
  BY <1>0, <1>1, <1>3, MarkMessageFrame
<1> HIDE DEF c
<1>7. /\ d.messages = c.messages /\ d.prompt_requests = c.prompt_requests
      /\ d.active_user = 0 /\ d.active_assistant = 0
      /\ SameRequests(c, d)
  BY <1>5 DEF AppState, SameRequests
<1> HIDE DEF d
<1>8. Gentle(c, d)
  BY <1>5, <1>6, <1>7, ActiveGentle
<1> QED BY <1>2, <1>4, <1>5, <1>8, GentleTrans

\* The list of messages has one message more, at its end.
Grown(a, b, role, state) ==
    LET n == Len(a.messages) + 1
    IN  /\ n \in DOMAIN b.messages /\ n \notin DOMAIN a.messages
        /\ b.messages[n].role = role /\ b.messages[n].state = state
        /\ \A i \in DOMAIN b.messages : i \in DOMAIN a.messages \/ i = n
        /\ \A i \in DOMAIN a.messages :
              /\ i # 0 /\ i \in DOMAIN b.messages
              /\ b.messages[i].role = a.messages[i].role
              /\ b.messages[i].state = a.messages[i].state

\* A message is added, and may become the reply under way.
LEMMA AppendedGentle ==
  ASSUME NEW a, NEW b, NEW role, NEW state, SameRequests(a, b),
         Grown(a, b, role, state),
         b.prompt_requests = a.prompt_requests, b.active_user = a.active_user,
         \/ /\ state \in {"complete", "failed"}
            /\ b.active_assistant = a.active_assistant
         \/ /\ state = "streaming" /\ role = "assistant"
            /\ a.active_assistant = 0
            /\ b.active_assistant = Len(a.messages) + 1
  PROVE  Gentle(a, b)
<1>1. ASSUME Chat(a) PROVE Chat(b)
  <2>1. Named(b)
    BY <1>1 DEF Chat, Named, SameRequests, Written, Grown
  <2>2. Tracked(b)
    BY <1>1 DEF Chat, Tracked, SameRequests, Grown
  <2>3. Closed(b)
    BY <1>1 DEF Chat, Closed, SameRequests, Grown
  <2> QED BY <2>1, <2>2, <2>3 DEF Chat
<1>2. StaysUncertain(a, b)
  BY DEF StaysUncertain, Grown
<1> QED BY <1>1, <1>2, SameRequestsGentle

\* _append_message grows the list by one message.
LEMMA AppendMessageFrame ==
  ASSUME NEW a \in AppState, NEW r \in {"user", "assistant"}, NEW s \in MessageState
  PROVE  LET b == AppendMessage(a, r, s)
         IN  /\ SameRequests(a, b) /\ Grown(a, b, r, s)
             /\ Len(b.messages) = Len(a.messages) + 1
             /\ b.prompt_requests = a.prompt_requests
             /\ b.active_user = a.active_user
             /\ b.active_assistant = a.active_assistant
<1> DEFINE m == [role |-> r, state |-> s]
           set(v) == [a EXCEPT !.messages = v]
           b == set(Append(a.messages, m))
<1>1. ASSUME NEW v
      PROVE  /\ SameRequests(a, set(v)) /\ set(v).messages = v
             /\ set(v).prompt_requests = a.prompt_requests
             /\ set(v).active_user = a.active_user
             /\ set(v).active_assistant = a.active_assistant
  BY DEF AppState, SameRequests
<1>2. AppendMessage(a, r, s) = b
  BY DEF AppendMessage, AppState
<1> HIDE DEF set
<1>3. /\ SameRequests(a, b) /\ b.messages = Append(a.messages, m)
      /\ b.prompt_requests = a.prompt_requests
      /\ b.active_user = a.active_user
      /\ b.active_assistant = a.active_assistant
  BY <1>1
<1> HIDE DEF b
<1>4. m \in Message /\ m.role = r /\ m.state = s
  BY DEF Message
<1> HIDE DEF m
<1>5. Grown(a, b, r, s) /\ Len(b.messages) = Len(a.messages) + 1
  BY <1>3, <1>4 DEF Grown, AppState
<1> QED BY <1>2, <1>3, <1>5

\* _append_assistant_delta
LEMMA AppendAssistantDeltaGentle ==
  ASSUME NEW a \in AppState
  PROVE  Gentle(a, AppendAssistantDelta(a))
<1>0. "streaming" \in MessageState \ {"sending", "uncertain"}
  BY DEF MessageState
<1>1. CASE a.active_assistant = 0
  <2> DEFINE n == Len(a.messages) + 1
             b == AppendMessage(a, "assistant", "streaming")
             c == [b EXCEPT !.active_assistant = n]
  <2>1. /\ SameRequests(a, b) /\ Grown(a, b, "assistant", "streaming")
        /\ b.prompt_requests = a.prompt_requests /\ b.active_user = a.active_user
        /\ b \in AppState
    BY <1>0, AppendMessageFrame, AppendMessageSame DEF Silent, SameLink
  <2>2. AppendAssistantDelta(a) = c
    BY <1>1 DEF AppendAssistantDelta
  <2> HIDE DEF b, n
  <2>4. /\ SameRequests(b, c) /\ c.messages = b.messages
        /\ c.prompt_requests = b.prompt_requests /\ c.active_user = b.active_user
        /\ c.active_assistant = n
    BY <2>1 DEF AppState, SameRequests
  <2> HIDE DEF c
  <2>5. SameRequests(a, c)
    BY <2>1, <2>4 DEF SameRequests
  <2>6. Grown(a, c, "assistant", "streaming")
    BY <2>1, <2>4 DEF Grown
  <2> QED BY <1>1, <2>1, <2>2, <2>4, <2>5, <2>6, AppendedGentle DEF n
<1>2. CASE a.active_assistant # 0
  <2>1. AppendAssistantDelta(a) = MarkMessage(a, a.active_assistant, "streaming")
    BY <1>2 DEF AppendAssistantDelta
  <2> QED BY <1>0, <2>1, UnderWayKnown, MarkMessageGentle
<1> QED BY <1>1, <1>2

\* _finalize_assistant
LEMMA FinalizeAssistantGentle ==
  ASSUME NEW a \in AppState
  PROVE  Gentle(a, FinalizeAssistant(a))
<1>0. "complete" \in MessageState \ {"sending", "uncertain"}
  BY DEF MessageState
<1>1. CASE a.active_assistant = 0
  <2> DEFINE b == AppendMessage(a, "assistant", "complete")
  <2>1. /\ SameRequests(a, b) /\ Grown(a, b, "assistant", "complete")
        /\ b.prompt_requests = a.prompt_requests /\ b.active_user = a.active_user
        /\ b.active_assistant = a.active_assistant
    BY <1>0, AppendMessageFrame
  <2>2. FinalizeAssistant(a) = b
    BY <1>1 DEF FinalizeAssistant
  <2> HIDE DEF b
  <2> QED BY <2>1, <2>2, AppendedGentle
<1>2. CASE a.active_assistant # 0
  <2> DEFINE b == MarkMessage(a, a.active_assistant, "complete")
             c == [b EXCEPT !.active_assistant = 0]
  <2>1. Gentle(a, b) /\ b \in AppState
    BY <1>0, UnderWayKnown, MarkMessageGentle, MarkMessageSame DEF Silent, SameLink
  <2>2. /\ b.active_assistant \in DOMAIN b.messages =>
             b.messages[b.active_assistant].state # "streaming"
    BY <1>0, MarkMessageFrame
  <2>3. FinalizeAssistant(a) = c
    BY <1>2 DEF FinalizeAssistant
  <2> HIDE DEF b
  <2>4. /\ SameRequests(b, c) /\ c.messages = b.messages
        /\ c.prompt_requests = b.prompt_requests /\ c.active_user = b.active_user
        /\ c.active_assistant = 0
    BY <2>1 DEF AppState, SameRequests
  <2> HIDE DEF c
  <2>5. Gentle(b, c)
    BY <2>1, <2>2, <2>4, ActiveGentle
  <2> QED BY <2>1, <2>3, <2>5, GentleTrans
<1> QED BY <1>1, <1>2

\* _settle_messages
LEMMA SettleMessagesGentle ==
  ASSUME NEW a \in AppState
  PROVE  Gentle(a, SettleMessages(a))
<1>0. "complete" \in MessageState \ {"sending", "uncertain"}
  BY DEF MessageState
<1>1. CASE a.turn = "failed"
  <2>1. SettleMessages(a) = a /\ Untouched(a, a)
    BY <1>1 DEF SettleMessages, Untouched, SameRequests, SameChat
  <2> QED BY <2>1, UntouchedGentle
<1>2. CASE a.turn # "failed"
  <2> DEFINE b == MarkMessage(a, a.active_user, "complete")
             c == MarkMessage(b, a.active_assistant, "complete")
             d == [c EXCEPT !.active_user = 0, !.active_assistant = 0]
  <2>1. b \in AppState /\ Gentle(a, b)
    BY <1>0, UnderWayKnown, MarkMessageGentle, MarkMessageSame DEF Silent, SameLink
  <2>2. b.active_assistant = a.active_assistant
    BY <1>0, MarkMessageFrame
  <2>3. SettleMessages(a) = d
    BY <1>2 DEF SettleMessages
  <2> HIDE DEF b
  <2>4. c = MarkMessage(b, b.active_assistant, "complete")
    BY <2>2
  <2> HIDE DEF c
  <2>5. c \in AppState /\ Gentle(b, c)
    <3>1. Chat(b) /\ b.active_assistant \in DOMAIN b.messages =>
             b.messages[b.active_assistant].state # "uncertain"
      BY <2>1, UnderWayKnown
    <3> QED BY <1>0, <2>1, <2>4, <3>1, MarkMessageGentle, MarkMessageSame
            DEF Silent, SameLink
  <2>6. c.active_assistant \in DOMAIN c.messages =>
           c.messages[c.active_assistant].state # "streaming"
    BY <1>0, <2>1, <2>4, MarkMessageFrame
  <2>7. /\ d.messages = c.messages /\ d.prompt_requests = c.prompt_requests
        /\ d.active_user = 0 /\ d.active_assistant = 0
        /\ SameRequests(c, d)
    BY <2>5 DEF AppState, SameRequests
  <2> HIDE DEF d
  <2>8. Gentle(c, d)
    BY <2>5, <2>6, <2>7, ActiveGentle
  <2> QED BY <2>1, <2>3, <2>5, <2>8, GentleTrans
<1> QED BY <1>1, <1>2

\* An unanswered prompt is over, one way or the other, and its message with it.
LEMMA PromptSettledChat ==
  ASSUME NEW a \in AppState, Chat(a), NEW id \in a.prompt_requests, NEW b,
         NEW s \in {"accepted", "failed", "uncertain"}, NEW i,
         i = a.log[id].message,
         b.log = a.log, b.connection = a.connection,
         b.prompt_requests = a.prompt_requests \ {id},
         b.active_assistant = a.active_assistant,
         \/ b.active_user = a.active_user /\ s = "accepted"
         \/ b.active_user = IF a.active_user = i THEN 0 ELSE a.active_user,
         DOMAIN b.messages = DOMAIN a.messages,
         \A j \in DOMAIN a.messages :
            /\ b.messages[j].role = a.messages[j].role
            /\ b.messages[j].state = IF j = i THEN s ELSE a.messages[j].state
  PROVE  Chat(b) /\ StaysUncertain(a, b)
<1>1. i \in DOMAIN a.messages /\ i # 0 /\ a.messages[i].role = "user"
      /\ a.messages[i].state # "uncertain"
  BY DEF Chat, Named, Closed, AppState
<1>2. Named(b)
  BY DEF Chat, Named, Written
<1>3. Tracked(b)
  BY DEF Chat, Tracked
<1>4. Closed(b)
  <2> SUFFICES ASSUME NEW j \in DOMAIN b.messages,
                      b.messages[j].state = "uncertain"
               PROVE  /\ b.messages[j].role = "user" /\ j # b.active_user
                      /\ \A k \in b.prompt_requests : b.log[k].message # j
    BY DEF Closed
  <2>1. j # 0
    BY DEF AppState
  <2>2. CASE j = i
    <3>1. \A k \in b.prompt_requests : b.log[k].message # i
      BY DEF Chat, Named
    <3>2. s = "uncertain"
      BY <2>2
    <3>3. i # b.active_user
      BY <1>1, <3>2
    <3> QED BY <1>1, <2>2, <3>1, <3>3
  <2>3. CASE j # i
    <3>1. a.messages[j].state = "uncertain"
      BY <2>3
    <3> QED BY <2>1, <3>1 DEF Chat, Closed
  <2> QED BY <2>2, <2>3
<1>5. StaysUncertain(a, b)
  BY <1>1 DEF StaysUncertain
<1> QED BY <1>2, <1>3, <1>4, <1>5 DEF Chat

\* AgentController._on_response marks the message of the prompt it answers.
LEMMA OnPromptAnswerGentle ==
  ASSUME NEW a \in AppState, NEW id, NEW r
  PROVE  LET b == OnPromptAnswer(a, id, r)
         IN  Gentle(a, b) /\ SameRequests(a, b) /\ b \in AppState
<1> DEFINE b == ClearInactivityWarning(a)
           i == b.log[id].message
           p == b.prompt_requests \ {id}
           drop(q) == [b EXCEPT !.prompt_requests = q]
           c == drop(p)
<1>1. b \in AppState /\ Untouched(a, b)
  BY ClearInactivityWarningUntouched, ClearInactivityWarningSame DEF Silent, SameLink
<1>2. Gentle(a, b) /\ SameRequests(a, b)
  BY <1>1, UntouchedGentle DEF Untouched
<1>3. OnPromptAnswer(a, id, r) =
        IF id \notin b.prompt_requests \/ i \notin DOMAIN b.messages THEN c
        ELSE IF r.ok THEN StateChanged(MarkMessage(c, i, "accepted"))
        ELSE StateChanged(
                [MarkMessage(c, i, "failed") EXCEPT
                    !.active_user = IF @ = i THEN 0 ELSE @,
                    !.last_error = TRUE])
  BY <1>1 DEF OnPromptAnswer, AppState
<1>4. p \in SUBSET Nat
  BY <1>1 DEF AppState
<1> HIDE DEF b
<1>5. ASSUME NEW q \in SUBSET Nat
      PROVE  /\ SameRequests(b, drop(q)) /\ drop(q) \in AppState
             /\ drop(q).prompt_requests = q /\ drop(q).messages = b.messages
             /\ drop(q).active_user = b.active_user
             /\ drop(q).active_assistant = b.active_assistant
  BY <1>1 DEF AppState, SameRequests
<1> HIDE DEF p, drop, i
<1>6. /\ SameRequests(b, c) /\ c \in AppState /\ c.prompt_requests = p
      /\ c.messages = b.messages /\ c.active_user = b.active_user
      /\ c.active_assistant = b.active_assistant
  BY <1>4, <1>5
<1> HIDE DEF c
<1>7. CASE id \notin b.prompt_requests
  <2>1. Untouched(b, c)
    BY <1>6, <1>7 DEF Untouched, SameChat, p
  <2> QED
    BY <1>2, <1>3, <1>6, <1>7, <2>1, UntouchedGentle, GentleTrans, SameRequestsTrans
<1>8. CASE id \in b.prompt_requests /\ i \notin DOMAIN b.messages
  <2>1. ~Chat(b)
    BY <1>8 DEF Chat, Named, i
  <2>2. Gentle(b, c)
    BY <1>6, <2>1, SameRequestsGentle
  <2> QED BY <1>2, <1>3, <1>6, <1>8, <2>2, GentleTrans, SameRequestsTrans
<1>9. CASE id \in b.prompt_requests /\ i \in DOMAIN b.messages /\ r.ok
  <2> DEFINE d == MarkMessage(c, i, "accepted")
  <2>0. "accepted" \in MessageState
    BY DEF MessageState
  <2>1. /\ SameRequests(c, d) /\ d.prompt_requests = c.prompt_requests
        /\ d.active_user = c.active_user /\ d.active_assistant = c.active_assistant
        /\ DOMAIN d.messages = DOMAIN c.messages
        /\ \A j \in DOMAIN c.messages :
              /\ d.messages[j].role = c.messages[j].role
              /\ d.messages[j].state = IF j = i THEN "accepted" ELSE c.messages[j].state
        /\ d \in AppState
    BY <1>6, <2>0, MarkMessageFrame, MarkMessageSame DEF Silent, SameLink
  <2> HIDE DEF d
  <2>2. SameRequests(b, d)
    BY <1>6, <2>1 DEF SameRequests
  <2>3. Chat(b) => Chat(d) /\ StaysUncertain(b, d)
    BY <1>1, <1>6, <1>9, <2>1, <2>2, PromptSettledChat DEF SameRequests, p, i
  <2>4. /\ Gentle(b, d) /\ Gentle(d, StateChanged(d))
        /\ SameRequests(d, StateChanged(d)) /\ StateChanged(d) \in AppState
    BY <2>1, <2>2, <2>3, SameRequestsGentle, StateChangedUntouched, UntouchedGentle,
       StateChangedFrame
    DEF Untouched, SameLink
  <2>5. OnPromptAnswer(a, id, r) = StateChanged(d)
    BY <1>3, <1>9 DEF d
  <2> QED BY <1>2, <2>4, <2>5, <2>2, GentleTrans, SameRequestsTrans
<1>10. CASE id \in b.prompt_requests /\ i \in DOMAIN b.messages /\ ~r.ok
  <2> DEFINE d == MarkMessage(c, i, "failed")
             u == IF d.active_user = i THEN 0 ELSE d.active_user
             set(v) == [d EXCEPT !.active_user = v, !.last_error = TRUE]
             e == set(u)
  <2>0. "failed" \in MessageState
    BY DEF MessageState
  <2>1. /\ SameRequests(c, d) /\ d.prompt_requests = c.prompt_requests
        /\ d.active_user = c.active_user /\ d.active_assistant = c.active_assistant
        /\ DOMAIN d.messages = DOMAIN c.messages
        /\ \A j \in DOMAIN c.messages :
              /\ d.messages[j].role = c.messages[j].role
              /\ d.messages[j].state = IF j = i THEN "failed" ELSE c.messages[j].state
        /\ d \in AppState
    BY <1>6, <2>0, MarkMessageFrame, MarkMessageSame DEF Silent, SameLink
  <2>2. OnPromptAnswer(a, id, r) = StateChanged(e)
    BY <1>3, <1>10, <2>1 DEF AppState
  <2> HIDE DEF d
  <2>3. u \in Nat
    BY <2>1 DEF AppState
  <2>4. ASSUME NEW v \in Nat
        PROVE  /\ SameRequests(d, set(v)) /\ set(v) \in AppState
               /\ set(v).prompt_requests = d.prompt_requests
               /\ set(v).messages = d.messages /\ set(v).active_user = v
               /\ set(v).active_assistant = d.active_assistant
    <3>1. set(v) \in AppState
      BY <2>1 DEF AppState
    <3> QED BY <2>1, <3>1 DEF AppState, SameRequests
  <2> HIDE DEF set, u
  <2>5. /\ SameRequests(d, e) /\ e \in AppState
        /\ e.prompt_requests = d.prompt_requests
        /\ e.messages = d.messages /\ e.active_user = u
        /\ e.active_assistant = d.active_assistant
    BY <2>3, <2>4
  <2> HIDE DEF e
  <2>6. SameRequests(b, e)
    BY <1>6, <2>1, <2>5 DEF SameRequests
  <2>7. Chat(b) => Chat(e) /\ StaysUncertain(b, e)
    BY <1>1, <1>6, <1>10, <2>1, <2>5, <2>6, PromptSettledChat DEF SameRequests, p, i, u
  <2>8. /\ Gentle(b, e) /\ Gentle(e, StateChanged(e))
        /\ SameRequests(e, StateChanged(e)) /\ StateChanged(e) \in AppState
    BY <2>5, <2>6, <2>7, SameRequestsGentle, StateChangedUntouched, UntouchedGentle,
       StateChangedFrame
    DEF Untouched, SameLink
  <2> QED BY <1>2, <2>2, <2>8, <2>6, GentleTrans, SameRequestsTrans
<1> QED BY <1>7, <1>8, <1>9, <1>10

\* What takes a request out of those that wait.
RequestOver(a, id) == [a EXCEPT !.pending = @ \ {id}, !.deadlines = @ \ {id}]


\* An answer, or a deadline, takes its request out of those that wait.
LEMMA AnsweredGentle ==
  ASSUME NEW a \in AppState, NEW id
  PROVE  LET b == RequestOver(a, id)
         IN  /\ Gentle(a, b) /\ b \in AppState
             /\ b.log = a.log /\ b.pending = a.pending \ {id}
             /\ b.connection = a.connection /\ b.process = a.process
             /\ b.open = a.open /\ b.client = a.client /\ b.turn = a.turn
             /\ b.transport = a.transport /\ b.inbox = a.inbox
             /\ b.session_ready = a.session_ready
             /\ b.requires_reconciliation = a.requires_reconciliation
             /\ b.saved = a.saved /\ b.recovery_attempted = a.recovery_attempted
             /\ b.deadlines = a.deadlines \ {id}
             /\ b.shutdown_timer = a.shutdown_timer
             /\ SameChat(a, b)
<1> DEFINE set(p, d) == [a EXCEPT !.pending = p, !.deadlines = d]
           b == set(a.pending \ {id}, a.deadlines \ {id})
<1>1. /\ a.pending \ {id} \in SUBSET Nat /\ a.deadlines \ {id} \in SUBSET Nat
  BY DEF AppState
<1>2. ASSUME NEW p \in SUBSET Nat, NEW d \in SUBSET Nat
      PROVE  LET c == set(p, d)
             IN  /\ c \in AppState
             /\ c.log = a.log /\ c.pending = p /\ c.deadlines = d
             /\ c.connection = a.connection /\ c.process = a.process
             /\ c.open = a.open /\ c.client = a.client /\ c.turn = a.turn
             /\ c.transport = a.transport /\ c.inbox = a.inbox
             /\ c.session_ready = a.session_ready
             /\ c.requires_reconciliation = a.requires_reconciliation
             /\ c.saved = a.saved /\ c.recovery_attempted = a.recovery_attempted
             /\ c.shutdown_timer = a.shutdown_timer
             /\ SameChat(a, c)
  <2>1. set(p, d) \in AppState
    BY DEF AppState
  <2> QED BY <2>1 DEF AppState, SameChat
<1>3. RequestOver(a, id) = b
  BY DEF RequestOver, AppState
<1> HIDE DEF set
<1>4. /\ b \in AppState
      /\ b.log = a.log /\ b.pending = a.pending \ {id}
      /\ b.deadlines = a.deadlines \ {id}
      /\ b.connection = a.connection /\ b.process = a.process
      /\ b.open = a.open /\ b.client = a.client /\ b.turn = a.turn
      /\ b.transport = a.transport /\ b.inbox = a.inbox
      /\ b.session_ready = a.session_ready
      /\ b.requires_reconciliation = a.requires_reconciliation
      /\ b.saved = a.saved /\ b.recovery_attempted = a.recovery_attempted
      /\ b.shutdown_timer = a.shutdown_timer
      /\ SameChat(a, b)
  BY <1>1, <1>2
<1> HIDE DEF b
<1>5. Chat(a) => Chat(b) /\ StaysUncertain(a, b)
  <2>1. Named(a) => Named(b)
    BY <1>4 DEF SameChat, Named, Written
  <2>2. Tracked(a) => Tracked(b)
    BY <1>4 DEF SameChat, Tracked
  <2>3. Closed(a) => Closed(b)
    BY <1>4 DEF SameChat, Closed
  <2>4. StaysUncertain(a, b)
    BY <1>4 DEF StaysUncertain, SameChat
  <2> QED BY <2>1, <2>2, <2>3, <2>4 DEF Chat
<1>6. Gentle(a, b)
  BY <1>4, <1>5 DEF Gentle, Calm, Wanes, SameBlock, KeepsPhase
<1> QED BY <1>3, <1>4, <1>6

-----------------------------------------------------------------------------
\* Failing

\* What is left of the link when only the controller's state changes.
SameWire(a, b) ==
    /\ b.log = a.log /\ b.inbox = a.inbox /\ b.pending = a.pending
    /\ b.client = a.client /\ b.process = a.process /\ b.transport = a.transport
    /\ b.open = a.open /\ b.saved = a.saved
    /\ b.recovery_attempted = a.recovery_attempted
    /\ b.requires_reconciliation = a.requires_reconciliation
    /\ b.shutdown_timer = a.shutdown_timer

\* The connection ends in the controller only: nothing else is disturbed.
LEMMA EndedCalm ==
  ASSUME NEW a, NEW b, SameWire(a, b), SameChat(a, b),
         b.connection \in {"disconnected", "stopping", "failed"}
  PROVE  Calm(a, b)
<1>1. Named(a) => Named(b)
  BY DEF SameWire, SameChat, Named, Written
<1>2. Tracked(b)
  BY DEF Tracked
<1>3. Closed(a) => Closed(b)
  BY DEF SameWire, SameChat, Closed
<1>4. StaysUncertain(a, b)
  BY DEF StaysUncertain, SameChat
<1>5. Wanes(a, b) /\ SameBlock(a, b)
  BY <1>1, <1>2, <1>3, <1>4 DEF Wanes, SameBlock, SameWire, Chat
<1> QED BY <1>5, WanesCalm

\* The close coordinator's reaction does not touch the link.
LEMMA StateChangedWire ==
  ASSUME NEW a \in AppState
  PROVE  SameWire(a, StateChanged(a))
BY DEF StateChanged, Complete, AppState, SameWire

\* AgentController._fail
LEMMA FailCalm ==
  ASSUME NEW a \in AppState
  PROVE  /\ Calm(a, Fail(a)) /\ Fail(a) \in AppState
         /\ Fail(a).connection = "failed"
         /\ SameWire(a, Fail(a)) /\ Fail(a).deadlines = a.deadlines
         /\ Fail(a).watch = a.watch /\ Fail(a).turn = a.turn
         /\ SameChat(a, Fail(a))
<1> DEFINE b == [a EXCEPT !.inactivity_warning = FALSE,
                          !.last_error = TRUE,
                          !.connection = "failed",
                          !.session_ready = FALSE]
<1>1. b \in AppState
  BY DEF AppState, ConnectionState
<1>2. /\ SameWire(a, b) /\ b.connection = "failed" /\ SameChat(a, b)
      /\ b.deadlines = a.deadlines /\ b.watch = a.watch /\ b.turn = a.turn
  BY DEF AppState, SameWire, SameChat
<1>3. Fail(a) = StateChanged(b)
  BY DEF Fail
<1> HIDE DEF b
<1>4. Calm(a, b)
  BY <1>2, EndedCalm
<1>5. /\ StateChanged(b) \in AppState
      /\ StateChanged(b).connection = "failed"
      /\ SameWire(b, StateChanged(b)) /\ StateChanged(b).deadlines = b.deadlines
      /\ StateChanged(b).watch = b.watch /\ StateChanged(b).turn = b.turn
  BY <1>1, <1>2, StateChangedFrame, StateChangedWire DEF SameLink
<1>6. Calm(b, StateChanged(b))
  BY <1>1, StateChangedUntouched, UntouchedCalm
<1>7. SameWire(a, StateChanged(b))
  BY <1>2, <1>5 DEF SameWire
<1>8. SameChat(a, StateChanged(b))
  BY <1>1, <1>2, StateChangedUntouched DEF Untouched, SameChat
<1> QED BY <1>2, <1>3, <1>4, <1>5, <1>6, <1>7, <1>8, CalmTrans

\* Without a set-up under way, a failure leaves the requests in order.
LEMMA FailGentle ==
  ASSUME NEW a \in AppState, LinkOver(a)
  PROVE  Gentle(a, Fail(a)) /\ LinkOver(Fail(a))
<1>1. LinkOver(Fail(a))
  BY FailCalm DEF LinkOver, Hydrating, SameWire
<1> QED BY <1>1, FailCalm DEF Gentle

\* AgentTurnFailedError reaches AgentController._on_client_error.
LEMMA TurnFailsGentle ==
  ASSUME NEW a \in AppState, LinkOver(a)
  PROVE  Gentle(a, TurnFails(a)) /\ TurnFails(a) \in AppState
<1> DEFINE b == SetTurn(a, "failed")
           c == MarkActiveTurnFailed(b)
<1>1. b \in AppState /\ Gentle(a, b)
  BY SetTurnUntouched, UntouchedGentle DEF TurnState
<1>2. LinkOver(b)
  <2>1. Untouched(a, b)
    BY SetTurnUntouched DEF TurnState
  <2> HIDE DEF b
  <2> QED BY <2>1 DEF Untouched, SameRequests, LinkOver, Hydrating
<1> HIDE DEF b
<1>3. c \in AppState /\ Gentle(b, c)
  BY <1>1, MarkActiveTurnFailedSame, MarkActiveTurnFailedGentle DEF Silent, SameLink
<1> HIDE DEF c
<1>4. LinkOver(c)
  <2>1. Hydrating(c) \subseteq Hydrating(b)
    BY <1>3 DEF Gentle, Calm, Wanes, Hydrating
  <2> QED BY <1>2, <1>3, <2>1 DEF Gentle, Calm, Wanes, LinkOver
<1>5. Gentle(c, Fail(c)) /\ Fail(c) \in AppState
  BY <1>3, <1>4, FailGentle, FailCalm
<1> QED BY <1>1, <1>3, <1>5, GentleTrans DEF TurnFails, b, c

\* AgentClient._on_record for an event: only a turn that was started can fail.
LEMMA ClientEventGentle ==
  ASSUME NEW a \in AppState, NEW type, LinkOver(a) \/ type = "extension_error"
  PROVE  Gentle(a, ClientEvent(a, type)) /\ ClientEvent(a, type) \in AppState
<1> DEFINE retry(v) == [a EXCEPT !.auto_retry = v]
<1>0. Untouched(a, a)
  BY DEF Untouched, SameRequests, SameChat
<1>1. ASSUME NEW v \in BOOLEAN
      PROVE  retry(v) \in AppState /\ Untouched(a, retry(v)) /\ Gentle(a, retry(v))
  <2>1. retry(v) \in AppState
    BY DEF AppState
  <2>2. Untouched(a, retry(v))
    BY FlagsUntouched
  <2> QED BY <2>1, <2>2, UntouchedGentle
<1>2. ASSUME NEW t \in TurnState, NEW v \in BOOLEAN
      PROVE  /\ Gentle(a, SetTurn(a, t)) /\ SetTurn(a, t) \in AppState
             /\ Gentle(a, SetTurn(retry(v), t)) /\ SetTurn(retry(v), t) \in AppState
  <2>1. Gentle(a, SetTurn(a, t)) /\ SetTurn(a, t) \in AppState
    BY SetTurnUntouched, UntouchedGentle
  <2>2. retry(v) \in AppState /\ Gentle(a, retry(v))
    BY <1>1
  <2> HIDE DEF retry
  <2>3. Gentle(retry(v), SetTurn(retry(v), t)) /\ SetTurn(retry(v), t) \in AppState
    BY <2>2, SetTurnUntouched, UntouchedGentle
  <2> QED BY <2>1, <2>2, <2>3, GentleTrans
<1>3. ASSUME LinkOver(a), NEW v \in BOOLEAN
      PROVE  /\ Gentle(a, TurnFails(a)) /\ TurnFails(a) \in AppState
             /\ Gentle(a, TurnFails(retry(v))) /\ TurnFails(retry(v)) \in AppState
  <2>1. retry(v) \in AppState /\ Untouched(a, retry(v)) /\ Gentle(a, retry(v))
    BY <1>1
  <2> HIDE DEF retry
  <2>2. LinkOver(retry(v))
    BY <1>3, <2>1 DEF Untouched, SameRequests, LinkOver, Hydrating
  <2> QED BY <1>3, <2>1, <2>2, TurnFailsGentle, GentleTrans
<1>4. {"running", "idle"} \subseteq TurnState
  BY DEF TurnState
<1>5. CASE type \in {"agent_start", "turn_start"}
  <2>1. ClientEvent(a, type) = SetTurn(a, "running")
    BY <1>5 DEF ClientEvent
  <2> QED BY <1>2, <1>4, <2>1
<1>6. CASE type \in {"auto_retry_start", "auto_retry_end"}
  <2>1. ClientEvent(a, type) = retry(TRUE) \/ ClientEvent(a, type) = retry(FALSE)
    BY <1>6 DEF ClientEvent
  <2> HIDE DEF retry
  <2> QED BY <1>1, <2>1
<1>7. CASE type = "auto_retry_failed"
  <2>1. \/ ClientEvent(a, type) = retry(FALSE)
        \/ ClientEvent(a, type) = TurnFails(retry(FALSE))
    BY <1>7 DEF ClientEvent
  <2> HIDE DEF retry
  <2> QED BY <1>1, <1>3, <1>7, <2>1
<1>8. CASE type = "agent_end_error"
  <2>1. ClientEvent(a, type) = a \/ ClientEvent(a, type) = TurnFails(a)
    BY <1>8 DEF ClientEvent
  <2> QED BY <1>0, <1>3, <1>8, <2>1, UntouchedGentle
<1>9. CASE type = "agent_settled"
  <2>1. \/ ClientEvent(a, type) = retry(FALSE)
        \/ ClientEvent(a, type) = SetTurn(retry(FALSE), "idle")
    BY <1>9 DEF ClientEvent
  <2> HIDE DEF retry
  <2> QED BY <1>1, <1>2, <1>4, <2>1
<1>10. CASE type \notin {"agent_start", "turn_start", "auto_retry_start",
                          "auto_retry_end", "auto_retry_failed",
                          "agent_end_error", "agent_settled"}
  <2>1. ClientEvent(a, type) = a
    BY <1>10 DEF ClientEvent
  <2> QED BY <1>0, <2>1, UntouchedGentle
<1> QED BY <1>5, <1>6, <1>7, <1>8, <1>9, <1>10

\* AgentController._on_event
LEMMA ControllerEventGentle ==
  ASSUME NEW a \in AppState, NEW type
  PROVE  Gentle(a, ControllerEvent(a, type))
<1> DEFINE b == ClearInactivityWarning(a)
           e == [b EXCEPT !.last_error = TRUE]
<1>1. b \in AppState /\ Gentle(a, b) /\ Gentle(b, b)
  <2>1. Untouched(b, b)
    BY DEF Untouched, SameRequests, SameChat
  <2> QED BY <2>1, ClearInactivityWarningUntouched, ClearInactivityWarningSame,
             UntouchedGentle DEF Silent, SameLink
<1>2. ControllerEvent(a, type) \in {AppendAssistantDelta(b), FinalizeAssistant(b),
         SettleMessages(b), StateChanged(e), StateChanged(b), b}
  BY Zenon DEF ControllerEvent
<1> HIDE DEF b
<1>3. /\ Gentle(b, AppendAssistantDelta(b)) /\ Gentle(b, FinalizeAssistant(b))
      /\ Gentle(b, SettleMessages(b)) /\ Gentle(b, StateChanged(b))
  BY <1>1, AppendAssistantDeltaGentle, FinalizeAssistantGentle,
     SettleMessagesGentle, StateChangedUntouched, UntouchedGentle
<1>4. Gentle(b, StateChanged(e))
  <2>1. e \in AppState
    BY <1>1 DEF AppState
  <2>2. Gentle(b, e)
    BY <1>1, FlagsUntouched, UntouchedGentle
  <2> HIDE DEF e
  <2> QED BY <2>1, <2>2, StateChangedUntouched, UntouchedGentle, GentleTrans
<1>5. Gentle(b, ControllerEvent(a, type))
  BY <1>1, <1>2, <1>3, <1>4
<1> QED BY <1>1, <1>5, GentleTrans

\* AgentClient._note_activity
LEMMA NoteActivityGentle ==
  ASSUME NEW a \in AppState
  PROVE  Gentle(a, NoteActivity(a)) /\ NoteActivity(a) \in AppState
<1>1. [a EXCEPT !.watch = TRUE] \in AppState
  BY DEF AppState
<1> QED BY <1>1, NoteActivityUntouched, UntouchedGentle DEF NoteActivity

\* An event of Pi writes nothing and keeps every message in order.
LEMMA OnEventGentle ==
  ASSUME NEW a \in AppState, NEW type, LinkOver(a) \/ type = "extension_error"
  PROVE  Gentle(a, OnEvent(a, type))
<1> DEFINE b == ClientEvent(a, type)
           c == NoteActivity(b)
<1>1. b \in AppState /\ Gentle(a, b)
  BY ClientEventGentle
<1> HIDE DEF b
<1>2. c \in AppState /\ Gentle(b, c)
  BY <1>1, NoteActivityGentle
<1> HIDE DEF c
<1>3. Gentle(c, ControllerEvent(c, type))
  BY <1>2, ControllerEventGentle
<1> QED BY <1>1, <1>2, <1>3, GentleTrans DEF OnEvent, b, c

-----------------------------------------------------------------------------
\* QProcessAgentTransport: stopping and failing

\* Requests only shrink, whatever becomes of the connection.
Sinks(a, b) == Wanes(a, b) /\ SameBlock(a, b)

\* Two such handlers in a row.
LEMMA SinksTrans ==
  ASSUME NEW a, NEW b, NEW c, Sinks(a, b), Sinks(b, c)
  PROVE  Sinks(a, c)
BY WanesTrans DEF Sinks

\* A gentle handler is one of them.
LEMMA GentleSinks ==
  ASSUME NEW a, NEW b, Gentle(a, b)
  PROVE  Sinks(a, b)
BY DEF Gentle, Calm, Sinks

\* A link that is over at the end, on a connection that is over.
LEMMA SinksGentle ==
  ASSUME NEW a, NEW b, Sinks(a, b), LinkOver(b),
         b.connection \in {"disconnected", "stopping", "failed"}
  PROVE  Gentle(a, b)
BY WanesCalm DEF Gentle, Sinks

\* The transport's own state means nothing to the requests.
LEMMA TransportFieldSinks ==
  ASSUME NEW a \in AppState, NEW t \in TransportState
  PROVE  LET b == [a EXCEPT !.transport = t]
         IN  /\ Sinks(a, b) /\ b \in AppState
             /\ b.pending = a.pending /\ b.process = a.process /\ b.open = a.open
             /\ b.client = a.client /\ b.connection = a.connection
             /\ b.transport = t /\ b.turn = a.turn
<1> DEFINE b == [a EXCEPT !.transport = t]
<1>1. b \in AppState
  BY DEF AppState
<1>2. /\ b.log = a.log /\ b.inbox = a.inbox /\ b.pending = a.pending
      /\ b.client = a.client /\ b.connection = a.connection
      /\ b.session_ready = a.session_ready
      /\ b.recovery_attempted = a.recovery_attempted
      /\ b.requires_reconciliation = a.requires_reconciliation
      /\ b.saved = a.saved /\ b.process = a.process
      /\ b.open = a.open /\ b.shutdown_timer = a.shutdown_timer
      /\ b.transport = t /\ b.turn = a.turn
      /\ SameChat(a, b)
  BY DEF AppState, SameChat
<1> HIDE DEF b
<1>3. Named(a) => Named(b)
  BY <1>2 DEF SameChat, Named, Written
<1>4. Tracked(a) => Tracked(b)
  BY <1>2 DEF SameChat, Tracked
<1>5. Closed(a) => Closed(b)
  BY <1>2 DEF SameChat, Closed
<1>6. StaysUncertain(a, b)
  BY <1>2 DEF StaysUncertain, SameChat
<1>7. Sinks(a, b)
  BY <1>2, <1>3, <1>4, <1>5, <1>6 DEF Sinks, Wanes, SameBlock, Chat
<1> QED BY <1>1, <1>2, <1>7 DEF b

\* AgentController._on_transport_state for STOPPED
LEMMA OnTransportStoppedSinks ==
  ASSUME NEW a \in AppState
  PROVE  LET b == OnTransportStopped(a)
         IN  /\ Sinks(a, b) /\ b \in AppState
             /\ ~b.client /\ b.pending = a.pending
             /\ b.process = a.process /\ b.transport = a.transport
             /\ b.connection \in {"disconnected", "failed"}
<1> DEFINE Remains(x, y) ==
               /\ y.log = x.log /\ y.inbox = x.inbox /\ y.pending = x.pending
               /\ y.process = x.process /\ y.open = x.open
               /\ y.transport = x.transport
               /\ y.shutdown_timer = x.shutdown_timer
               /\ y.messages = x.messages
           c(d) == [d EXCEPT
                    !.session_ready = FALSE, !.requested = NoSession,
                    !.recovery_attempted = FALSE,
                    !.active_user = 0, !.active_assistant = 0]
           e(d) == [d EXCEPT
                    !.prompt_requests = {}, !.client = FALSE,
                    !.requires_reconciliation = FALSE,
                    !.inactivity_warning = FALSE]
           f(d, k) == [d EXCEPT !.connection = k, !.disconnect_requested = FALSE]
           g(k) == f(e(c(a)), k)
<1>1. /\ c(a) \in AppState /\ Remains(a, c(a))
      /\ c(a).active_user = 0 /\ c(a).active_assistant = 0
  <2>1. c(a) \in AppState
    BY DEF AppState
  <2> QED BY <2>1 DEF AppState
<1>2. ASSUME NEW d \in AppState
      PROVE  /\ e(d) \in AppState /\ Remains(d, e(d))
             /\ ~e(d).client /\ e(d).prompt_requests = {}
             /\ e(d).active_user = d.active_user
             /\ e(d).active_assistant = d.active_assistant
  <2>1. e(d) \in AppState
    BY DEF AppState
  <2> QED BY <2>1 DEF AppState
<1>3. ASSUME NEW d \in AppState, NEW k \in {"disconnected", "failed"}
      PROVE  /\ f(d, k) \in AppState /\ Remains(d, f(d, k))
             /\ f(d, k).client = d.client
             /\ f(d, k).prompt_requests = d.prompt_requests
             /\ f(d, k).active_user = d.active_user
             /\ f(d, k).active_assistant = d.active_assistant
             /\ f(d, k).connection = k
  <2>1. k \in ConnectionState
    BY DEF ConnectionState
  <2>2. f(d, k) \in AppState
    BY <2>1 DEF AppState
  <2> QED BY <2>2 DEF AppState
<1>4. \/ OnTransportStopped(a) = StateChanged(g("disconnected"))
      \/ OnTransportStopped(a) = StateChanged(g("failed"))
  BY Zenon DEF OnTransportStopped
<1>5. ASSUME NEW k \in {"disconnected", "failed"}
      PROVE  /\ g(k) \in AppState /\ Remains(a, g(k))
             /\ ~g(k).client /\ g(k).prompt_requests = {}
             /\ g(k).active_user = 0 /\ g(k).active_assistant = 0
             /\ g(k).connection = k
  <2> HIDE DEF c, e, f
  <2> QED BY <1>1, <1>2, <1>3
<1> HIDE DEF g
<1>6. PICK k \in {"disconnected", "failed"} :
          OnTransportStopped(a) = StateChanged(g(k))
  BY <1>4
<1>7. Sinks(a, g(k))
  <2>1. Named(g(k))
    BY <1>5 DEF Named
  <2>2. Tracked(g(k))
    BY <1>5 DEF Tracked
  <2>3. Closed(a) => Closed(g(k))
    <3>1. \A i \in DOMAIN a.messages : i # 0
      BY DEF AppState
    <3> QED BY <1>5, <3>1 DEF Closed
  <2>4. StaysUncertain(a, g(k))
    BY <1>5 DEF StaysUncertain
  <2> QED BY <1>5, <2>1, <2>2, <2>3, <2>4 DEF Sinks, Wanes, SameBlock, Chat
<1>8. Sinks(g(k), StateChanged(g(k)))
  BY <1>5, StateChangedUntouched, UntouchedGentle, GentleSinks
<1>9. /\ StateChanged(g(k)) \in AppState
      /\ SameWire(g(k), StateChanged(g(k)))
      /\ StateChanged(g(k)).connection = k
  BY <1>5, StateChangedFrame, StateChangedWire DEF SameLink
<1> QED BY <1>5, <1>6, <1>7, <1>8, <1>9, SinksTrans DEF SameWire

\* The transport reaches STOPPED, with all its callbacks: connection and requests
\* end with it.
LEMMA SetStoppedEnds ==
  ASSUME NEW a \in AppState, a.process # "starting", a.transport # "stopped"
  PROVE  LET b == SetStopped(a)
         IN  /\ Gentle(a, b) /\ b \in AppState /\ b.transport = "stopped"
             /\ b.pending = {} /\ b.process = a.process
             /\ b.connection \in {"disconnected", "failed"}
<1> DEFINE b == [a EXCEPT !.transport = "stopped"]
           c == DropRequests(b)
           d == IF c.turn = "failed" THEN c ELSE SetTurn(c, "idle")
           e == OnTransportStopped(d)
<1>1. Sinks(a, b) /\ b \in AppState /\ b.process = a.process /\ b.transport = "stopped"
  BY TransportFieldSinks DEF TransportState
<1> HIDE DEF b
<1>2. Sinks(b, c) /\ c \in AppState /\ c.pending = {} /\ c.process = b.process
      /\ c.transport = b.transport
  BY <1>1, DropRequestsCalm, DropRequestsFrame DEF Calm, Sinks, SameProcess
<1> HIDE DEF c
<1>3. Sinks(c, d) /\ d \in AppState /\ d.pending = {} /\ d.process = c.process
      /\ d.transport = c.transport
  <2>1. CASE c.turn = "failed"
    <3>1. d = c /\ Untouched(c, c)
      BY <2>1 DEF Untouched, SameRequests, SameChat
    <3> QED BY <1>2, <3>1, UntouchedGentle, GentleSinks
  <2>2. CASE c.turn # "failed"
    <3>1. d \in AppState /\ Untouched(c, d)
      BY <1>2, <2>2, SetTurnUntouched DEF TurnState
    <3> QED BY <1>2, <3>1, UntouchedGentle, GentleSinks DEF Untouched, SameRequests
  <2> QED BY <2>1, <2>2
<1> HIDE DEF d
<1>4. /\ Sinks(d, e) /\ e \in AppState /\ e.pending = {} /\ e.process = d.process
      /\ e.transport = d.transport
      /\ e.connection \in {"disconnected", "failed"}
  BY <1>3, OnTransportStoppedSinks
<1>5. SetStopped(a) = e
  BY DEF SetStopped, TransportStopped, b, c, d
<1> HIDE DEF e
<1>6. Sinks(a, e)
  BY <1>1, <1>2, <1>3, <1>4, SinksTrans
<1>7. LinkOver(e)
  BY <1>1, <1>2, <1>3, <1>4 DEF LinkOver, Hydrating
<1> QED BY <1>1, <1>2, <1>3, <1>4, <1>5, <1>6, <1>7, SinksGentle

\* Reaching STOPPED a second time is silent.
LEMMA SetStoppedGentle ==
  ASSUME NEW a \in AppState, a.process # "starting"
  PROVE  /\ Gentle(a, SetStopped(a)) /\ SetStopped(a) \in AppState
         /\ SetStopped(a).transport = "stopped"
<1>1. CASE a.transport = "stopped"
  <2>1. SetStopped(a) = a /\ Untouched(a, a)
    BY <1>1 DEF SetStopped, Untouched, SameRequests, SameChat
  <2> QED BY <1>1, <2>1, UntouchedGentle
<1>2. CASE a.transport # "stopped"
  BY <1>2, SetStoppedEnds
<1> QED BY <1>1, <1>2

\* The transport reaches STOPPING, with all its callbacks.
LEMMA SetStoppingSinks ==
  ASSUME NEW a \in AppState
  PROVE  LET b == SetStopping(a)
         IN  /\ Sinks(a, b) /\ b \in AppState
             /\ b.pending = a.pending /\ b.process = a.process
             /\ b.transport = "stopping" /\ b.client = a.client
             /\ b.connection = "stopping" \/ b = a
<1>1. CASE a.transport = "stopping"
  <2>1. SetStopping(a) = a /\ Untouched(a, a)
    BY <1>1 DEF SetStopping, Untouched, SameRequests, SameChat
  <2> QED BY <1>1, <2>1, UntouchedGentle, GentleSinks
<1>2. CASE a.transport # "stopping"
  <2> DEFINE b == [a EXCEPT !.transport = "stopping"]
             c == [b EXCEPT !.connection = "stopping"]
             d == StateChanged(c)
  <2>1. /\ Sinks(a, b) /\ b \in AppState /\ b.process = a.process
        /\ b.pending = a.pending /\ b.transport = "stopping" /\ b.client = a.client
    BY TransportFieldSinks DEF TransportState
  <2> HIDE DEF b
  <2>2. c \in AppState
    <3>1. "stopping" \in ConnectionState
      BY DEF ConnectionState
    <3> QED BY <2>1, <3>1 DEF AppState
  <2>3. SameWire(b, c) /\ SameChat(b, c) /\ c.connection = "stopping"
    BY <2>1 DEF AppState, SameWire, SameChat
  <2> HIDE DEF c
  <2>4. Sinks(b, c)
    BY <2>3, EndedCalm DEF Calm, Sinks
  <2>5. /\ d \in AppState /\ d.connection = "stopping" /\ SameWire(c, d)
        /\ Sinks(c, d)
    BY <2>2, <2>3, StateChangedFrame, StateChangedWire, StateChangedUntouched,
       UntouchedGentle, GentleSinks DEF SameLink
  <2>6. SetStopping(a) = d
    BY <1>2 DEF SetStopping, OnTransportStopping, b, c
  <2> HIDE DEF d
  <2> QED BY <2>1, <2>3, <2>4, <2>5, <2>6, SinksTrans DEF SameWire
<1> QED BY <1>1, <1>2

\* RpcTransport.stop, when no request waits any more.
LEMMA TransportStopGentle ==
  ASSUME NEW a \in AppState, a.pending = {}, a.connection # "ready"
  PROVE  LET b == TransportStop(a)
         IN  /\ Gentle(a, b) /\ b \in AppState /\ b.pending = {} /\ LinkOver(b)
             /\ b.transport \in {"stopped", "stopping"}
<1> DEFINE b == [a EXCEPT !.startup_timer = FALSE]
<1>1. /\ b \in AppState /\ Gentle(a, b) /\ b.pending = {}
      /\ b.process = a.process /\ b.connection # "ready"
  <2>1. b \in AppState
    BY DEF AppState
  <2>2. Untouched(a, b)
    BY FlagsUntouched
  <2> HIDE DEF b
  <2> QED BY <2>1, <2>2, UntouchedGentle DEF Untouched, SameRequests
<1>2. CASE b.process = "not-running"
  <2>1. TransportStop(a) = SetStopped(b)
    BY <1>2 DEF TransportStop
  <2> HIDE DEF b
  <2>2. /\ Gentle(b, SetStopped(b)) /\ SetStopped(b) \in AppState
        /\ SetStopped(b).transport = "stopped"
    BY <1>1, <1>2, SetStoppedGentle
  <2>3. SetStopped(b).pending = {} /\ SetStopped(b).process # "starting"
    BY <1>1, <1>2, <2>2 DEF Gentle, Calm, Wanes
  <2>4. LinkOver(SetStopped(b))
    BY <2>3 DEF LinkOver, Hydrating
  <2> QED BY <1>1, <2>1, <2>2, <2>3, <2>4, GentleTrans
<1>3. CASE b.process # "not-running"
  <2> DEFINE c == SetStopping(b)
             s == IF c.signal = "kill" THEN c.signal ELSE "term"
             set(v) == [c EXCEPT !.open = FALSE, !.signal = v, !.shutdown_timer = TRUE]
             d == set(s)
  <2>1. /\ Sinks(b, c) /\ c \in AppState /\ c.pending = {}
        /\ c.transport = "stopping"
        /\ c.connection = "stopping" \/ c = b
    BY <1>1, SetStoppingSinks
  <2>2. TransportStop(a) = [c EXCEPT !.open = FALSE,
              !.signal = IF @ = "kill" THEN @ ELSE "term", !.shutdown_timer = TRUE]
    BY <1>3 DEF TransportStop
  <2> HIDE DEF c
  <2>3. TransportStop(a) = d
    BY <2>1, <2>2 DEF AppState
  <2>4. s \in {"none", "term", "kill"}
    BY DEF AppState
  <2>5. ASSUME NEW v \in {"none", "term", "kill"}
        PROVE  /\ set(v) \in AppState /\ ~set(v).open /\ SameChat(c, set(v))
               /\ set(v).log = c.log /\ set(v).inbox = c.inbox
               /\ set(v).pending = c.pending /\ set(v).client = c.client
               /\ set(v).process = c.process /\ set(v).transport = c.transport
               /\ set(v).connection = c.connection /\ set(v).saved = c.saved
               /\ set(v).session_ready = c.session_ready
               /\ set(v).recovery_attempted = c.recovery_attempted
               /\ set(v).requires_reconciliation = c.requires_reconciliation
    <3>1. set(v) \in AppState
      BY <2>1 DEF AppState
    <3> QED BY <2>1, <3>1 DEF AppState, SameChat
  <2> HIDE DEF s, set
  <2>6. /\ d \in AppState /\ ~d.open /\ SameChat(c, d)
        /\ d.log = c.log /\ d.inbox = c.inbox
        /\ d.pending = c.pending /\ d.client = c.client
        /\ d.process = c.process /\ d.transport = c.transport
        /\ d.connection = c.connection /\ d.saved = c.saved
        /\ d.session_ready = c.session_ready
        /\ d.recovery_attempted = c.recovery_attempted
        /\ d.requires_reconciliation = c.requires_reconciliation
    BY <2>4, <2>5
  <2> HIDE DEF d
  <2>7. Sinks(c, d)
    <3>1. Named(c) => Named(d)
      BY <2>6 DEF SameChat, Named, Written
    <3>2. Tracked(c) => Tracked(d)
      BY <2>6 DEF SameChat, Tracked
    <3>3. Closed(c) => Closed(d)
      BY <2>6 DEF SameChat, Closed
    <3>4. StaysUncertain(c, d)
      BY <2>6 DEF StaysUncertain, SameChat
    <3> QED BY <2>1, <2>6, <3>1, <3>2, <3>3, <3>4 DEF Sinks, Wanes, SameBlock, Chat
  <2>8. LinkOver(d) /\ d.pending = {}
    BY <2>1, <2>6 DEF LinkOver, Hydrating
  <2>9. Sinks(b, d)
    BY <2>1, <2>7, SinksTrans
  <2>10. KeepsPhase(b, d)
    BY <1>1, <2>1, <2>6 DEF KeepsPhase
  <2>11. Gentle(b, d)
    BY <2>8, <2>9, <2>10 DEF Sinks, Gentle, Calm
  <2> QED BY <1>1, <2>1, <2>3, <2>6, <2>8, <2>11, GentleTrans
<1> QED BY <1>2, <1>3

\* AgentClient.shutdown
LEMMA ClientShutdownGentle ==
  ASSUME NEW a \in AppState, a.connection # "ready"
  PROVE  LET b == ClientShutdown(a)
         IN  /\ Gentle(a, b) /\ b \in AppState /\ b.pending = {} /\ LinkOver(b)
             /\ b.transport \in {"stopped", "stopping"}
<1> DEFINE b == DropRequests(a)
<1>1. /\ Gentle(a, b) /\ b \in AppState /\ b.pending = {}
      /\ b.connection # "ready"
  BY DropRequestsCalm DEF Gentle
<1>2. ClientShutdown(a) = TransportStop(b)
  BY DEF ClientShutdown
<1> HIDE DEF b
<1> QED BY <1>1, <1>2, TransportStopGentle, GentleTrans

\* AgentController._fail_and_stop
LEMMA FailAndStopGentle ==
  ASSUME NEW a \in AppState, a.client
  PROVE  LET b == FailAndStop(a)
         IN  /\ Gentle(a, b) /\ b \in AppState /\ b.pending = {} /\ LinkOver(b)
             /\ b.transport \in {"stopped", "stopping"}
<1> DEFINE b == Fail(a)
           c == [b EXCEPT !.disconnect_requested = FALSE]
           d == ClientShutdown(c)
<1>1. Calm(a, b) /\ b \in AppState /\ b.connection = "failed" /\ b.client
  BY FailCalm DEF SameWire
<1>2. FailAndStop(a) = d
  BY <1>1 DEF FailAndStop
<1> HIDE DEF b
<1>3. c \in AppState /\ Untouched(b, c)
  <2>1. c \in AppState
    BY <1>1 DEF AppState
  <2> QED BY <1>1, <2>1, FlagsUntouched
<1>4. c.connection = "failed" /\ Calm(b, c)
  BY <1>1, <1>3, UntouchedCalm DEF Untouched, SameRequests
<1> HIDE DEF c
<1>5. /\ Gentle(c, d) /\ d \in AppState /\ d.pending = {} /\ LinkOver(d)
      /\ d.transport \in {"stopped", "stopping"}
  BY <1>3, <1>4, ClientShutdownGentle
<1> HIDE DEF d
<1>6. Calm(a, d)
  BY <1>1, <1>4, <1>5, CalmTrans DEF Gentle
<1> QED BY <1>2, <1>5, <1>6 DEF Gentle

\* The transport reaches FAILED, with all its callbacks.
LEMMA SetFailedSinks ==
  ASSUME NEW a \in AppState, a.transport = "failed" => a.pending = {}
  PROVE  LET b == SetFailed(a)
         IN  /\ Sinks(a, b) /\ b \in AppState
             /\ b.pending = {} /\ b.process = a.process
             /\ b.transport = "failed" /\ b.client = a.client
<1>1. CASE a.transport = "failed"
  <2>1. SetFailed(a) = a /\ Untouched(a, a)
    BY <1>1 DEF SetFailed, Untouched, SameRequests, SameChat
  <2> QED BY <1>1, <2>1, UntouchedGentle, GentleSinks
<1>2. CASE a.transport # "failed"
  <2> DEFINE b == [a EXCEPT !.transport = "failed"]
             c == DropRequests(b)
             d == SetTurn(c, "failed")
             e == [d EXCEPT !.connection = "failed", !.session_ready = FALSE]
             f == StateChanged(e)
  <2>1. Sinks(a, b) /\ b \in AppState /\ b.process = a.process
        /\ b.transport = "failed" /\ b.client = a.client
    BY TransportFieldSinks DEF TransportState
  <2> HIDE DEF b
  <2>2. Sinks(b, c) /\ c \in AppState /\ c.pending = {} /\ c.process = b.process
        /\ c.transport = b.transport /\ c.client = b.client
    BY <2>1, DropRequestsCalm, DropRequestsFrame DEF Calm, Sinks, SameProcess
  <2> HIDE DEF c
  <2>3. /\ Sinks(c, d) /\ d \in AppState /\ d.pending = {} /\ d.process = c.process
        /\ d.transport = c.transport /\ d.client = c.client
    <3>1. d \in AppState /\ Untouched(c, d)
      BY <2>2, SetTurnUntouched DEF TurnState
    <3> QED BY <2>2, <3>1, UntouchedGentle, GentleSinks DEF Untouched, SameRequests
  <2> HIDE DEF d
  <2>4. e \in AppState
    <3>1. "failed" \in ConnectionState
      BY DEF ConnectionState
    <3> QED BY <2>3, <3>1 DEF AppState
  <2>5. SameWire(d, e) /\ SameChat(d, e) /\ e.connection = "failed"
    BY <2>3 DEF AppState, SameWire, SameChat
  <2> HIDE DEF e
  <2>6. Sinks(d, e)
    BY <2>5, EndedCalm DEF Calm, Sinks
  <2>7. /\ f \in AppState /\ SameWire(e, f) /\ Sinks(e, f)
    BY <2>4, StateChangedFrame, StateChangedWire, StateChangedUntouched,
       UntouchedGentle, GentleSinks DEF SameLink
  <2>8. SetFailed(a) = f
    BY <1>2 DEF SetFailed, TransportFailed, OnTransportFailed, b, c, d, e
  <2> HIDE DEF f
  <2>9. Sinks(a, f)
    BY <2>1, <2>2, <2>3, <2>6, <2>7, SinksTrans
  <2> QED BY <2>1, <2>2, <2>3, <2>5, <2>7, <2>8, <2>9 DEF SameWire
<1> QED BY <1>1, <1>2

\* The error a failed transport reports.
LEMMA ClientTransportErrorCalm ==
  ASSUME NEW a \in AppState
  PROVE  LET b == ClientTransportError(a)
         IN  /\ Calm(a, b) /\ b \in AppState
             /\ b.connection = "failed" /\ b.pending = {}
             /\ b.process = a.process /\ b.transport = a.transport
             /\ b.client = a.client
<1> DEFINE b == DropRequests(a)
           c == IF b.turn = "idle" THEN b ELSE SetTurn(b, "failed")
           d == Fail(c)
<1>1. /\ Calm(a, b) /\ b \in AppState /\ b.pending = {}
      /\ b.process = a.process /\ b.transport = a.transport /\ b.client = a.client
  BY DropRequestsCalm, DropRequestsFrame DEF SameProcess
<1>2. ClientTransportError(a) = d
  BY DEF ClientTransportError
<1> HIDE DEF b
<1>3. Untouched(b, c) /\ c \in AppState
  <2>1. Untouched(b, b)
    BY DEF Untouched, SameRequests, SameChat
  <2> QED BY <1>1, <2>1, SetTurnUntouched DEF TurnState
<1> HIDE DEF c
<1>4. Calm(b, c)
  BY <1>3, UntouchedCalm
<1>5. /\ Calm(c, d) /\ d \in AppState /\ d.connection = "failed" /\ SameWire(c, d)
  BY <1>3, FailCalm
<1> HIDE DEF d
<1>6. Calm(a, d)
  BY <1>1, <1>4, <1>5, CalmTrans
<1> QED BY <1>1, <1>2, <1>3, <1>5, <1>6 DEF Untouched, SameRequests, SameWire

\* RpcTransport._fail: the link is over unless the process still starts and is
\* left alone.
LEMMA TransportFailGentle ==
  ASSUME NEW a \in AppState, a.transport = "failed" => a.pending = {},
         NEW kill \in BOOLEAN, kill \/ a.process # "starting"
  PROVE  LET b == TransportFail(a, kill)
         IN  /\ Gentle(a, b) /\ b \in AppState /\ b.pending = {} /\ LinkOver(b)
             /\ b.transport = "failed" /\ b.client = a.client
             /\ b.process = a.process /\ b.connection = "failed"
<1> DEFINE b == [a EXCEPT !.startup_timer = FALSE, !.shutdown_timer = FALSE]
           c == SetFailed(b)
           d == ClientTransportError(c)
           e == [d EXCEPT !.signal = "kill", !.open = FALSE]
<1>1. /\ Sinks(a, b) /\ b \in AppState /\ (b.transport = "failed" => b.pending = {})
      /\ b.process = a.process /\ b.client = a.client
  <2>1. b \in AppState
    BY DEF AppState
  <2>2. Untouched(a, b)
    BY FlagsUntouched
  <2> HIDE DEF b
  <2> QED BY <2>1, <2>2, UntouchedGentle, GentleSinks DEF Untouched, SameRequests
<1> HIDE DEF b
<1>2. /\ Sinks(b, c) /\ c \in AppState /\ c.process = b.process
      /\ c.transport = "failed" /\ c.client = b.client
  BY <1>1, SetFailedSinks
<1> HIDE DEF c
<1>3. /\ Sinks(c, d) /\ d \in AppState
      /\ d.connection = "failed" /\ d.pending = {}
      /\ d.process = c.process /\ d.transport = "failed" /\ d.client = c.client
  BY <1>2, ClientTransportErrorCalm DEF Calm, Sinks
<1>4. TransportFail(a, kill) =
        IF kill /\ d.process # "not-running" THEN e ELSE d
  BY DEF TransportFail, b, c
<1> HIDE DEF d
<1>5. Sinks(a, d)
  BY <1>1, <1>2, <1>3, SinksTrans
<1>6. CASE kill /\ d.process # "not-running"
  <2>1. e \in AppState
    BY <1>3 DEF AppState
  <2>2. /\ SameChat(d, e) /\ ~e.open
        /\ e.log = d.log /\ e.inbox = d.inbox
        /\ e.pending = d.pending /\ e.client = d.client
        /\ e.process = d.process /\ e.transport = d.transport
        /\ e.connection = d.connection /\ e.saved = d.saved
        /\ e.session_ready = d.session_ready
        /\ e.recovery_attempted = d.recovery_attempted
        /\ e.requires_reconciliation = d.requires_reconciliation
        /\ e.shutdown_timer = d.shutdown_timer
    BY <1>3 DEF AppState, SameChat
  <2> HIDE DEF e
  <2>3. Sinks(d, e)
    <3>1. Named(d) => Named(e)
      BY <2>2 DEF SameChat, Named, Written
    <3>2. Tracked(d) => Tracked(e)
      BY <2>2 DEF SameChat, Tracked
    <3>3. Closed(d) => Closed(e)
      BY <2>2 DEF SameChat, Closed
    <3>4. StaysUncertain(d, e)
      BY <2>2 DEF StaysUncertain, SameChat
    <3> QED BY <1>3, <2>2, <3>1, <3>2, <3>3, <3>4 DEF Sinks, Wanes, SameBlock, Chat
  <2>4. LinkOver(e)
    BY <1>3, <2>2 DEF LinkOver, Hydrating
  <2>5. Gentle(a, e)
    BY <1>3, <1>5, <2>2, <2>3, <2>4, SinksTrans, SinksGentle
  <2> QED BY <1>1, <1>2, <1>3, <1>4, <1>6, <2>1, <2>2, <2>4, <2>5
<1>7. CASE ~(kill /\ d.process # "not-running")
  <2>1. LinkOver(d)
    BY <1>1, <1>2, <1>3, <1>7 DEF LinkOver, Hydrating
  <2>2. Gentle(a, d)
    BY <1>3, <1>5, <2>1, SinksGentle
  <2> QED BY <1>1, <1>2, <1>3, <1>4, <1>7, <2>1, <2>2
<1> QED BY <1>6, <1>7

-----------------------------------------------------------------------------
\* Timers, signals of the process, and operations that write nothing

\* AgentClient._on_inactivity_timeout
LEMMA OnInactivityTimeoutGentle ==
  ASSUME NEW a \in AppState
  PROVE  Gentle(a, OnInactivityTimeout(a))
<1> DEFINE b == [a EXCEPT !.watch = FALSE]
           c == [b EXCEPT !.inactivity_warning = TRUE, !.last_error = TRUE]
<1>1. b \in AppState /\ Gentle(a, b)
  <2>1. b \in AppState
    BY DEF AppState
  <2> QED BY <2>1, FlagsUntouched, UntouchedGentle
<1>2. OnInactivityTimeout(a) \in {b, StateChanged(c)}
  BY Zenon DEF OnInactivityTimeout
<1> HIDE DEF b
<1>3. c \in AppState /\ Gentle(b, c)
  <2>1. c \in AppState
    BY <1>1 DEF AppState
  <2> QED BY <1>1, <2>1, FlagsUntouched, UntouchedGentle
<1> HIDE DEF c
<1>4. Gentle(c, StateChanged(c))
  BY <1>3, StateChangedUntouched, UntouchedGentle
<1> QED BY <1>1, <1>2, <1>3, <1>4, GentleTrans

\* _on_startup_timeout kills a process that did not start.
LEMMA OnStartupTimeoutGentle ==
  ASSUME NEW a \in AppState
  PROVE  Gentle(a, OnStartupTimeout(a))
<1> DEFINE b == [a EXCEPT !.startup_timer = FALSE]
<1>1. b \in AppState /\ Gentle(a, b)
  <2>1. b \in AppState
    BY DEF AppState
  <2> QED BY <2>1, FlagsUntouched, UntouchedGentle
<1>2. OnStartupTimeout(a) = IF b.transport = "starting" THEN TransportFail(b, TRUE) ELSE b
  BY DEF OnStartupTimeout
<1> HIDE DEF b
<1> QED BY <1>1, <1>2, TransportFailGentle, GentleTrans

\* _force_kill: the pipes of a process that is being stopped are closed already.
LEMMA OnShutdownTimeoutGentle ==
  ASSUME NEW a \in AppState, ~a.open
  PROVE  Gentle(a, OnShutdownTimeout(a))
<1> DEFINE b == [a EXCEPT !.shutdown_timer = FALSE]
           c == [b EXCEPT !.signal = "kill", !.open = FALSE]
<1>1. b \in AppState /\ Untouched(a, b)
  <2>1. b \in AppState
    BY DEF AppState
  <2> QED BY <2>1, FlagsUntouched
<1>2. OnShutdownTimeout(a) = IF b.process = "not-running" THEN b ELSE c
  BY DEF OnShutdownTimeout
<1>3. ~b.open
  BY <1>1 DEF Untouched, SameRequests
<1> HIDE DEF b
<1>4. Untouched(b, c)
  <2>1. b.open = FALSE
    BY <1>1, <1>3 DEF AppState
  <2> QED BY <1>1, <2>1 DEF AppState, Untouched, SameRequests, SameChat
<1> QED BY <1>1, <1>2, <1>4, UntouchedGentle, GentleTrans

\* _on_process_error, of a process that was started
LEMMA OnProcessErrorGentle ==
  ASSUME NEW a \in AppState, a.process # "starting", a.transport # "ready" => a.pending = {}
  PROVE  LET b == OnProcessError(a)
         IN  /\ Gentle(a, b) /\ b \in AppState /\ b.pending = {} /\ b.process = a.process
             /\ b.transport \in {"stopping", "failed"}
             /\ a.transport \in {"stopping", "failed"} => b = a
             /\ a.transport \notin {"stopping", "failed"} => b.connection = "failed"
<1>1. CASE a.transport \in {"stopping", "failed"}
  <2>1. OnProcessError(a) = a /\ Untouched(a, a)
    BY <1>1 DEF OnProcessError, Untouched, SameRequests, SameChat
  <2> QED BY <1>1, <2>1, UntouchedGentle
<1>2. CASE a.transport \notin {"stopping", "failed"}
  BY <1>2, TransportFailGentle DEF OnProcessError
<1> QED BY <1>1, <1>2

\* _on_finished: whatever the transport was doing, no request is left.
LEMMA OnFinishedGentle ==
  ASSUME NEW a \in AppState, a.process = "not-running",
         a.transport # "ready" => a.pending = {}, a.transport # "stopped",
         NEW clean \in BOOLEAN, NEW partial \in BOOLEAN
  PROVE  LET b == OnFinished(a, clean, partial)
         IN  /\ Gentle(a, b) /\ b.pending = {} /\ b.process = "not-running"
             /\ b.connection \in {a.connection, "disconnected", "failed"}
             /\ a.transport = "ready" => b.connection \in {"disconnected", "failed"}
<1> DEFINE b == [a EXCEPT !.startup_timer = FALSE, !.shutdown_timer = FALSE]
<1>1. b \in AppState /\ Untouched(a, b) /\ Gentle(a, b)
  <2>1. b \in AppState
    BY DEF AppState
  <2> QED BY <2>1, FlagsUntouched, UntouchedGentle
<1>2. /\ OnFinished(a, clean, partial) \in {SetStopped(b), TransportFail(b, FALSE), b}
      /\ OnFinished(a, clean, partial) = b => b.transport = "failed"
                                              \/ b \in {SetStopped(b), TransportFail(b, FALSE)}
  BY Zenon DEF OnFinished
<1>3. /\ b.process = "not-running" /\ b.transport = a.transport
      /\ b.pending = a.pending /\ b.connection = a.connection
  BY <1>1 DEF Untouched, SameRequests
<1> HIDE DEF b
<1>4. /\ Gentle(b, SetStopped(b)) /\ SetStopped(b).pending = {}
      /\ SetStopped(b).process = "not-running"
      /\ SetStopped(b).connection \in {"disconnected", "failed"}
  BY <1>1, <1>3, SetStoppedEnds
<1>5. /\ Gentle(b, TransportFail(b, FALSE)) /\ TransportFail(b, FALSE).pending = {}
      /\ TransportFail(b, FALSE).process = "not-running"
      /\ TransportFail(b, FALSE).connection = "failed"
  BY <1>1, <1>3, TransportFailGentle
<1>6. ASSUME NEW c \in {SetStopped(b), TransportFail(b, FALSE)}
      PROVE  /\ Gentle(a, c) /\ c.pending = {} /\ c.process = "not-running"
             /\ c.connection \in {"disconnected", "failed"}
  <2>1. /\ Gentle(b, c) /\ c.pending = {} /\ c.process = "not-running"
        /\ c.connection \in {"disconnected", "failed"}
    <3>1. c = SetStopped(b) \/ c = TransportFail(b, FALSE)
      BY <1>6
    <3> QED BY <1>4, <1>5, <3>1
  <2> QED BY <1>1, <2>1, GentleTrans
<1>7. \/ OnFinished(a, clean, partial) = b /\ b.transport = "failed"
      \/ OnFinished(a, clean, partial) \in {SetStopped(b), TransportFail(b, FALSE)}
  BY <1>2
<1>8. b.transport = "failed" => a.transport # "ready" /\ b.pending = {}
  BY <1>3
<1> QED BY <1>1, <1>3, <1>6, <1>7, <1>8

\* What the end of the process takes away: what was written is not read any more.
Gone(a, b) ==
    /\ b.log = a.log /\ b.inbox = {} /\ b.pending = a.pending
    /\ b.client = a.client /\ b.connection = a.connection
    /\ b.session_ready = a.session_ready
    /\ b.recovery_attempted = a.recovery_attempted
    /\ b.requires_reconciliation = a.requires_reconciliation
    /\ b.saved = a.saved /\ b.transport = a.transport
    /\ b.process = "not-running" /\ ~b.open
    /\ b.shutdown_timer = a.shutdown_timer
    /\ SameChat(a, b)

\* The process is gone, and the callbacks that follow leave no request behind.
LEMMA GoneGentle ==
  ASSUME NEW a, NEW b, NEW c, Gone(a, b), Sinks(b, c), c.pending = {},
         a.connection # "ready" \/ c.connection # "ready",
         c.connection \in {a.connection, "disconnected", "failed"}
  PROVE  Gentle(a, c)
<1>1. Chat(a) => Chat(b)
  <2>1. Named(a) => Named(b)
    BY DEF Gone, SameChat, Named, Written
  <2>2. Tracked(a) => Tracked(b)
    BY DEF Gone, SameChat, Tracked
  <2>3. Closed(a) => Closed(b)
    BY DEF Gone, SameChat, Closed
  <2> QED BY <2>1, <2>2, <2>3 DEF Chat
<1>2. StaysUncertain(b, c) => StaysUncertain(a, c)
  BY DEF StaysUncertain, Gone, SameChat
<1>3. Wanes(a, c) /\ SameBlock(a, c)
  BY <1>1, <1>2 DEF Gone, Sinks, Wanes, SameBlock
<1>4. KeepsPhase(a, c)
  BY DEF KeepsPhase
<1>5. LinkOver(c)
  BY DEF LinkOver, Hydrating, Gone, Sinks, Wanes
<1> QED BY <1>3, <1>4, <1>5 DEF Gentle, Calm

\* ProcessGone is such an end.
LEMMA ProcessGoneGone ==
  ASSUME NEW a \in AppState
  PROVE  Gone(a, ProcessGone(a)) /\ ProcessGone(a) \in AppState
<1> DEFINE b == ProcessGone(a)
<1>1. b \in AppState
  BY DEF ProcessGone, AppState
<1> QED BY <1>1 DEF ProcessGone, AppState, Gone, SameChat

\* The process failed to start, ended, or crashed.
LEMMA ProcessEndsGentle ==
  ASSUME NEW a \in AppState,
         a.transport # "ready" => a.pending = {} /\ a.connection # "ready",
         a.transport # "stopped",
         NEW clean \in BOOLEAN, NEW partial \in BOOLEAN
  PROVE  /\ Gentle(a, OnProcessError(ProcessGone(a)))
         /\ Gentle(a, OnFinished(ProcessGone(a), clean, partial))
         /\ Gentle(a, OnFinished(OnProcessError(ProcessGone(a)), clean, partial))
<1> DEFINE b == ProcessGone(a)
           c == OnProcessError(b)
<1>1. /\ Gone(a, b) /\ b \in AppState /\ b.process = "not-running"
      /\ (b.transport # "ready" => b.pending = {} /\ b.connection # "ready")
      /\ b.transport # "stopped"
  BY ProcessGoneGone DEF Gone
<1> HIDE DEF b
<1>2. /\ Gentle(b, c) /\ c \in AppState /\ c.pending = {} /\ c.process = "not-running"
      /\ c.transport \in {"stopping", "failed"}
      /\ c.connection \in {b.connection, "failed"}
      /\ b.transport = "ready" => c.connection = "failed"
  BY <1>1, OnProcessErrorGentle
<1>3. Gentle(a, c)
  <2>1. a.connection # "ready" \/ c.connection # "ready"
    BY <1>1, <1>2 DEF Gone
  <2> QED BY <1>1, <1>2, <2>1, GentleSinks, GoneGentle DEF Gone
<1> HIDE DEF c
<1>4. Gentle(a, OnFinished(b, clean, partial))
  <2> DEFINE d == OnFinished(b, clean, partial)
  <2>1. /\ Gentle(b, d) /\ d.pending = {}
        /\ d.connection \in {b.connection, "disconnected", "failed"}
        /\ b.transport = "ready" => d.connection \in {"disconnected", "failed"}
    BY <1>1, OnFinishedGentle
  <2> HIDE DEF d
  <2>2. a.connection # "ready" \/ d.connection # "ready"
    BY <1>1, <2>1 DEF Gone
  <2>3. Gentle(a, d)
    BY <1>1, <2>1, <2>2, GentleSinks, GoneGentle DEF Gone
  <2> QED BY <2>3 DEF d
<1>5. Gentle(a, OnFinished(c, clean, partial))
  BY <1>2, <1>3, OnFinishedGentle, GentleTrans
<1> QED BY <1>3, <1>4, <1>5 DEF b, c

-----------------------------------------------------------------------------
\* Operations of the user and of main.py that write nothing

\* disconnect_agent
LEMMA DisconnectAgentGentle ==
  ASSUME NEW a \in AppState
  PROVE  Gentle(a, DisconnectAgent(a)) /\ DisconnectAgent(a) \in AppState
<1>1. CASE ~a.client
  <2>1. DisconnectAgent(a) = a /\ Untouched(a, a)
    BY <1>1 DEF DisconnectAgent, Untouched, SameRequests, SameChat
  <2> QED BY <2>1, UntouchedGentle
<1>2. CASE a.client
  <2> DEFINE b == [a EXCEPT !.disconnect_requested = TRUE, !.connection = "stopping"]
             c == StateChanged(b)
             d == ClientShutdown(c)
  <2>1. b \in AppState
    <3>1. "stopping" \in ConnectionState
      BY DEF ConnectionState
    <3> QED BY <3>1 DEF AppState
  <2>2. SameWire(a, b) /\ SameChat(a, b) /\ b.connection = "stopping"
    BY DEF AppState, SameWire, SameChat
  <2>3. DisconnectAgent(a) = d
    BY <1>2 DEF DisconnectAgent
  <2> HIDE DEF b
  <2>4. Calm(a, b)
    BY <2>2, EndedCalm
  <2>5. c \in AppState /\ c.connection = "stopping" /\ Calm(b, c)
    BY <2>1, <2>2, StateChangedFrame, StateChangedUntouched, UntouchedCalm DEF SameLink
  <2> HIDE DEF c
  <2>6. Gentle(c, d) /\ d \in AppState /\ LinkOver(d)
    BY <2>5, ClientShutdownGentle
  <2> HIDE DEF d
  <2>7. Calm(a, d)
    BY <2>4, <2>5, <2>6, CalmTrans DEF Gentle
  <2> QED BY <2>3, <2>6, <2>7 DEF Gentle
<1> QED BY <1>1, <1>2

\* The close coordinator's own fields.
LEMMA CloseFieldsGentle ==
  ASSUME NEW a \in AppState, NEW q \in {"idle", "active", "done", "exited"},
         NEW w \in BOOLEAN
  PROVE  /\ Gentle(a, [a EXCEPT !.quit = q])
         /\ Gentle(a, [a EXCEPT !.watchdog = w])
         /\ Gentle(a, [a EXCEPT !.forced = w])
         /\ Gentle(a, Complete(a))
<1>1. /\ Untouched(a, [a EXCEPT !.quit = q])
      /\ Untouched(a, [a EXCEPT !.watchdog = w])
      /\ Untouched(a, [a EXCEPT !.forced = w])
  BY DEF AppState, Untouched, SameRequests, SameChat
<1>2. Untouched(a, Complete(a))
  BY DEF Complete, AppState, Untouched, SameRequests, SameChat
<1> QED BY <1>1, <1>2, UntouchedGentle

\* AppShutdownCoordinator.request_shutdown
LEMMA RequestShutdownGentle ==
  ASSUME NEW a \in AppState
  PROVE  Gentle(a, RequestShutdown(a))
<1> DEFINE b == [a EXCEPT !.quit = "active"]
           c == DisconnectAgent(b)
           d == [c EXCEPT !.watchdog = TRUE]
<1>1. b \in AppState /\ Gentle(a, b)
  <2>1. b \in AppState
    BY DEF AppState
  <2> QED BY <2>1, CloseFieldsGentle
<1>2. RequestShutdown(a) \in {c, d, Complete(c)}
  BY Zenon DEF RequestShutdown
<1> HIDE DEF b
<1>3. c \in AppState /\ Gentle(b, c)
  BY <1>1, DisconnectAgentGentle
<1> HIDE DEF c
<1>4. Gentle(c, d) /\ Gentle(c, Complete(c))
  BY <1>3, CloseFieldsGentle
<1> HIDE DEF d
<1> QED BY <1>1, <1>2, <1>3, <1>4, GentleTrans

\* AppShutdownCoordinator._force_finish
LEMMA ForceFinishGentle ==
  ASSUME NEW a \in AppState
  PROVE  Gentle(a, ForceFinish(a))
<1> DEFINE b == [a EXCEPT !.forced = TRUE]
<1>1. b \in AppState /\ Gentle(a, b)
  <2>1. b \in AppState
    BY DEF AppState
  <2> QED BY <2>1, CloseFieldsGentle
<1> HIDE DEF b
<1>2. Gentle(b, Complete(b))
  BY <1>1, CloseFieldsGentle
<1> QED BY <1>1, <1>2, GentleTrans DEF ForceFinish, b

\* refresh_profiles
LEMMA RefreshProfilesGentle ==
  ASSUME NEW a \in AppState, NEW p \in BOOLEAN
  PROVE  Gentle(a, RefreshProfiles(a, p))
<1> DEFINE b == [a EXCEPT !.profile = p]
<1>1. b \in AppState /\ Untouched(a, b)
  <2>1. b \in AppState
    BY DEF AppState
  <2> QED BY <2>1 DEF AppState, Untouched, SameRequests, SameChat
<1>2. RefreshProfiles(a, p) = StateChanged(b)
  BY DEF RefreshProfiles
<1> HIDE DEF b
<1> QED BY <1>1, <1>2, StateChangedUntouched, UntouchedGentle, GentleTrans

\* Without a client there is nothing to disturb.
LEMMA UnconnectedGentle ==
  ASSUME NEW a, Detached(a), NEW b, SameChat(a, b),
         b.log = a.log, b.inbox = a.inbox, b.pending = a.pending,
         b.process = a.process, b.open = a.open,
         b.shutdown_timer = a.shutdown_timer, ~b.client,
         b.connection \in {"disconnected", "failed"}
  PROVE  Gentle(a, b)
<1>1. Named(a) => Named(b)
  BY DEF SameChat, Named, Written
<1>2. Tracked(b)
  BY DEF Tracked
<1>3. Closed(a) => Closed(b)
  BY DEF SameChat, Closed
<1>4. StaysUncertain(a, b)
  BY DEF StaysUncertain, SameChat
<1>5. Sinks(a, b)
  BY <1>1, <1>2, <1>3, <1>4 DEF Sinks, Wanes, SameBlock, Chat
<1>6. LinkOver(b)
  BY DEF Detached, LinkOver, Hydrating
<1> QED BY <1>5, <1>6, SinksGentle

\* set_workspace
LEMMA SetWorkspaceGentle ==
  ASSUME NEW a, Sound(a), ~a.client, NEW w \in Workspaces, NEW p \in BOOLEAN
  PROVE  Gentle(a, SetWorkspace(a, w, p))
<1> DEFINE s == IF a.workspace = w THEN a.saved ELSE NoSession
           set(x) == [a EXCEPT !.saved = x, !.workspace = w, !.profile = p,
                               !.last_error = FALSE, !.connection = "disconnected"]
           b == set(s)
<1>0. a \in AppState /\ Detached(a)
  BY DEF Sound
<1>1. s \in SessionId \cup {NoSession}
  BY <1>0 DEF AppState
<1>2. ASSUME NEW x \in SessionId \cup {NoSession}
      PROVE  /\ set(x) \in AppState /\ SameChat(a, set(x))
             /\ set(x).log = a.log /\ set(x).inbox = a.inbox
             /\ set(x).pending = a.pending /\ set(x).process = a.process
             /\ set(x).open = a.open /\ set(x).shutdown_timer = a.shutdown_timer
             /\ set(x).client = a.client /\ set(x).connection = "disconnected"
  <2>1. "disconnected" \in ConnectionState
    BY DEF ConnectionState
  <2>2. set(x) \in AppState
    BY <1>0, <2>1 DEF AppState
  <2> QED BY <1>0, <2>2 DEF AppState, SameChat
<1>3. SetWorkspace(a, w, p) = StateChanged(b)
  BY <1>0 DEF SetWorkspace, AppState
<1> HIDE DEF s, set
<1>4. b \in AppState /\ Gentle(a, b)
  BY <1>0, <1>1, <1>2, UnconnectedGentle
<1> HIDE DEF b
<1> QED BY <1>3, <1>4, StateChangedUntouched, UntouchedGentle, GentleTrans

\* connect_agent resets the controller and nothing of the link or the messages.
LEMMA BeginConnectChat ==
  ASSUME NEW a \in AppState, a.quit = "idle"
  PROVE  LET b == BeginConnect(a)
         IN  /\ b.inbox = a.inbox /\ b.log = a.log /\ b.pending = a.pending
             /\ b.process = a.process /\ b.open = a.open
             /\ b.shutdown_timer = a.shutdown_timer /\ SameChat(a, b)
             /\ ~b.requires_reconciliation /\ ~b.recovery_attempted
             /\ ~b.session_ready /\ b.saved = a.saved /\ b.quit = "idle"
             /\ b.connection = "starting"
<1> DEFINE Remains(x, y) ==
               /\ y.inbox = x.inbox /\ y.log = x.log /\ y.pending = x.pending
               /\ y.process = x.process /\ y.open = x.open /\ y.saved = x.saved
               /\ y.quit = x.quit
               /\ y.shutdown_timer = x.shutdown_timer /\ SameChat(x, y)
           c(d) == [d EXCEPT
                      !.last_error = FALSE, !.inactivity_warning = FALSE,
                      !.requires_reconciliation = FALSE,
                      !.disconnect_requested = FALSE]
           e(d, s) == [d EXCEPT !.session_ready = FALSE, !.requested = s,
                           !.recovery_attempted = FALSE, !.connection = "starting"]
           f == e(c(a), a.saved)
<1>1. ASSUME NEW d \in AppState
      PROVE  /\ c(d) \in AppState /\ Remains(d, c(d))
             /\ ~c(d).requires_reconciliation
  <2>1. c(d) \in AppState
    BY DEF AppState
  <2> QED BY <2>1 DEF AppState, SameChat
<1>2. ASSUME NEW d \in AppState, NEW s \in SessionId \cup {NoSession}
      PROVE  /\ e(d, s) \in AppState /\ Remains(d, e(d, s))
             /\ e(d, s).requires_reconciliation = d.requires_reconciliation
             /\ ~e(d, s).session_ready /\ ~e(d, s).recovery_attempted
             /\ e(d, s).connection = "starting"
  <2>1. "starting" \in ConnectionState
    BY DEF ConnectionState
  <2>2. e(d, s) \in AppState
    BY <2>1 DEF AppState
  <2> QED BY <2>2 DEF AppState, SameChat
<1>3. BeginConnect(a) = StateChanged(f)
  BY Zenon DEF BeginConnect
<1>4. /\ f \in AppState /\ Remains(a, f)
      /\ ~f.requires_reconciliation
      /\ ~f.session_ready /\ ~f.recovery_attempted
      /\ f.connection = "starting"
  <2>1. a.saved \in SessionId \cup {NoSession}
    BY DEF AppState
  <2> HIDE DEF c, e
  <2> QED BY <1>1, <1>2, <2>1 DEF SameChat
<1> HIDE DEF f
<1>5. StateChanged(f) = f
  BY <1>4 DEF StateChanged
<1> QED BY <1>3, <1>4, <1>5

\* connect_agent raises before Pi is started.
LEMMA ConnectFailsGentle ==
  ASSUME NEW a, Sound(a), ~a.client, a.quit = "idle", NEW turn \in TurnState
  PROVE  Gentle(a, ConnectFails(a, turn))
<1> DEFINE b == BeginConnect(a)
           c == [b EXCEPT !.turn = turn, !.client = FALSE, !.requested = NoSession]
<1>0. a \in AppState /\ Detached(a)
  BY DEF Sound
<1>1. b \in AppState
  BY BeginConnectFrame DEF Unconnected
<1>2. b.inbox = a.inbox /\ b.log = a.log /\ b.pending = a.pending
      /\ b.process = a.process /\ b.open = a.open
      /\ b.shutdown_timer = a.shutdown_timer /\ SameChat(a, b)
  BY <1>0, BeginConnectChat
<1>3. ConnectFails(a, turn) = Fail(c)
  BY DEF ConnectFails
<1> HIDE DEF b
<1>4. c \in AppState
  BY <1>1 DEF AppState
<1>5. c.inbox = b.inbox /\ c.log = b.log /\ c.pending = b.pending
      /\ c.process = b.process /\ c.open = b.open
      /\ c.shutdown_timer = b.shutdown_timer /\ SameChat(b, c) /\ ~c.client
  BY <1>1 DEF AppState, SameChat
<1> HIDE DEF c
<1> DEFINE d == Fail(c)
<1>6. /\ d.connection = "failed" /\ SameWire(c, d) /\ SameChat(c, d)
  BY <1>4, FailCalm
<1> HIDE DEF d
<1>7. SameChat(a, d)
  BY <1>2, <1>5, <1>6 DEF SameChat
<1> QED BY <1>0, <1>2, <1>3, <1>5, <1>6, <1>7, UnconnectedGentle DEF SameWire, d

\* _on_abort_response: an abort is answered on a connection that had its set-up.
LEMMA AfterAbortGentle ==
  ASSUME NEW a \in AppState, LinkOver(a), NEW r
  PROVE  Gentle(a, AfterAbort(a, r)) /\ AfterAbort(a, r) \in AppState
<1> DEFINE b == SetTurn(a, "failed")
<1>1. b \in AppState /\ Untouched(a, b)
  BY SetTurnUntouched DEF TurnState
<1>2. AfterAbort(a, r) \in {a, Fail(b)}
  BY DEF AfterAbort
<1> HIDE DEF b
<1>3. LinkOver(b)
  BY <1>1 DEF LinkOver, Hydrating, Untouched, SameRequests
<1>4. Gentle(a, b) /\ Gentle(b, Fail(b)) /\ Fail(b) \in AppState
  BY <1>1, <1>3, UntouchedGentle, FailGentle, FailCalm
<1>5. Gentle(a, a)
  BY UntouchedGentle DEF Untouched, SameRequests, SameChat
<1> QED BY <1>2, <1>4, <1>5, GentleTrans

-----------------------------------------------------------------------------
\* The deadline of a request

\* A request of the set-up is the only one: once it is over the link is.
LEMMA HydrationOver ==
  ASSUME NEW a, Talk(a), NEW id \in Hydrating(a), NEW b,
         b.log = a.log, b.pending = a.pending \ {id},
         b.process = a.process, b.open = a.open
  PROVE  /\ Hydrating(b) = {} /\ LinkOver(b)
         /\ a.connection = "loading-session" /\ ~TurnStarted(a)
<1>1. a.connection = "loading-session" /\ ~TurnStarted(a)
  BY DEF Talk, Hydrates
<1>2. Hydrating(b) = {}
  BY DEF Talk, Hydrates, Hydrating
<1>3. ~(b.process = "starting" /\ b.open)
  BY <1>1 DEF Talk, Hydrates
<1> QED BY <1>1, <1>2, <1>3 DEF LinkOver

\* What a command is: a request of the set-up, or of a turn.
LEMMA CommandKinds ==
  ASSUME NEW a \in AppState, NEW id \in DOMAIN a.log
  PROVE  a.log[id].command \in HydrationCommand \cup TurnCommand
<1>1. a.log[id] \in Request
  BY DEF AppState
<1> QED BY <1>1 DEF Request

\* A set-up request is not one of a turn.
LEMMA KindsDiffer ==
  ASSUME NEW c \in HydrationCommand
  PROVE  c \notin TurnCommand
BY DEF HydrationCommand, TurnCommand

\* _on_request_timeout of both classes: a set-up that gets no answer fails, a
\* turn command that gets none closes the composer.
LEMMA OnRequestTimeoutTalk ==
  ASSUME NEW a, Sound(a), Talk(a), NEW id \in a.deadlines
  PROVE  LET b == OnRequestTimeout(a, id)
         IN  /\ Talk(b) /\ Wanes(a, b) /\ KeepsPhase(a, b)
             /\ b.pending = a.pending \ {id} /\ id \in a.pending
             /\ \/ a.log[id].command \notin TurnCommand /\ Gentle(a, b)
                \/ /\ a.log[id].command \in TurnCommand
                   /\ b.connection = a.connection /\ b.client = a.client
                   /\ b.open = a.open /\ b.requires_reconciliation
<1> DEFINE command == a.log[id].command
           i == a.log[id].message
           b == [a EXCEPT !.deadlines = @ \ {id}, !.pending = @ \ {id}]
           c == SetTurn(b, "failed")
           p == c.prompt_requests \ {id}
           set(q) == [c EXCEPT !.prompt_requests = q,
                               !.requires_reconciliation = TRUE,
                               !.inactivity_warning = FALSE,
                               !.last_error = TRUE]
           d == set(p)
           e == MarkMessage(d, i, "uncertain")
           u == IF e.active_user = i THEN 0 ELSE e.active_user
           put(v) == [e EXCEPT !.active_user = v]
           f == put(u)
<1>0. a \in AppState /\ id \in a.pending /\ id \in DOMAIN a.log
  BY DEF Sound, Paired, Talk, Logged
<1>1. /\ Gentle(a, b) /\ b \in AppState
      /\ b.log = a.log /\ b.pending = a.pending \ {id}
      /\ b.connection = a.connection /\ b.process = a.process
      /\ b.open = a.open /\ b.client = a.client /\ SameChat(a, b)
  <2>1. b = RequestOver(a, id)
    BY <1>0 DEF RequestOver, AppState
  <2> HIDE DEF b
  <2> QED BY <1>0, <2>1, AnsweredGentle
<1>2. CASE command \notin TurnCommand
  <2>1. OnRequestTimeout(a, id) = Fail(b)
    BY <1>0, <1>2 DEF OnRequestTimeout
  <2> HIDE DEF b
  <2>2. id \in Hydrating(a)
    BY <1>0, <1>2, CommandKinds DEF Hydrating
  <2>3. LinkOver(b)
    BY <1>1, <2>2, HydrationOver
  <2>4. Gentle(b, Fail(b)) /\ SameWire(b, Fail(b))
    BY <1>1, <2>3, FailGentle, FailCalm
  <2>5. Gentle(a, Fail(b))
    BY <1>1, <2>4, GentleTrans
  <2>6. Talk(Fail(b))
    BY <2>5, GentleTalk
  <2> QED BY <1>0, <1>1, <1>2, <2>1, <2>4, <2>5, <2>6 DEF Gentle, Calm, SameWire
<1>3. CASE command \in TurnCommand
  <2>0. TurnStarted(a)
    BY <1>0, <1>3 DEF TurnStarted
  <2>1. OnRequestTimeout(a, id) =
          IF command = "prompt" /\ id \in a.prompt_requests /\ i \in DOMAIN a.messages
          THEN StateChanged([e EXCEPT !.active_user = IF @ = i THEN 0 ELSE @])
          ELSE StateChanged(d)
    BY <1>0, <1>3 DEF OnRequestTimeout
  <2> HIDE DEF b
  <2>2. c \in AppState /\ Untouched(b, c)
    BY <1>1, SetTurnUntouched DEF TurnState
  <2> HIDE DEF c
  <2>3. p \in SUBSET Nat
    BY <2>2 DEF AppState
  <2> DEFINE Blocks(x, y) ==
                 /\ y.log = x.log /\ y.inbox = x.inbox /\ y.pending = x.pending
                 /\ y.client = x.client /\ y.connection = x.connection
                 /\ y.session_ready = x.session_ready
                 /\ y.recovery_attempted = x.recovery_attempted
                 /\ y.saved = x.saved /\ y.process = x.process
                 /\ y.transport = x.transport /\ y.open = x.open
                 /\ y.shutdown_timer => x.shutdown_timer
                 /\ y.requires_reconciliation
  <2>4. ASSUME NEW q \in SUBSET Nat
        PROVE  /\ set(q) \in AppState /\ Blocks(c, set(q))
               /\ set(q).prompt_requests = q /\ set(q).messages = c.messages
               /\ set(q).active_user = c.active_user
               /\ set(q).active_assistant = c.active_assistant
    <3>1. set(q) \in AppState
      BY <2>2 DEF AppState
    <3> QED BY <2>2, <3>1 DEF AppState
  <2> HIDE DEF set, p
  <2>5. /\ d \in AppState /\ Blocks(c, d)
        /\ d.prompt_requests = p /\ d.messages = c.messages
        /\ d.active_user = c.active_user
        /\ d.active_assistant = c.active_assistant
    BY <2>3, <2>4
  <2> HIDE DEF d
  <2>6. \E g : /\ OnRequestTimeout(a, id) = StateChanged(g)
               /\ g \in AppState /\ Blocks(c, g)
               /\ Chat(c) => Chat(g) /\ StaysUncertain(c, g)
    <3>1. CASE id \in a.prompt_requests
      <4>1. command = "prompt" /\ i \in DOMAIN a.messages
        BY <3>1 DEF Talk, Chat, Named, Written
      <4>2. "uncertain" \in MessageState
        BY DEF MessageState
      <4>3. /\ e \in AppState /\ SameRequests(d, e)
            /\ e.prompt_requests = d.prompt_requests
            /\ e.active_user = d.active_user
            /\ e.active_assistant = d.active_assistant
            /\ DOMAIN e.messages = DOMAIN d.messages
            /\ \A j \in DOMAIN d.messages :
                  /\ e.messages[j].role = d.messages[j].role
                  /\ e.messages[j].state =
                        IF j = i THEN "uncertain" ELSE d.messages[j].state
        BY <2>5, <4>2, MarkMessageFrame, MarkMessageSame DEF Silent, SameLink
      <4>4. OnRequestTimeout(a, id) = StateChanged(f)
        BY <2>1, <3>1, <4>1, <4>3 DEF AppState
      <4> HIDE DEF e
      <4>5. u \in Nat
        BY <4>3 DEF AppState
      <4>6. ASSUME NEW v \in Nat
            PROVE  /\ put(v) \in AppState /\ SameRequests(e, put(v))
                   /\ put(v).prompt_requests = e.prompt_requests
                   /\ put(v).messages = e.messages
                   /\ put(v).active_user = v
                   /\ put(v).active_assistant = e.active_assistant
        <5>1. put(v) \in AppState
          BY <4>3 DEF AppState
        <5> QED BY <4>3, <5>1 DEF AppState, SameRequests
      <4> HIDE DEF put, u
      <4>7. /\ f \in AppState /\ SameRequests(e, f)
            /\ f.prompt_requests = e.prompt_requests
            /\ f.messages = e.messages /\ f.active_user = u
            /\ f.active_assistant = e.active_assistant
        BY <4>5, <4>6
      <4> HIDE DEF f
      <4>8. Blocks(c, f)
        BY <2>5, <4>3, <4>7 DEF SameRequests
      <4>9. id \in c.prompt_requests /\ i = c.log[id].message
        BY <1>1, <2>2, <3>1 DEF Untouched, SameRequests, SameChat
      <4>10. Chat(c) => Chat(f) /\ StaysUncertain(c, f)
        BY <2>2, <2>5, <4>3, <4>7, <4>8, <4>9, PromptSettledChat DEF p, u
      <4> QED BY <4>4, <4>7, <4>8, <4>10
    <3>2. CASE id \notin a.prompt_requests
      <4>1. OnRequestTimeout(a, id) = StateChanged(d)
        BY <2>1, <3>2
      <4>2. SameChat(c, d)
        BY <1>1, <2>2, <2>5, <3>2 DEF Untouched, SameChat, p
      <4>3. Named(c) => Named(d)
        BY <2>5, <4>2 DEF SameChat, Named, Written
      <4>4. Tracked(c) => Tracked(d)
        BY <2>5, <4>2 DEF SameChat, Tracked
      <4>5. Closed(c) => Closed(d)
        BY <2>5, <4>2 DEF SameChat, Closed
      <4>6. StaysUncertain(c, d)
        BY <4>2 DEF StaysUncertain, SameChat
      <4> QED BY <2>5, <4>1, <4>3, <4>4, <4>5, <4>6 DEF Chat
    <3> QED BY <3>1, <3>2
  <2>7. PICK g : /\ OnRequestTimeout(a, id) = StateChanged(g)
                 /\ g \in AppState /\ Blocks(c, g)
                 /\ Chat(c) => Chat(g) /\ StaysUncertain(c, g)
    BY <2>6
  <2> DEFINE h == StateChanged(g)
  <2>8. Untouched(g, h)
    BY <2>7, StateChangedUntouched
  <2> HIDE DEF h
  <2>9. Wanes(c, g) /\ KeepsPhase(c, g)
    BY <2>7 DEF Wanes, KeepsPhase
  <2>10. Calm(a, b) /\ Calm(b, c) /\ Calm(g, h)
    BY <1>1, <2>2, <2>8, UntouchedCalm DEF Gentle
  <2>11. Wanes(a, h)
    BY <2>9, <2>10, WanesTrans DEF Calm
  <2>12. KeepsPhase(a, h)
    <3>1. KeepsPhase(a, c)
      BY <2>10, CalmTrans DEF Calm
    <3>2. KeepsPhase(a, g)
      BY <2>9, <3>1 DEF KeepsPhase
    <3> QED BY <2>10, <3>2 DEF Calm, KeepsPhase
  <2>13. /\ h.connection = a.connection /\ h.client = a.client /\ h.open = a.open
         /\ h.requires_reconciliation /\ h.pending = a.pending \ {id}
    BY <1>1, <2>2, <2>7, <2>8 DEF Untouched, SameRequests
  <2>14. Talk(h)
    BY <2>0, <2>11, <2>12, <2>13, WanesTalk
  <2> QED BY <1>0, <1>3, <2>7, <2>11, <2>12, <2>13, <2>14 DEF h
<1> QED BY <1>2, <1>3

-----------------------------------------------------------------------------
\* Commands written

\* One command is written; the rest of the link is what it was.  Whether Pi
\* reads it depends on the pipe.
Writes(a, b, c, m) ==
    LET n == Len(a.log) + 1
    IN  /\ n \in DOMAIN b.log /\ n \notin DOMAIN a.log
        /\ b.log[n].command = c /\ b.log[n].message = m
        /\ \A i \in DOMAIN b.log : i \in DOMAIN a.log \/ i = n
        /\ \A i \in DOMAIN a.log : i \in DOMAIN b.log /\ b.log[i] = a.log[i]
        /\ n \in b.pending /\ b.pending \subseteq a.pending \cup {n}
        /\ b.inbox \subseteq a.inbox \cup {n}
        /\ ~a.open => b.inbox \subseteq a.inbox
        /\ b.client = a.client /\ b.connection = a.connection
        /\ b.connection = "ready" => b.session_ready = a.session_ready
        /\ a.recovery_attempted => b.recovery_attempted
        /\ b.requires_reconciliation = a.requires_reconciliation
        /\ b.process = a.process /\ b.transport = a.transport
        /\ b.open = a.open
        /\ b.shutdown_timer => a.shutdown_timer

\* AgentClient._send
LEMMA SendWrites ==
  ASSUME NEW a \in AppState, NEW m \in Nat,
         NEW c \in HydrationCommand \cup TurnCommand
  PROVE  LET b == Send(a, c, m)
         IN  /\ Writes(a, b, c, m) /\ SameChat(a, b) /\ b \in AppState
             /\ b.saved = a.saved /\ b.turn = a.turn
             /\ b.pending = a.pending \cup {Len(a.log) + 1}
<1> DEFINE b == Send(a, c, m)
           n == Len(a.log) + 1
           e == [command |-> c, message |-> m]
           i == IF a.open THEN a.inbox \cup {n} ELSE a.inbox
           s == Append(a.log, e)
           q == a.pending \cup {n}
           t == a.deadlines \cup {n}
           put(l, p, d, x) == [a EXCEPT !.log = l, !.pending = p,
                                        !.deadlines = d, !.inbox = x]
           Kept(g) == /\ g.client = a.client /\ g.connection = a.connection
                      /\ g.session_ready = a.session_ready
                      /\ g.recovery_attempted = a.recovery_attempted
                      /\ g.requires_reconciliation = a.requires_reconciliation
                      /\ g.process = a.process /\ g.transport = a.transport
                      /\ g.open = a.open /\ g.shutdown_timer = a.shutdown_timer
                      /\ g.saved = a.saved /\ g.turn = a.turn /\ SameChat(a, g)
<1>1. b \in AppState
  BY SendType
<1>2. b = put(s, q, t, i)
  BY DEF Send, AppState
<1>3. e \in Request /\ a.log \in Seq(Request)
  BY DEF Request, AppState
<1>4. /\ Append(a.log, e) \in Seq(Request)
      /\ n \in DOMAIN Append(a.log, e) /\ n \notin DOMAIN a.log
      /\ Append(a.log, e)[n] = e
      /\ \A j \in DOMAIN Append(a.log, e) : j \in DOMAIN a.log \/ j = n
      /\ \A j \in DOMAIN a.log :
            j \in DOMAIN Append(a.log, e) /\ Append(a.log, e)[j] = a.log[j]
  <2> HIDE DEF e
  <2> QED BY <1>3
<1>5. e.command = c /\ e.message = m
  OBVIOUS
<1> HIDE DEF e
<1>6. ASSUME NEW l, NEW p, NEW d, NEW x
      PROVE  /\ put(l, p, d, x).log = l /\ put(l, p, d, x).pending = p
             /\ put(l, p, d, x).inbox = x
             /\ Kept(put(l, p, d, x))
  BY DEF AppState, SameChat
<1>7. i \subseteq a.inbox \cup {n} /\ (~a.open => i \subseteq a.inbox)
  OBVIOUS
<1>w. s = Append(a.log, e) /\ q = a.pending \cup {n}
  OBVIOUS
<1> HIDE DEF put, Kept, i, s, q, t, b
<1>8. b.log = s /\ b.pending = q /\ b.inbox = i /\ Kept(b)
  BY <1>2, <1>6
<1>9. Writes(a, b, c, m)
  BY <1>4, <1>5, <1>7, <1>8, <1>w DEF Writes, Kept
<1> QED BY <1>1, <1>8, <1>9, <1>w DEF b, Kept

\* A command that may be written where it is written: one of a turn on a
\* connection that had its set-up, the next one of the set-up when none waits.
Timely(a, c) ==
    /\ a.process # "starting"
    /\ c \in TurnCommand => a.connection \notin {"starting", "loading-session"}
    /\ c \in HydrationCommand =>
          Hydrating(a) = {} /\ a.connection = "loading-session"
    /\ c = "get_entries" =>
          Written(a, "get_entries") = {} /\ a.recovery_attempted
    /\ c = "fork" => Written(a, "fork") = {} /\ Written(a, "get_entries") # {}

\* Such a command keeps the requests in order.
LEMMA WritesTalk ==
  ASSUME NEW a, Talk(a), NEW c \in HydrationCommand \cup TurnCommand, Timely(a, c),
         NEW m, NEW b, Writes(a, b, c, m), Chat(b)
  PROVE  Talk(b)
<1> DEFINE n == Len(a.log) + 1
<1>0. /\ n \in DOMAIN b.log /\ n \notin DOMAIN a.log /\ b.log[n].command = c
      /\ \A i \in DOMAIN b.log : i \in DOMAIN a.log \/ i = n
      /\ \A i \in DOMAIN a.log : i \in DOMAIN b.log /\ b.log[i] = a.log[i]
      /\ n \in b.pending /\ b.pending \subseteq a.pending \cup {n}
      /\ b.inbox \subseteq a.inbox \cup {n}
      /\ ~a.open => b.inbox \subseteq a.inbox
  BY DEF Writes
<1>1. /\ b.client = a.client /\ b.connection = a.connection
      /\ b.connection = "ready" => b.session_ready = a.session_ready
      /\ a.recovery_attempted => b.recovery_attempted
      /\ b.requires_reconciliation = a.requires_reconciliation
      /\ b.process = a.process /\ b.transport = a.transport
      /\ b.open = a.open
      /\ b.shutdown_timer => a.shutdown_timer
  BY DEF Writes
<1> HIDE DEF n
<1>2. a.pending \subseteq DOMAIN a.log /\ a.inbox \subseteq DOMAIN a.log
  BY DEF Talk, Logged
<1>3. Logged(b)
  BY <1>0, <1>1, <1>2 DEF Logged, Timely
<1>4. /\ \A i \in Hydrating(b) :
            i \in Hydrating(a) \/ (i = n /\ c \in HydrationCommand)
      /\ TurnStarted(b) <=> TurnStarted(a) \/ c \in TurnCommand
      /\ \A x : x # c => Written(b, x) = Written(a, x)
      /\ \A x : Asked(b, x) => Asked(a, x) \/ x = c
  <2>1. \A i \in Hydrating(b) :
           i \in Hydrating(a) \/ (i = n /\ c \in HydrationCommand)
    BY <1>0, <1>2 DEF Hydrating
  <2>2. TurnStarted(b) <=> TurnStarted(a) \/ c \in TurnCommand
    BY <1>0 DEF TurnStarted
  <2>3. \A x : x # c => Written(b, x) = Written(a, x)
    BY <1>0 DEF Written
  <2>4. \A x : Asked(b, x) => Asked(a, x) \/ x = c
    BY <1>0, <1>2 DEF Asked
  <2> QED BY <2>1, <2>2, <2>3, <2>4
<1>5. Hydrates(b)
  <2>1. \A i, j \in Hydrating(b) : i = j
    BY <1>4 DEF Talk, Hydrates, Timely
  <2>2. Hydrating(b) # {} => b.connection = "loading-session"
    BY <1>1, <1>4 DEF Talk, Hydrates, Timely
  <2>3. b.connection \in {"starting", "loading-session"} => ~TurnStarted(b)
    BY <1>1, <1>4 DEF Talk, Hydrates, Timely
  <2>4. b.connection = "ready" =>
           b.client /\ b.session_ready /\ b.transport = "ready" /\ b.open
    BY <1>1 DEF Talk, Hydrates
  <2>5. b.client /\ b.requires_reconciliation => TurnStarted(b)
    BY <1>1, <1>4 DEF Talk, Hydrates
  <2>6. b.process = "starting" /\ b.open => b.connection = "starting"
    BY <1>1 DEF Talk, Hydrates
  <2>7. b.shutdown_timer => ~b.open
    BY <1>1 DEF Talk, Hydrates
  <2>8. ~b.open => b.pending \cap b.inbox = {}
    BY <1>0, <1>1, <1>2 DEF Talk, Hydrates
  <2> QED BY <2>1, <2>2, <2>3, <2>4, <2>5, <2>6, <2>7, <2>8 DEF Hydrates
<1>6. Recovers(b)
  <2>1. \A i, j \in Written(b, "get_entries") : i = j
    BY <1>0, <1>4 DEF Talk, Recovers, Timely, Written
  <2>2. \A i, j \in Written(b, "fork") : i = j
    BY <1>0, <1>4 DEF Talk, Recovers, Timely, Written
  <2>3. b.client /\ Written(b, "get_entries") # {} => b.recovery_attempted
    BY <1>1, <1>4 DEF Talk, Recovers, Timely
  <2>4. Written(b, "fork") # {} =>
           Written(b, "get_entries") # {} /\ ~Asked(b, "get_entries")
    <3>1. CASE c = "fork"
      <4>1. Written(b, "get_entries") # {}
        BY <1>4, <3>1 DEF Timely
      <4>2. ~Asked(a, "get_entries")
        <5>1. Hydrating(a) = {}
          BY <3>1 DEF Timely, HydrationCommand
        <5> QED BY <5>1 DEF Asked, Hydrating, HydrationCommand
      <4> QED BY <1>4, <3>1, <4>1, <4>2
    <3>2. CASE c = "get_entries"
      <4>1. Written(a, "fork") = {}
        BY <3>2 DEF Talk, Recovers, Timely
      <4> QED BY <1>4, <3>2, <4>1
    <3>3. CASE c \notin {"fork", "get_entries"}
      BY <1>4, <3>3 DEF Talk, Recovers
    <3> QED BY <3>1, <3>2, <3>3
  <2> QED BY <2>1, <2>2, <2>3, <2>4 DEF Recovers
<1> QED BY <1>3, <1>5, <1>6 DEF Talk

\* A command other than prompt is about no message.
LEMMA WritesChat ==
  ASSUME NEW a, Chat(a), NEW b, NEW c, NEW m, Writes(a, b, c, m), SameChat(a, b)
  PROVE  Chat(b) /\ StaysUncertain(a, b)
<1>1. /\ \A i \in DOMAIN a.log : i \in DOMAIN b.log /\ b.log[i] = a.log[i]
      /\ b.connection = a.connection
  BY DEF Writes
<1>2. \A i \in a.prompt_requests : i \in DOMAIN a.log
  BY DEF Chat, Named, Written
<1>3. Named(b)
  BY <1>1, <1>2 DEF Chat, Named, SameChat, Written
<1>4. Tracked(b)
  BY <1>1, <1>2 DEF Chat, Tracked, SameChat
<1>5. Closed(b)
  BY <1>1, <1>2 DEF Chat, Closed, SameChat
<1> QED BY <1>3, <1>4, <1>5 DEF Chat, StaysUncertain, SameChat

-----------------------------------------------------------------------------
\* The chain of connect_agent's requests

\* The set-up is given up: nothing is written and the connection is over.
Ends(a, b) ==
    /\ b.log = a.log
    /\ b.pending = {} /\ b.inbox \subseteq a.inbox
    /\ b.connection \in {"disconnected", "stopping", "failed"}
    /\ b.open => a.open
    /\ b.client => /\ a.client
                   /\ b.requires_reconciliation = a.requires_reconciliation

\* A callback of the set-up runs, and no request of it waits any more.
Resumes(a) ==
    /\ a \in AppState /\ a.client
    /\ Talk(a)
    /\ Hydrating(a) = {}
    /\ a.connection = "loading-session"
    /\ a.process # "starting"

\* Such a callback writes the next command or gives the set-up up.
Continues(a, b, c) ==
    /\ b \in AppState /\ Talk(b)
    /\ Ends(a, b) \/ Writes(a, b, c, 0)

\* _fail_and_stop gives the set-up up.
LEMMA FailAndStopEnds ==
  ASSUME NEW a \in AppState, a.client, Talk(a)
  PROVE  LET b == FailAndStop(a)
         IN  b \in AppState /\ Talk(b) /\ Ends(a, b) /\ StaysUncertain(a, b)
<1> DEFINE b == FailAndStop(a)
           c == Fail(a)
           d == [c EXCEPT !.disconnect_requested = FALSE]
<1>1. /\ c \in AppState /\ c.client = a.client /\ c.connection = "failed"
  BY FailCalm DEF SameWire
<1>2. b = ClientShutdown(d)
  BY <1>1 DEF FailAndStop
<1>3. Gentle(a, b) /\ b \in AppState /\ b.pending = {}
  BY FailAndStopGentle
<1>4. Talk(b)
  BY <1>3, GentleTalk
<1> HIDE DEF c
<1>5. d \in AppState /\ d.connection = "failed"
  <2>1. d \in AppState
    BY <1>1 DEF AppState
  <2> QED BY <1>1, <2>1 DEF AppState
<1> HIDE DEF d
<1>6. KeepsPhase(d, b)
  BY <1>2, <1>5, ClientShutdownGentle DEF Gentle, Calm
<1>7. b.connection \in ConnectionState
  BY <1>3 DEF AppState
<1>8. b.connection \in {"disconnected", "stopping", "failed"}
  BY <1>5, <1>6, <1>7 DEF KeepsPhase, ConnectionState
<1> QED
  BY <1>3, <1>4, <1>8 DEF Ends, Gentle, Calm, Wanes, SameBlock, Talk

\* The next command of the set-up is written, or the write fails.
LEMMA SendOrStopContinues ==
  ASSUME NEW a, Resumes(a), NEW c \in HydrationCommand, Timely(a, c), NEW written
  PROVE  LET b == SendOrStop(a, c, written)
         IN  /\ Continues(a, b, c) /\ StaysUncertain(a, b)
             /\ Writes(a, b, c, 0) => b.saved = a.saved
<1> DEFINE b == Send(a, c, 0)
           d == FailAndStop(a)
<1>1. SendOrStop(a, c, written) \in {b, d}
  BY Zenon DEF SendOrStop
<1>2. /\ Writes(a, b, c, 0) /\ SameChat(a, b) /\ b \in AppState
      /\ b.saved = a.saved
  BY SendWrites DEF Resumes
<1>3. d \in AppState /\ Talk(d) /\ Ends(a, d) /\ StaysUncertain(a, d)
  BY FailAndStopEnds DEF Resumes
<1> HIDE DEF b, d
<1>4. Chat(b) /\ StaysUncertain(a, b)
  BY <1>2, WritesChat DEF Resumes, Talk
<1>5. Talk(b)
  BY <1>2, <1>4, WritesTalk DEF Resumes
<1>6. ~Writes(a, d, c, 0)
  BY <1>3 DEF Ends, Writes
<1> QED BY <1>1, <1>2, <1>3, <1>4, <1>5, <1>6 DEF Continues

\* What a callback changes before it goes on: nothing of the requests.
Prepares(a, b) ==
    /\ b.log = a.log /\ b.inbox = a.inbox /\ b.pending = a.pending
    /\ b.client = a.client /\ b.connection = a.connection
    /\ b.connection = "ready" => b.session_ready = a.session_ready
    /\ a.recovery_attempted => b.recovery_attempted
    /\ b.requires_reconciliation = a.requires_reconciliation
    /\ b.process = a.process /\ b.transport = a.transport
    /\ b.open = a.open
    /\ b.shutdown_timer => a.shutdown_timer

\* The callback still runs in the set-up.
LEMMA PreparesResumes ==
  ASSUME NEW a, Resumes(a), NEW b \in AppState, Prepares(a, b), Chat(b)
  PROVE  Resumes(b) /\ \A c : Written(b, c) = Written(a, c)
<1>1. /\ Hydrating(b) = Hydrating(a)
      /\ \A c : Written(b, c) = Written(a, c)
      /\ \A c : Asked(b, c) <=> Asked(a, c)
      /\ TurnStarted(b) <=> TurnStarted(a)
  BY DEF Prepares, Hydrating, Written, Asked, TurnStarted
<1>2. Logged(b)
  BY DEF Resumes, Talk, Logged, Prepares
<1>3. Hydrates(b)
  BY <1>1 DEF Resumes, Talk, Hydrates, Prepares
<1>4. Recovers(b)
  BY <1>1 DEF Resumes, Talk, Recovers, Prepares
<1> QED BY <1>1, <1>2, <1>3, <1>4 DEF Resumes, Talk, Prepares

\* What follows the preparation follows the callback.
LEMMA PreparedContinues ==
  ASSUME NEW a, NEW b, Prepares(a, b), NEW d, NEW c, Continues(b, d, c)
  PROVE  /\ Continues(a, d, c)
         /\ Writes(a, d, c, 0) => Writes(b, d, c, 0)
<1>1. Ends(b, d) => Ends(a, d)
  BY DEF Prepares, Ends
<1>2. Writes(b, d, c, 0) => Writes(a, d, c, 0)
  BY DEF Prepares, Writes
<1>3. ~(Ends(b, d) /\ Writes(a, d, c, 0))
  BY DEF Prepares, Ends, Writes
<1> QED BY <1>1, <1>2, <1>3 DEF Continues

\* The saved and the requested session, which Talk is not about.
LEMMA SessionFieldsPrepare ==
  ASSUME NEW a \in AppState, NEW s \in SessionId \cup {NoSession},
         NEW q \in SessionId \cup {NoSession}
  PROVE  LET b == StateChanged([a EXCEPT !.saved = s, !.requested = q])
         IN  /\ b \in AppState /\ b.saved = s
             /\ Prepares(a, b) /\ SameChat(a, b)
<1> DEFINE b == [a EXCEPT !.saved = s, !.requested = q]
           c == StateChanged(b)
<1>1. b \in AppState
  BY DEF AppState
<1>2. b.saved = s /\ Prepares(a, b) /\ SameChat(a, b)
  BY DEF AppState, Prepares, SameChat
<1> HIDE DEF b
<1>3. c \in AppState /\ Untouched(b, c)
  BY <1>1, StateChangedUntouched, StateChangedFrame DEF SameLink
<1> HIDE DEF c
<1>4. c.saved = s /\ Prepares(a, c) /\ SameChat(a, c)
  BY <1>2, <1>3 DEF Untouched, SameRequests, SameChat, Prepares
<1> QED BY <1>3, <1>4 DEF b, c

\* Messages that are the same say the same.
LEMMA PreparesChat ==
  ASSUME NEW a, NEW b, Chat(a), Prepares(a, b), SameChat(a, b)
  PROVE  Chat(b)
<1>1. Named(b)
  BY DEF Chat, Named, Prepares, SameChat, Written
<1>2. Tracked(b)
  BY DEF Chat, Tracked, Prepares, SameChat
<1>3. Closed(b)
  BY DEF Chat, Closed, Prepares, SameChat
<1> QED BY <1>1, <1>2, <1>3 DEF Chat

\* Before the first request waits, one that is not of the recovery is timely.
LEMMA SetUpTimely ==
  ASSUME NEW a, Resumes(a), NEW c \in {"get_state", "get_messages", "get_recovered_state"}
  PROVE  c \in HydrationCommand /\ Timely(a, c)
BY DEF Resumes, Timely, HydrationCommand, TurnCommand

SaveSession(a, s, q, written) ==
    SendOrStop(StateChanged([a EXCEPT !.saved = s, !.requested = q]),
               "get_messages", written)

\* The session a reply names is saved, then the history is asked for.
LEMMA SessionSavedContinues ==
  ASSUME NEW a, Resumes(a), NEW s \in SessionId \cup {NoSession},
         NEW q \in SessionId \cup {NoSession}, NEW written
  PROVE  LET b == SaveSession(a, s, q, written)
         IN  /\ Continues(a, b, "get_messages")
             /\ Writes(a, b, "get_messages", 0) => b.saved = s
<1> DEFINE b == StateChanged([a EXCEPT !.saved = s, !.requested = q])
           d == SendOrStop(b, "get_messages", written)
<1>0. a \in AppState
  BY DEF Resumes
<1>1. b \in AppState /\ b.saved = s /\ Prepares(a, b) /\ SameChat(a, b)
  BY <1>0, SessionFieldsPrepare, Zenon
<1> HIDE DEF b
<1>2. Chat(b)
  BY <1>1, PreparesChat DEF Resumes, Talk
<1>3. Resumes(b)
  BY <1>1, <1>2, PreparesResumes
<1>4. "get_messages" \in HydrationCommand /\ Timely(b, "get_messages")
  BY <1>3, SetUpTimely
<1>5. /\ Continues(b, d, "get_messages")
      /\ Writes(b, d, "get_messages", 0) => d.saved = b.saved
  BY <1>3, <1>4, SendOrStopContinues
<1> HIDE DEF d
<1>6. /\ Continues(a, d, "get_messages")
      /\ Writes(a, d, "get_messages", 0) => d.saved = s
  BY <1>1, <1>5, PreparedContinues
<1> QED BY <1>6 DEF b, d, SaveSession

\* _on_session_state_response
LEMMA OnSessionStateContinues ==
  ASSUME NEW a, Resumes(a), NEW r \in Reply
  PROVE  LET b == OnSessionState(a, r)
         IN  /\ Continues(a, b, "get_messages")
             /\ Writes(a, b, "get_messages", 0) => b.saved = r.session /\ r.ok
<1> DEFINE f == FailAndStop(a)
           b == SendOrStop(StateChanged([a EXCEPT !.saved = r.session]),
                           "get_messages", r.written)
           d == SaveSession(a, r.session, a.requested, r.written)
<1>1. OnSessionState(a, r) = f \/ (OnSessionState(a, r) = b /\ r.ok)
  BY Zenon DEF OnSessionState
<1>2. b = d
  <2>1. [a EXCEPT !.saved = r.session]
           = [a EXCEPT !.saved = r.session, !.requested = a.requested]
    BY DEF Resumes, AppState
  <2> QED BY <2>1, Zenon DEF SaveSession
<1>3. /\ r.session \in SessionId \cup {NoSession}
      /\ a.requested \in SessionId \cup {NoSession}
  BY DEF Reply, Resumes, AppState
<1>4. /\ Continues(a, d, "get_messages")
      /\ Writes(a, d, "get_messages", 0) => d.saved = r.session
  BY <1>3, SessionSavedContinues
<1>5. f \in AppState /\ Talk(f) /\ Ends(a, f)
  BY FailAndStopEnds DEF Resumes
<1> HIDE DEF f, b, d
<1>6. Continues(a, f, "get_messages") /\ ~Writes(a, f, "get_messages", 0)
  BY <1>5 DEF Continues, Ends, Writes
<1> QED BY <1>1, <1>2, <1>4, <1>6

\* _on_recovery_session_state_response
LEMMA OnRecoveredStateContinues ==
  ASSUME NEW a, Resumes(a), NEW r \in Reply
  PROVE  LET b == OnRecoveredState(a, r)
         IN  /\ Continues(a, b, "get_messages")
             /\ Writes(a, b, "get_messages", 0) => b.saved = r.session /\ r.ok
<1> DEFINE f == FailAndStop(a)
           d == SaveSession(a, r.session, r.session, r.written)
<1>1. OnRecoveredState(a, r) = f \/ (OnRecoveredState(a, r) = d /\ r.ok)
  BY Zenon DEF OnRecoveredState, SaveSession
<1>2. r.session \in SessionId \cup {NoSession}
  BY DEF Reply
<1>3. /\ Continues(a, d, "get_messages")
      /\ Writes(a, d, "get_messages", 0) => d.saved = r.session
  BY <1>2, SessionSavedContinues
<1>4. f \in AppState /\ Talk(f) /\ Ends(a, f)
  BY FailAndStopEnds DEF Resumes
<1> HIDE DEF f, d
<1>5. Continues(a, f, "get_messages") /\ ~Writes(a, f, "get_messages", 0)
  BY <1>4 DEF Continues, Ends, Writes
<1> QED BY <1>1, <1>3, <1>5

\* _on_recovery_entries_response, then _on_recovery_fork_response
LEMMA OnRecoveryStepContinues ==
  ASSUME NEW a, Resumes(a), NEW r \in Reply
  PROVE  /\ Written(a, "fork") = {} /\ Written(a, "get_entries") # {} =>
               LET b == OnRecoveryEntries(a, r)
               IN  /\ Continues(a, b, "fork")
                   /\ Writes(a, b, "fork", 0) => b.saved = a.saved /\ r.ok
         /\ LET b == OnRecoveryFork(a, r)
            IN  /\ Continues(a, b, "get_recovered_state")
                /\ Writes(a, b, "get_recovered_state", 0) =>
                      b.saved = a.saved /\ r.ok
<1> DEFINE f == FailAndStop(a)
           g == StateChanged(a)
           b == SendOrStop(g, "fork", r.written)
           d == SendOrStop(g, "get_recovered_state", r.written)
<1>1. /\ OnRecoveryEntries(a, r) = f \/ (OnRecoveryEntries(a, r) = b /\ r.ok)
      /\ OnRecoveryFork(a, r) = f \/ (OnRecoveryFork(a, r) = d /\ r.ok)
  BY Zenon DEF OnRecoveryEntries, OnRecoveryFork
<1>2. g \in AppState /\ Untouched(a, g)
  BY StateChangedUntouched, StateChangedFrame DEF Resumes, SameLink
<1>3. f \in AppState /\ Talk(f) /\ Ends(a, f)
  BY FailAndStopEnds DEF Resumes
<1> HIDE DEF g
<1>4. Prepares(a, g) /\ SameChat(a, g) /\ g.saved = a.saved
  BY <1>2 DEF Untouched, SameRequests, Prepares
<1>5. Chat(g)
  BY <1>4, PreparesChat DEF Resumes, Talk
<1>6. Resumes(g) /\ \A c : Written(g, c) = Written(a, c)
  BY <1>2, <1>4, <1>5, PreparesResumes
<1>7. ASSUME Written(a, "fork") = {}, Written(a, "get_entries") # {}
      PROVE  /\ Continues(a, b, "fork")
             /\ Writes(a, b, "fork", 0) => b.saved = a.saved
  <2>1. "fork" \in HydrationCommand /\ Timely(g, "fork")
    BY <1>6, <1>7 DEF Timely, HydrationCommand, TurnCommand, Resumes
  <2>2. /\ Continues(g, b, "fork")
        /\ Writes(g, b, "fork", 0) => b.saved = g.saved
    BY <1>6, <2>1, SendOrStopContinues
  <2> HIDE DEF b
  <2> QED BY <1>4, <2>2, PreparedContinues
<1>8. /\ Continues(a, d, "get_recovered_state")
      /\ Writes(a, d, "get_recovered_state", 0) => d.saved = a.saved
  <2>1. /\ "get_recovered_state" \in HydrationCommand
        /\ Timely(g, "get_recovered_state")
    BY <1>6, SetUpTimely
  <2>2. /\ Continues(g, d, "get_recovered_state")
        /\ Writes(g, d, "get_recovered_state", 0) => d.saved = g.saved
    BY <1>6, <2>1, SendOrStopContinues
  <2> HIDE DEF d
  <2> QED BY <1>4, <2>2, PreparedContinues
<1> HIDE DEF f, b, d
<1>9. \A c : Continues(a, f, c) /\ ~Writes(a, f, c, 0)
  BY <1>3 DEF Continues, Ends, Writes
<1> QED BY <1>1, <1>7, <1>8, <1>9

\* A loaded history holds no message under way: at most one message, of the
\* user, that is over.
LEMMA LoadedMessagesOver ==
  ASSUME NEW r \in Reply, NEW i \in DOMAIN LoadedMessages(r)
  PROVE  /\ LoadedMessages(r)[i].role = "user"
         /\ LoadedMessages(r)[i].state \in {"complete", "failed"}
<1>1. CASE r.tail = "empty"
  BY <1>1 DEF LoadedMessages
<1>2. CASE r.tail # "empty"
  <2> DEFINE e == [role |-> "user", state |-> r.tail]
  <2>1. LoadedMessages(r) = <<e>>
    BY <1>2 DEF LoadedMessages
  <2>2. e.role = "user" /\ e.state \in {"complete", "failed"}
    BY <1>2 DEF Reply
  <2> HIDE DEF e
  <2> QED BY <2>1, <2>2
<1> QED BY <1>1, <1>2

\* The record _on_messages_response goes on with, once the history is loaded.
LEMMA LoadedPrepares ==
  ASSUME NEW a, Resumes(a), NEW r \in Reply
  PROVE  LET b == [a EXCEPT !.messages = LoadedMessages(r),
                            !.active_user = 0, !.active_assistant = 0]
         IN  /\ b \in AppState /\ Prepares(a, b) /\ Named(b)
             /\ Closed(b) /\ b.prompt_requests = {}
             /\ b.saved = a.saved
             /\ \A i \in DOMAIN b.messages :
                   b.messages[i].state \in {"complete", "failed"}
<1> DEFINE load(m) == [a EXCEPT !.messages = m,
                                !.active_user = 0, !.active_assistant = 0]
           l == LoadedMessages(r)
           b == load(l)
<1>1. l \in Seq(Message)
  BY LoadedMessagesType
<1>2. \A i \in DOMAIN l :
         l[i].role = "user" /\ l[i].state \in {"complete", "failed"}
  BY LoadedMessagesOver
<1> HIDE DEF l
<1>3. ASSUME NEW m \in Seq(Message) PROVE load(m) \in AppState
  BY DEF Resumes, AppState
<1>4. ASSUME NEW m \in Seq(Message)
      PROVE  /\ load(m).messages = m /\ Prepares(a, load(m))
             /\ load(m).active_user = 0 /\ load(m).active_assistant = 0
             /\ load(m).prompt_requests = a.prompt_requests
             /\ load(m).saved = a.saved
  BY DEF Resumes, AppState, Prepares
<1> HIDE DEF load
<1>5. /\ b \in AppState /\ b.messages = l /\ Prepares(a, b)
      /\ b.active_user = 0 /\ b.active_assistant = 0
      /\ b.prompt_requests = a.prompt_requests /\ b.saved = a.saved
  BY <1>1, <1>3, <1>4
<1> HIDE DEF b
<1>6. a.prompt_requests = {}
  <2>1. ~TurnStarted(a)
    BY DEF Resumes, Talk, Hydrates
  <2>2. \A i \in a.prompt_requests : i \in DOMAIN a.log /\ a.log[i].command = "prompt"
    BY DEF Resumes, Talk, Chat, Named, Written
  <2> QED BY <2>1, <2>2 DEF TurnStarted, TurnCommand
<1>7. Named(b)
  BY <1>5, <1>6 DEF Named
<1>8. Closed(b)
  BY <1>2, <1>5, <1>6 DEF Closed
<1> QED BY <1>2, <1>5, <1>6, <1>7, <1>8 DEF b, load, l

\* The connection becomes ready: nothing is written, and no prompt waits.
BecomesReady(a, b) ==
    /\ b.connection = "ready"
    /\ b.log = a.log
    /\ b.pending \subseteq a.pending /\ b.inbox \subseteq a.inbox
    /\ b.client /\ b.saved = a.saved /\ b.open = a.open
    /\ ~b.requires_reconciliation

\* A set-up on a live transport becomes ready.
LEMMA ReadyTalk ==
  ASSUME NEW a, Resumes(a), a.transport = "ready", a.open,
         NEW b \in AppState, BecomesReady(a, b), b.session_ready,
         b.process = a.process, b.transport = a.transport,
         b.recovery_attempted = a.recovery_attempted,
         b.shutdown_timer => a.shutdown_timer, Chat(b)
  PROVE  Talk(b)
<1>1. /\ Hydrating(b) = {}
      /\ \A c : Written(b, c) = Written(a, c)
      /\ \A c : Asked(b, c) => Asked(a, c)
  BY DEF Resumes, BecomesReady, Hydrating, Written, Asked
<1>2. Logged(b)
  BY DEF Resumes, Talk, Logged, BecomesReady
<1>3. Hydrates(b)
  BY <1>1 DEF Resumes, Talk, Hydrates, BecomesReady
<1>4. Recovers(b)
  BY <1>1 DEF Resumes, Talk, Recovers, BecomesReady
<1> QED BY <1>2, <1>3, <1>4 DEF Talk

\* _on_messages_response: ready on a clean branch only, and recovery at most once.
LEMMA OnHistoryContinues ==
  ASSUME NEW a, Resumes(a), a.transport = "ready", a.open, NEW r \in Reply
  PROVE  LET b == OnHistory(a, r)
         IN  /\ b \in AppState /\ Talk(b)
             /\ \/ Ends(a, b)
                \/ /\ Writes(a, b, "get_entries", 0)
                   /\ b.saved = a.saved /\ r.ok
                \/ BecomesReady(a, b) /\ r.ok /\ r.tail # "failed"
<1> DEFINE f == FailAndStop(a)
           b == [a EXCEPT !.messages = LoadedMessages(r),
                          !.active_user = 0, !.active_assistant = 0]
           c == [b EXCEPT !.session_ready = TRUE,
                          !.requires_reconciliation = FALSE,
                          !.connection = "ready"]
           d == StateChanged(c)
           g == FailAndStop(b)
           h == BeginFailedTurnRecovery(b, r)
<1>1. \/ OnHistory(a, r) = f
      \/ OnHistory(a, r) = d /\ r.ok /\ r.tail # "failed"
      \/ OnHistory(a, r) = g
      \/ OnHistory(a, r) = h /\ r.ok /\ ~b.recovery_attempted
  BY Zenon DEF OnHistory
<1>2. f \in AppState /\ Talk(f) /\ Ends(a, f)
  BY FailAndStopEnds DEF Resumes
<1>3. /\ b \in AppState /\ Prepares(a, b) /\ Named(b) /\ Closed(b)
      /\ b.prompt_requests = {} /\ b.saved = a.saved
      /\ \A i \in DOMAIN b.messages : b.messages[i].state \in {"complete", "failed"}
  BY LoadedPrepares, Zenon
<1> HIDE DEF b
<1>4. Chat(b)
  BY <1>3 DEF Chat, Tracked
<1>5. Resumes(b) /\ \A x : Written(b, x) = Written(a, x)
  BY <1>3, <1>4, PreparesResumes
<1>6. g \in AppState /\ Talk(g) /\ Ends(a, g)
  <2>1. g \in AppState /\ Talk(g) /\ Ends(b, g)
    BY <1>5, FailAndStopEnds DEF Resumes
  <2> HIDE DEF g
  <2> QED BY <1>3, <2>1 DEF Prepares, Ends
<1>7. d \in AppState /\ Talk(d) /\ BecomesReady(a, d)
  <2>1. "ready" \in ConnectionState
    BY DEF ConnectionState
  <2>2. c \in AppState
    BY <1>3, <2>1 DEF AppState
  <2>3. /\ BecomesReady(b, c) /\ SameChat(b, c) /\ c.session_ready
        /\ c.process = b.process /\ c.transport = b.transport
        /\ c.recovery_attempted = b.recovery_attempted
        /\ c.shutdown_timer = b.shutdown_timer
    BY <1>3, <1>5, <2>1 DEF Resumes, AppState, BecomesReady, SameChat
  <2> HIDE DEF c
  <2>4. d \in AppState /\ Untouched(c, d)
    BY <2>2, StateChangedUntouched, StateChangedFrame DEF SameLink
  <2> HIDE DEF d
  <2>5. Chat(c)
    <3>1. Named(c)
      BY <1>3, <2>3 DEF Named, SameChat, BecomesReady, Written
    <3>2. Tracked(c)
      BY <1>3, <2>3 DEF Tracked, SameChat
    <3>3. Closed(c)
      BY <1>3, <2>3 DEF Closed, SameChat, BecomesReady
    <3> QED BY <3>1, <3>2, <3>3 DEF Chat
  <2>6. b.transport = "ready" /\ b.open
    BY <1>3 DEF Prepares
  <2>7. Talk(c)
    BY <1>5, <2>2, <2>3, <2>5, <2>6, ReadyTalk
  <2>8. Talk(d)
    BY <2>4, <2>7, UntouchedGentle, GentleTalk
  <2> QED
    BY <1>3, <2>3, <2>4, <2>8
    DEF BecomesReady, Prepares, Untouched, SameRequests
<1>8. ASSUME ~b.recovery_attempted
      PROVE  /\ h \in AppState /\ Talk(h)
             /\ \/ Ends(a, h)
                \/ Writes(a, h, "get_entries", 0) /\ h.saved = a.saved
  <2> DEFINE e == [b EXCEPT !.recovery_attempted = TRUE,
                            !.session_ready = FALSE,
                            !.connection = "loading-session"]
             p == StateChanged(e)
  <2>1. "loading-session" \in ConnectionState
    BY DEF ConnectionState
  <2>2. e \in AppState
    BY <1>3, <2>1 DEF AppState
  <2>3. /\ e.log = b.log /\ e.inbox = b.inbox /\ e.pending = b.pending
        /\ e.client = b.client /\ e.connection = b.connection
        /\ ~e.session_ready /\ e.recovery_attempted
        /\ e.requires_reconciliation = b.requires_reconciliation
        /\ e.process = b.process /\ e.transport = b.transport
        /\ e.open = b.open /\ e.shutdown_timer = b.shutdown_timer
        /\ e.saved = b.saved /\ SameChat(b, e)
    BY <1>3, <1>5, <2>1 DEF Resumes, AppState, SameChat
  <2> HIDE DEF e
  <2>4. p \in AppState /\ Untouched(e, p)
    BY <2>2, StateChangedUntouched, StateChangedFrame DEF SameLink
  <2>5. h = SendOrStop(p, "get_entries", r.written)
    BY DEF BeginFailedTurnRecovery, e
  <2> HIDE DEF p, h
  <2>6. Resumes(p) /\ p.recovery_attempted /\ Written(p, "get_entries") = {}
    <3>1. SameChat(b, p)
      BY <2>3, <2>4 DEF Untouched, SameChat
    <3>2. /\ p.log = b.log /\ p.inbox = b.inbox /\ p.pending = b.pending
          /\ p.client = b.client /\ p.connection = b.connection
          /\ ~p.session_ready /\ p.recovery_attempted
          /\ p.requires_reconciliation = b.requires_reconciliation
          /\ p.process = b.process /\ p.transport = b.transport
          /\ p.open = b.open
          /\ p.shutdown_timer => b.shutdown_timer
      BY <2>3, <2>4 DEF Untouched, SameRequests
    <3>3. /\ Hydrating(p) = Hydrating(b)
          /\ \A x : Written(p, x) = Written(b, x)
          /\ \A x : Asked(p, x) <=> Asked(b, x)
          /\ TurnStarted(p) <=> TurnStarted(b)
      BY <3>2 DEF Hydrating, Written, Asked, TurnStarted
    <3>4. Written(b, "get_entries") = {}
      BY <1>5, <1>8 DEF Resumes, Talk, Recovers
    <3>5. Logged(p)
      BY <1>5, <3>2 DEF Resumes, Talk, Logged
    <3>6. Hydrates(p)
      BY <1>5, <3>2, <3>3 DEF Resumes, Talk, Hydrates
    <3>7. Recovers(p)
      BY <1>5, <3>2, <3>3 DEF Resumes, Talk, Recovers
    <3>8. Chat(p)
      <4>1. Named(p)
        BY <1>3, <3>1, <3>2 DEF Named, SameChat, Written
      <4>2. Tracked(p)
        BY <1>5, <3>2 DEF Tracked, Resumes
      <4>3. Closed(p)
        BY <1>3, <3>1, <3>2 DEF Closed, SameChat
      <4> QED BY <4>1, <4>2, <4>3 DEF Chat
    <3> QED
      BY <1>5, <2>4, <3>2, <3>3, <3>4, <3>5, <3>6, <3>7, <3>8 DEF Resumes, Talk
  <2>7. "get_entries" \in HydrationCommand /\ Timely(p, "get_entries")
    BY <2>6 DEF Timely, HydrationCommand, TurnCommand, Resumes
  <2>8. /\ Continues(p, h, "get_entries")
        /\ Writes(p, h, "get_entries", 0) => h.saved = p.saved
    BY <2>5, <2>6, <2>7, SendOrStopContinues
  <2>9. /\ p.log = a.log /\ p.inbox = a.inbox /\ p.pending = a.pending
        /\ p.client = a.client /\ p.connection = a.connection
        /\ p.recovery_attempted
        /\ p.requires_reconciliation = a.requires_reconciliation
        /\ p.process = a.process /\ p.transport = a.transport
        /\ p.open = a.open /\ p.saved = a.saved
    BY <1>3, <2>3, <2>4 DEF Untouched, SameRequests, Prepares
  <2>10. Ends(p, h) => Ends(a, h)
    BY <2>9 DEF Ends
  <2>11. Prepares(a, p)
    BY <1>3, <1>5, <2>3, <2>4, <2>9 DEF Untouched, SameRequests, Prepares, Resumes
  <2>12. Writes(p, h, "get_entries", 0) => Writes(a, h, "get_entries", 0)
    BY <2>11 DEF Prepares, Writes
  <2> QED BY <2>8, <2>9, <2>10, <2>12 DEF Continues
<1> HIDE DEF f, d, g, h
<1> QED BY <1>1, <1>2, <1>6, <1>7, <1>8

-----------------------------------------------------------------------------
\* The answer to a request

\* Pi has handled a command; its answer is delivered and the request is over.
Taken(a, id) == [a EXCEPT !.inbox = @ \ {id}]

Takes(a, b, id) ==
    /\ b.log = a.log
    /\ b.inbox = a.inbox \ {id} /\ b.pending = a.pending \ {id}
    /\ b.client = a.client /\ b.connection = a.connection
    /\ b.session_ready = a.session_ready
    /\ b.recovery_attempted = a.recovery_attempted
    /\ b.requires_reconciliation = a.requires_reconciliation
    /\ b.saved = a.saved /\ b.process = a.process /\ b.transport = a.transport
    /\ b.open = a.open
    /\ b.shutdown_timer => a.shutdown_timer

\* Pi's pipe is one command shorter.
LEMMA TakenGentle ==
  ASSUME NEW a \in AppState, NEW id
  PROVE  LET b == Taken(a, id)
         IN  /\ Gentle(a, b) /\ b \in AppState /\ SameChat(a, b)
             /\ b.log = a.log /\ b.pending = a.pending
             /\ b.inbox = a.inbox \ {id}
             /\ b.client = a.client /\ b.connection = a.connection
             /\ b.session_ready = a.session_ready
             /\ b.recovery_attempted = a.recovery_attempted
             /\ b.requires_reconciliation = a.requires_reconciliation
             /\ b.saved = a.saved /\ b.process = a.process
             /\ b.transport = a.transport /\ b.open = a.open
             /\ b.shutdown_timer = a.shutdown_timer
<1> DEFINE i == a.inbox \ {id}
           take(x) == [a EXCEPT !.inbox = x]
           b == take(i)
           Kept(g) == /\ g.log = a.log /\ g.pending = a.pending
                      /\ g.client = a.client /\ g.connection = a.connection
                      /\ g.session_ready = a.session_ready
                      /\ g.recovery_attempted = a.recovery_attempted
                      /\ g.requires_reconciliation = a.requires_reconciliation
                      /\ g.saved = a.saved /\ g.process = a.process
                      /\ g.transport = a.transport /\ g.open = a.open
                      /\ g.shutdown_timer = a.shutdown_timer
                      /\ SameChat(a, g)
<1>1. Taken(a, id) = b
  BY DEF Taken, AppState
<1>2. i \in SUBSET Nat /\ i = a.inbox \ {id}
  BY DEF AppState
<1>3. ASSUME NEW x \in SUBSET Nat
      PROVE  take(x) \in AppState /\ take(x).inbox = x /\ Kept(take(x))
  BY DEF AppState, SameChat
<1> HIDE DEF take, i, Kept
<1>4. b \in AppState /\ b.inbox = i /\ Kept(b)
  BY <1>2, <1>3
<1> HIDE DEF b
<1>5. Chat(a) => Chat(b)
  <2>1. Named(a) => Named(b)
    BY <1>4 DEF Kept, SameChat, Named, Written
  <2>2. Tracked(a) => Tracked(b)
    BY <1>4 DEF Kept, SameChat, Tracked
  <2>3. Closed(a) => Closed(b)
    BY <1>4 DEF Kept, SameChat, Closed
  <2> QED BY <2>1, <2>2, <2>3 DEF Chat
<1>6. StaysUncertain(a, b)
  BY <1>4 DEF Kept, SameChat, StaysUncertain
<1>7. Gentle(a, b)
  BY <1>2, <1>4, <1>5, <1>6
  DEF Kept, Gentle, Calm, Wanes, SameBlock, KeepsPhase
<1> QED BY <1>1, <1>2, <1>4, <1>7 DEF Kept

\* Up to the callback an answer settles its request and its message.
LEMMA AnswerTakes ==
  ASSUME NEW a \in AppState, NEW id, NEW r
  PROVE  LET b == OnPromptAnswer(RequestOver(Taken(a, id), id), id, r)
         IN  Gentle(a, b) /\ b \in AppState /\ Takes(a, b, id)
<1> DEFINE t == Taken(a, id)
           o == RequestOver(t, id)
           b == OnPromptAnswer(o, id, r)
<1>1. /\ Gentle(a, t) /\ t \in AppState
      /\ t.log = a.log /\ t.pending = a.pending
      /\ t.inbox = a.inbox \ {id}
      /\ t.client = a.client /\ t.connection = a.connection
      /\ t.session_ready = a.session_ready
      /\ t.recovery_attempted = a.recovery_attempted
      /\ t.requires_reconciliation = a.requires_reconciliation
      /\ t.saved = a.saved /\ t.process = a.process
      /\ t.transport = a.transport /\ t.open = a.open
      /\ t.shutdown_timer = a.shutdown_timer
  BY TakenGentle
<1> HIDE DEF t
<1>2. /\ Gentle(t, o) /\ o \in AppState
      /\ o.log = t.log /\ o.pending = t.pending \ {id}
      /\ o.connection = t.connection /\ o.process = t.process
      /\ o.open = t.open /\ o.client = t.client
      /\ o.transport = t.transport /\ o.inbox = t.inbox
      /\ o.session_ready = t.session_ready
      /\ o.requires_reconciliation = t.requires_reconciliation
      /\ o.saved = t.saved /\ o.recovery_attempted = t.recovery_attempted
      /\ o.shutdown_timer = t.shutdown_timer
  BY <1>1, AnsweredGentle
<1> HIDE DEF o
<1>4. Gentle(o, b) /\ SameRequests(o, b) /\ b \in AppState
  BY <1>2, OnPromptAnswerGentle
<1> HIDE DEF b
<1>5. Gentle(a, b)
  BY <1>1, <1>2, <1>4, GentleTrans
<1>6. Takes(a, b, id)
  BY <1>1, <1>2, <1>4 DEF SameRequests, Takes
<1> QED BY <1>4, <1>5, <1>6 DEF b, o, t

\* _after_clear_queue: an abort, or nothing.
LEMMA AfterClearQueueWrites ==
  ASSUME NEW a \in AppState, Talk(a), NEW r, a.process # "starting",
         a.connection \notin {"starting", "loading-session"}
  PROVE  LET b == AfterClearQueue(a, r)
         IN  \/ b = a
             \/ /\ Writes(a, b, "abort", 0) /\ Talk(b)
                /\ StaysUncertain(a, b) /\ b.saved = a.saved
<1> DEFINE d == Send(a, "abort", 0)
           e == NoteActivity(d)
<1>1. AfterClearQueue(a, r) \in {a, e}
  BY Zenon DEF AfterClearQueue
<1>2. "abort" \in HydrationCommand \cup TurnCommand /\ Timely(a, "abort")
  BY DEF TurnCommand, HydrationCommand, Timely
<1>3. /\ Writes(a, d, "abort", 0) /\ SameChat(a, d) /\ d \in AppState
      /\ d.saved = a.saved
  BY <1>2, SendWrites
<1> HIDE DEF d
<1>4. Chat(d) /\ StaysUncertain(a, d)
  BY <1>3, WritesChat DEF Talk
<1>5. Talk(d)
  BY <1>2, <1>3, <1>4, WritesTalk
<1>6. Untouched(d, e)
  BY <1>3, NoteActivityUntouched
<1> HIDE DEF e
<1>7. Talk(e) /\ e.saved = a.saved
  BY <1>3, <1>5, <1>6, UntouchedGentle, GentleTalk DEF Untouched, SameRequests
<1>8. Writes(a, e, "abort", 0)
  BY <1>3, <1>6 DEF Untouched, SameRequests, Writes
<1>9. StaysUncertain(a, e)
  BY <1>4, <1>6 DEF Untouched, SameChat, StaysUncertain
<1> QED BY <1>1, <1>7, <1>8, <1>9

\* The command that follows the answer to one of the set-up.
Follows(command, next) ==
    \/ command \in {"get_state", "get_recovered_state"} /\ next = "get_messages"
    \/ command = "get_messages" /\ next = "get_entries"
    \/ command = "get_entries" /\ next = "fork"
    \/ command = "fork" /\ next = "get_recovered_state"

\* The session that is saved when the next command is written.
SavesSession(command, r, a, b) ==
    b.saved = IF command \in {"get_state", "get_recovered_state"}
              THEN r.session ELSE a.saved

\* What the callback of a set-up request comes to.
SetUpOutcome(a, b, command, r) ==
    /\ Talk(b)
    /\ \/ Ends(a, b)
       \/ \E next \in HydrationCommand :
             /\ Follows(command, next) /\ r.ok
             /\ Writes(a, b, next, 0) /\ SavesSession(command, r, a, b)
       \/ /\ command = "get_messages" /\ r.ok /\ r.tail # "failed"
          /\ BecomesReady(a, b)

\* Noting the activity changes none of it.
LEMMA OutcomeNoted ==
  ASSUME NEW a, NEW b, NEW command, NEW r, SetUpOutcome(a, b, command, r),
         NEW d, Untouched(b, d)
  PROVE  SetUpOutcome(a, d, command, r)
<1>1. Talk(d)
  BY UntouchedGentle, GentleTalk DEF SetUpOutcome
<1>2. Ends(a, b) => Ends(a, d)
  BY DEF Ends, Untouched, SameRequests
<1>3. \A c : Writes(a, b, c, 0) => Writes(a, d, c, 0)
  BY DEF Writes, Untouched, SameRequests
<1>4. SavesSession(command, r, a, b) => SavesSession(command, r, a, d)
  BY DEF SavesSession, Untouched, SameRequests
<1>5. BecomesReady(a, b) => BecomesReady(a, d)
  BY DEF BecomesReady, Untouched, SameRequests
<1> QED BY <1>1, <1>2, <1>3, <1>4, <1>5 DEF SetUpOutcome

\* The five callbacks of the set-up.
LEMMA SetUpCallback ==
  ASSUME NEW a, Resumes(a), a.transport = "ready", a.open, NEW r \in Reply,
         NEW command \in HydrationCommand,
         command = "get_entries" =>
            Written(a, "fork") = {} /\ Written(a, "get_entries") # {}
  PROVE  SetUpOutcome(a, Callback(a, command, r), command, r)
<1>1. ASSUME NEW b \in AppState, SetUpOutcome(a, b, command, r)
      PROVE  SetUpOutcome(a, NoteActivity(b), command, r)
  BY <1>1, OutcomeNoted, NoteActivityUntouched
<1>2. CASE command = "get_state"
  <2> DEFINE b == OnSessionState(a, r)
  <2>1. Callback(a, command, r) = NoteActivity(b)
    BY <1>2, Zenon DEF Callback
  <2>2. /\ Continues(a, b, "get_messages")
        /\ Writes(a, b, "get_messages", 0) => b.saved = r.session /\ r.ok
    BY OnSessionStateContinues
  <2> HIDE DEF b
  <2>3. b \in AppState /\ SetUpOutcome(a, b, command, r)
    BY <1>2, <2>2 DEF Continues, SetUpOutcome, Follows, SavesSession, HydrationCommand
  <2> QED BY <1>1, <2>1, <2>3
<1>3. CASE command = "get_recovered_state"
  <2> DEFINE b == OnRecoveredState(a, r)
  <2>1. Callback(a, command, r) = NoteActivity(b)
    BY <1>3, Zenon DEF Callback
  <2>2. /\ Continues(a, b, "get_messages")
        /\ Writes(a, b, "get_messages", 0) => b.saved = r.session /\ r.ok
    BY OnRecoveredStateContinues
  <2> HIDE DEF b
  <2>3. b \in AppState /\ SetUpOutcome(a, b, command, r)
    BY <1>3, <2>2 DEF Continues, SetUpOutcome, Follows, SavesSession, HydrationCommand
  <2> QED BY <1>1, <2>1, <2>3
<1>4. CASE command = "get_entries"
  <2> DEFINE b == OnRecoveryEntries(a, r)
  <2>1. Callback(a, command, r) = NoteActivity(b)
    BY <1>4, Zenon DEF Callback
  <2>2. /\ Continues(a, b, "fork")
        /\ Writes(a, b, "fork", 0) => b.saved = a.saved /\ r.ok
    BY <1>4, OnRecoveryStepContinues
  <2> HIDE DEF b
  <2>3. b \in AppState /\ SetUpOutcome(a, b, command, r)
    BY <1>4, <2>2 DEF Continues, SetUpOutcome, Follows, SavesSession, HydrationCommand
  <2> QED BY <1>1, <2>1, <2>3
<1>5. CASE command = "fork"
  <2> DEFINE b == OnRecoveryFork(a, r)
  <2>1. Callback(a, command, r) = NoteActivity(b)
    BY <1>5, Zenon DEF Callback
  <2>2. /\ Continues(a, b, "get_recovered_state")
        /\ Writes(a, b, "get_recovered_state", 0) => b.saved = a.saved /\ r.ok
    BY OnRecoveryStepContinues
  <2> HIDE DEF b
  <2>3. b \in AppState /\ SetUpOutcome(a, b, command, r)
    BY <1>5, <2>2 DEF Continues, SetUpOutcome, Follows, SavesSession, HydrationCommand
  <2> QED BY <1>1, <2>1, <2>3
<1>6. CASE command = "get_messages"
  <2> DEFINE b == OnHistory(a, r)
  <2>1. Callback(a, command, r) = NoteActivity(b)
    BY <1>6, Zenon DEF Callback
  <2>2. /\ b \in AppState /\ Talk(b)
        /\ \/ Ends(a, b)
           \/ /\ Writes(a, b, "get_entries", 0)
              /\ b.saved = a.saved /\ r.ok
           \/ BecomesReady(a, b) /\ r.ok /\ r.tail # "failed"
    BY OnHistoryContinues
  <2> HIDE DEF b
  <2>3. SetUpOutcome(a, b, command, r)
    BY <1>6, <2>2 DEF SetUpOutcome, Follows, SavesSession, HydrationCommand
  <2> QED BY <1>1, <2>1, <2>2, <2>3
<1> QED BY <1>2, <1>3, <1>4, <1>5, <1>6 DEF HydrationCommand

\* What happened before the callback is part of the answer.
LEMMA TakesOutcome ==
  ASSUME NEW a, NEW b, NEW id \in DOMAIN a.log, Takes(a, b, id),
         NEW d, NEW command, NEW r, SetUpOutcome(b, d, command, r)
  PROVE  SetUpOutcome(a, d, command, r) /\ id \notin d.pending \cup d.inbox
<1>1. Ends(b, d) => Ends(a, d) /\ id \notin d.pending \cup d.inbox
  BY DEF Ends, Takes
<1>2. ASSUME NEW c, Writes(b, d, c, 0)
      PROVE  Writes(a, d, c, 0) /\ id \notin d.pending \cup d.inbox
  BY <1>2 DEF Writes, Takes
<1>3. SavesSession(command, r, b, d) => SavesSession(command, r, a, d)
  BY DEF SavesSession, Takes
<1>4. BecomesReady(b, d) => BecomesReady(a, d) /\ id \notin d.pending \cup d.inbox
  BY DEF BecomesReady, Takes
<1> QED BY <1>1, <1>2, <1>3, <1>4 DEF SetUpOutcome

\* AgentClient._on_response for a command Pi has just handled.
LEMMA OnResponseOutcome ==
  ASSUME NEW a, Sound(a), Talk(a), a.process = "running",
         NEW id \in a.inbox, NEW r \in Reply
  PROVE  LET b == OnResponse(Taken(a, id), id, r)
             command == a.log[id].command
         IN  \/ Gentle(a, b)
             \/ /\ id \in Hydrating(a) /\ id \notin b.pending \cup b.inbox
                /\ SetUpOutcome(a, b, command, r)
             \/ /\ id \in a.pending /\ id \notin b.pending
                /\ command = "clear_queue"
                /\ Writes(a, b, "abort", 0) /\ Talk(b)
                /\ StaysUncertain(a, b) /\ b.saved = a.saved
<1> DEFINE command == a.log[id].command
           t == Taken(a, id)
           x == OnPromptAnswer(RequestOver(t, id), id, r)
           b == OnResponse(t, id, r)
<1>0. /\ a \in AppState /\ id \in DOMAIN a.log
      /\ command \in HydrationCommand \cup TurnCommand
  BY CommandKinds DEF Sound, Talk, Logged
<1>1. Gentle(a, x) /\ x \in AppState /\ Takes(a, x, id)
  BY <1>0, AnswerTakes
<1>2. t.pending = a.pending /\ t.log = a.log
  BY <1>0, TakenGentle
<1>3. b = IF id \in a.pending THEN Callback(x, command, r) ELSE NoteActivity(x)
  BY <1>2, Zenon DEF OnResponse, RequestOver
<1>4. Talk(x)
  BY <1>1, GentleTalk
<1> HIDE DEF t, x, b
<1>5. CASE id \notin a.pending
  <2>1. Gentle(x, b)
    BY <1>1, <1>3, <1>5, NoteActivityGentle
  <2> QED BY <1>1, <2>1, GentleTrans DEF b, t
<1>6. CASE id \in a.pending /\ command \in HydrationCommand
  <2>1. id \in Hydrating(a)
    BY <1>6 DEF Hydrating
  <2>2. Hydrating(x) = {} /\ a.connection = "loading-session"
    BY <1>1, <2>1, HydrationOver DEF Takes
  <2>3. a.open /\ a.transport = "ready" /\ a.client
    BY <1>6 DEF Talk, Hydrates, Sound, Paired, Detached
  <2>4. Resumes(x) /\ x.transport = "ready" /\ x.open
    BY <1>1, <1>4, <2>2, <2>3 DEF Resumes, Takes
  <2>5. command = "get_entries" =>
           Written(x, "fork") = {} /\ Written(x, "get_entries") # {}
    BY <1>0, <1>1, <1>6 DEF Talk, Recovers, Asked, Written, Takes
  <2>6. SetUpOutcome(x, b, command, r)
    BY <1>3, <1>6, <2>4, <2>5, SetUpCallback
  <2>7. SetUpOutcome(a, b, command, r) /\ id \notin b.pending \cup b.inbox
    BY <1>0, <1>1, <2>6, TakesOutcome
  <2> QED BY <2>1, <2>7 DEF b, t
<1>7. CASE id \in a.pending /\ command \in TurnCommand
  <2>1. TurnStarted(a)
    BY <1>0, <1>7 DEF TurnStarted
  <2>2. a.connection \notin {"starting", "loading-session"}
    BY <2>1 DEF Talk, Hydrates
  <2>3. LinkOver(x)
    <3>1. Hydrating(a) = {}
      BY <2>2 DEF Talk, Hydrates
    <3>2. Hydrating(x) = {}
      BY <1>1, <3>1 DEF Takes, Hydrating
    <3> QED BY <1>1, <3>2 DEF Takes, LinkOver
  <2>4. CASE command = "clear_queue"
    <3>1. b = AfterClearQueue(x, r)
      BY <1>3, <1>7, <2>4, Zenon DEF Callback
    <3>2. x.process # "starting" /\ x.connection \notin {"starting", "loading-session"}
      BY <1>1, <2>2 DEF Takes
    <3>3. \/ b = x
          \/ /\ Writes(x, b, "abort", 0) /\ Talk(b)
             /\ StaysUncertain(x, b) /\ b.saved = x.saved
      BY <1>1, <1>4, <3>1, <3>2, AfterClearQueueWrites
    <3>4. CASE b = x
      BY <1>1, <3>4 DEF b, t
    <3>5. CASE /\ Writes(x, b, "abort", 0) /\ Talk(b)
               /\ StaysUncertain(x, b) /\ b.saved = x.saved
      <4>1. Writes(a, b, "abort", 0) /\ id \notin b.pending /\ b.saved = a.saved
        BY <1>0, <1>1, <3>5 DEF Writes, Takes
      <4>2. StaysUncertain(a, x)
        BY <1>1 DEF Gentle, Calm, Wanes, Talk
      <4>3. StaysUncertain(a, b)
        BY <3>5, <4>2, StaysUncertainTrans
      <4> QED BY <1>7, <2>4, <3>5, <4>1, <4>3 DEF b, t
    <3> QED BY <3>3, <3>4, <3>5
  <2>5. CASE command = "abort"
    <3> DEFINE y == AfterAbort(x, r)
    <3>1. b = NoteActivity(y)
      BY <1>3, <1>7, <2>5, Zenon DEF Callback
    <3>2. Gentle(x, y) /\ y \in AppState
      BY <1>1, <2>3, AfterAbortGentle
    <3> HIDE DEF y
    <3>3. Gentle(y, b)
      BY <3>1, <3>2, NoteActivityGentle
    <3> QED BY <1>1, <3>2, <3>3, GentleTrans DEF b, t
  <2>6. CASE command = "prompt"
    <3>1. b = NoteActivity(x)
      BY <1>3, <1>7, <2>6, Zenon DEF Callback
    <3>2. Gentle(x, b)
      BY <1>1, <3>1, NoteActivityGentle
    <3> QED BY <1>1, <3>2, GentleTrans DEF b, t
  <2> QED BY <1>7, <2>4, <2>5, <2>6 DEF TurnCommand
<1> QED BY <1>0, <1>5, <1>6, <1>7

-----------------------------------------------------------------------------
\* A connection begins

\* connect_agent: a new process, to which nothing was written.
LEMMA ConnectAgentTalk ==
  ASSUME NEW a, Sound(a), Talk(a), ~a.client, a.quit = "idle"
  PROVE  LET b == ConnectAgent(a)
         IN  /\ Talk(b) /\ StaysUncertain(a, b)
             /\ b.log = <<>> /\ b.pending = {} /\ b.inbox = {}
             /\ b.client /\ b.open /\ b.connection = "starting"
             /\ ~b.requires_reconciliation
<1> DEFINE b == BeginConnect(a)
           new == [b EXCEPT
                     !.client = TRUE, !.turn = "idle",
                     !.pending = {}, !.deadlines = {}, !.watch = FALSE,
                     !.auto_retry = FALSE,
                     !.transport = "starting", !.startup_timer = TRUE,
                     !.shutdown_timer = FALSE,
                     !.process = "starting", !.signal = "none", !.open = TRUE,
                     !.log = <<>>, !.inbox = {}]
           last == [new EXCEPT !.connection = "starting"]
<1>0. a \in AppState /\ Detached(a)
  BY DEF Sound
<1>1. /\ b \in AppState /\ SameChat(a, b)
      /\ ~b.requires_reconciliation /\ ~b.recovery_attempted
      /\ b.connection = "starting" /\ b.quit = "idle"
  BY <1>0, BeginConnectFrame, BeginConnectChat DEF Unconnected
<1>2. ConnectAgent(a) = StateChanged(last)
  BY Zenon DEF ConnectAgent, OnTransportStarting
<1> HIDE DEF b
<1>3. /\ last.log = <<>> /\ last.pending = {} /\ last.inbox = {}
      /\ last.client /\ last.open /\ last.process = "starting"
      /\ ~last.shutdown_timer
  BY <1>1 DEF AppState
<1>4. /\ last.connection = "starting"
      /\ last.requires_reconciliation = b.requires_reconciliation
      /\ last.recovery_attempted = b.recovery_attempted
      /\ last.quit = b.quit /\ SameChat(b, last)
  BY <1>1 DEF AppState, SameChat
<1> HIDE DEF last
<1>5. StateChanged(last) = last
  BY <1>1, <1>4 DEF StateChanged
<1>6. a.prompt_requests = {} /\ SameChat(a, last)
  BY <1>0, <1>1, <1>4 DEF Detached, SameChat
<1>7. Chat(last)
  <2>1. Named(last)
    BY <1>6 DEF Talk, Chat, Named, SameChat
  <2>2. Tracked(last)
    BY <1>4 DEF Tracked
  <2>3. Closed(last)
    BY <1>6 DEF Talk, Chat, Closed, SameChat
  <2> QED BY <2>1, <2>2, <2>3 DEF Chat
<1>8. DOMAIN last.log = {}
  BY <1>3
<1>9. Logged(last)
  BY <1>3, <1>8 DEF Logged
<1>10. Hydrates(last)
  BY <1>1, <1>3, <1>4, <1>8 DEF Hydrates, Hydrating, TurnStarted
<1>11. Recovers(last)
  BY <1>8 DEF Recovers, Written
<1>12. StaysUncertain(a, last)
  BY <1>6 DEF SameChat, StaysUncertain
<1> QED
  BY <1>1, <1>2, <1>3, <1>4, <1>5, <1>7, <1>9, <1>10, <1>11, <1>12 DEF Talk

\* _on_started, then the first request of the set-up; the state of a connection
\* that was being stopped is overwritten, its closed pipe is not.
LEMMA OnStartedTalk ==
  ASSUME NEW a, Sound(a), Talk(a), a.client, a.process = "starting", NEW written
  PROVE  LET b == OnStarted(a, written)
         IN  /\ Talk(b) /\ StaysUncertain(a, b)
             /\ a.log = <<>> /\ a.connection # "ready"
             /\ \A i \in DOMAIN b.log : b.log[i].command = "get_state"
             /\ b.client => ~a.requires_reconciliation /\ ~b.requires_reconciliation
             /\ \/ b.connection = "loading-session" /\ b.client /\ b.open = a.open
                \/ b.connection \in {"disconnected", "stopping", "failed"}
<1> DEFINE g == [a EXCEPT !.process = "running", !.startup_timer = FALSE,
                          !.transport = "ready",
                          !.connection = "loading-session",
                          !.session_ready = FALSE]
           d == SendOrStop(g, "get_state", written)
           b == StateChanged(d)
<1>0. a \in AppState
  BY DEF Sound
<1>1. OnStarted(a, written) = b
  BY Zenon DEF OnStarted
<1>2. /\ "loading-session" \in ConnectionState /\ "ready" \in TransportState
  BY DEF ConnectionState, TransportState
<1>3. g \in AppState
  BY <1>0, <1>2 DEF AppState
<1>4. /\ g.log = a.log /\ g.pending = a.pending /\ g.inbox = a.inbox
      /\ g.client = a.client /\ g.open = a.open
      /\ g.requires_reconciliation = a.requires_reconciliation
      /\ g.recovery_attempted = a.recovery_attempted
      /\ g.shutdown_timer = a.shutdown_timer
      /\ g.process = "running" /\ g.transport = "ready"
      /\ g.connection = "loading-session"
      /\ SameChat(a, g)
  BY <1>0, <1>2 DEF AppState, SameChat
<1> HIDE DEF g
<1>5. a.log = <<>> /\ DOMAIN a.log = {}
  BY DEF Talk, Logged
<1>6. a.pending = {} /\ a.inbox = {} /\ ~TurnStarted(a) /\ a.prompt_requests = {}
  BY <1>5 DEF Talk, Logged, TurnStarted, Chat, Named, Written
<1>7. ~a.requires_reconciliation /\ a.connection # "ready"
  BY <1>6 DEF Talk, Hydrates
<1>8. Resumes(g)
  <2>1. DOMAIN g.log = {}
    BY <1>4, <1>5
  <2>2. Logged(g)
    BY <1>4, <1>6 DEF Logged
  <2>3. Hydrates(g)
    BY <1>4, <1>6, <1>7, <2>1 DEF Talk, Hydrates, Hydrating, TurnStarted
  <2>4. Recovers(g)
    BY <2>1 DEF Recovers, Written
  <2>5. Chat(g)
    <3>1. Named(g)
      BY <1>4, <1>6 DEF Talk, Chat, Named, SameChat
    <3>2. Tracked(g)
      BY <1>4 DEF Tracked
    <3>3. Closed(g)
      BY <1>4, <1>6 DEF Talk, Chat, Closed, SameChat
    <3> QED BY <3>1, <3>2, <3>3 DEF Chat
  <2>6. Hydrating(g) = {}
    BY <1>4, <1>6 DEF Hydrating
  <2> QED
    BY <1>3, <1>4, <2>2, <2>3, <2>4, <2>5, <2>6 DEF Resumes, Talk
<1>9. Continues(g, d, "get_state") /\ StaysUncertain(g, d)
  <2>1. "get_state" \in HydrationCommand /\ Timely(g, "get_state")
    BY <1>8, SetUpTimely
  <2> QED BY <1>8, <2>1, SendOrStopContinues
<1> HIDE DEF d
<1>10. d \in AppState /\ Untouched(d, b)
  BY <1>9, StateChangedUntouched DEF Continues
<1> HIDE DEF b
<1>11. Talk(b)
  BY <1>9, <1>10, UntouchedGentle, GentleTalk DEF Continues
<1>12. StaysUncertain(a, b)
  BY <1>4, <1>9, <1>10 DEF SameChat, StaysUncertain, Untouched
<1>13. \A i \in DOMAIN b.log : b.log[i].command = "get_state"
  <2>1. b.log = d.log
    BY <1>10 DEF Untouched, SameRequests
  <2>2. CASE Ends(g, d)
    BY <1>4, <1>5, <2>1, <2>2 DEF Ends
  <2>3. CASE Writes(g, d, "get_state", 0)
    BY <1>4, <1>5, <2>1, <2>3 DEF Writes
  <2> QED BY <1>9, <2>2, <2>3 DEF Continues
<1>14. /\ b.client => ~b.requires_reconciliation
       /\ \/ b.connection = "loading-session" /\ b.client /\ b.open = a.open
          \/ b.connection \in {"disconnected", "stopping", "failed"}
  BY <1>4, <1>7, <1>9, <1>10
  DEF Continues, Ends, Writes, Untouched, SameRequests
<1> QED BY <1>1, <1>5, <1>7, <1>11, <1>12, <1>13, <1>14

-----------------------------------------------------------------------------
\* Commands of the user

\* The handler wrote one command; every uncertain message is still one.
WritesTurn(a, b, c) ==
    /\ \E m : Writes(a, b, c, m)
    /\ Talk(b) /\ StaysUncertain(a, b) /\ b.saved = a.saved

\* A ready connection has no set-up under way.
LEMMA ReadyIsOver ==
  ASSUME NEW a, Talk(a), a.connection = "ready"
  PROVE  LinkOver(a) /\ a.process # "starting"
BY DEF Talk, Hydrates, LinkOver

\* send_message: the prompt names the message just shown, or that message is
\* marked failed and the connection with it.
LEMMA SendMessageWrites ==
  ASSUME NEW a, Sound(a), Talk(a), CanSend(a), NEW written
  PROVE  LET b == SendMessage(a, written)
         IN  Gentle(a, b) \/ WritesTurn(a, b, "prompt")
<1> DEFINE b == AppendMessage(a, "user", "sending")
           i == Len(b.messages)
           id == Len(a.log) + 1
           c == Send(b, "prompt", i)
           p == c.prompt_requests \cup {id}
           mark(q) == [c EXCEPT !.active_user = i, !.prompt_requests = q]
           d == mark(p)
           e == MarkMessage(b, i, "failed")
<1>0. /\ a \in AppState /\ a.connection = "ready" /\ LinkOver(a)
      /\ a.process # "starting"
  BY ReadyIsOver DEF Sound, CanSend
<1>1. /\ "sending" \in MessageState /\ "failed" \in MessageState
      /\ "user" \in {"user", "assistant"}
  BY DEF MessageState
<1>2. /\ SameRequests(a, b) /\ Grown(a, b, "user", "sending")
      /\ i = Len(a.messages) + 1
      /\ b.prompt_requests = a.prompt_requests
      /\ b.active_user = a.active_user
      /\ b.active_assistant = a.active_assistant
      /\ b \in AppState
  BY <1>0, <1>1, AppendMessageFrame, AppendMessageSame DEF Silent, SameLink
<1>3. /\ CanWrite(b, written) => SendMessage(a, written)
            = StateChanged([c EXCEPT !.active_user = i,
                                     !.prompt_requests = @ \cup {id}])
      /\ ~CanWrite(b, written) => SendMessage(a, written) = Fail(e)
  BY Zenon DEF SendMessage
<1> HIDE DEF b
<1>4. i \in Nat /\ id \in Nat
  BY <1>0, <1>2 DEF AppState
<1>5. CASE CanWrite(b, written)
  <2>0. b.log = a.log
    BY <1>2 DEF SameRequests
  <2>a. "prompt" \in HydrationCommand \cup TurnCommand
    BY DEF TurnCommand
  <2> HIDE DEF i
  <2>1. /\ Writes(b, c, "prompt", i) /\ SameChat(b, c) /\ c \in AppState
        /\ c.saved = b.saved
    BY <1>2, <1>4, <2>a, SendWrites
  <2>2. SendMessage(a, written) = StateChanged(d)
    <3>1. [c EXCEPT !.active_user = i, !.prompt_requests = @ \cup {id}] = d
      BY <2>1 DEF AppState
    <3> QED BY <1>3, <1>5, <3>1
  <2> HIDE DEF c
  <2>3. p \in SUBSET Nat /\ p = c.prompt_requests \cup {id}
    BY <1>4, <2>1 DEF AppState
  <2>4. ASSUME NEW q \in SUBSET Nat
        PROVE  /\ mark(q) \in AppState /\ SameRequests(c, mark(q))
               /\ mark(q).prompt_requests = q /\ mark(q).messages = c.messages
               /\ mark(q).active_user = i
               /\ mark(q).active_assistant = c.active_assistant
    <3>1. mark(q) \in AppState
      BY <1>4, <2>1 DEF AppState
    <3> QED BY <1>4, <2>1, <3>1 DEF AppState, SameRequests
  <2> HIDE DEF mark, p
  <2>5. /\ d \in AppState /\ SameRequests(c, d)
        /\ d.prompt_requests = p /\ d.messages = c.messages
        /\ d.active_user = i /\ d.active_assistant = c.active_assistant
    BY <2>3, <2>4
  <2> DEFINE f == StateChanged(d)
  <2>6. Untouched(d, f)
    BY <2>5, StateChangedUntouched
  <2> HIDE DEF d, f
  <2>7. Writes(a, f, "prompt", i) /\ f.saved = a.saved
    BY <1>2, <2>1, <2>5, <2>6 DEF SameRequests, Writes, Untouched
  <2>8. /\ f.prompt_requests = a.prompt_requests \cup {id}
        /\ f.messages = b.messages
        /\ f.active_user = i /\ f.active_assistant = a.active_assistant
    BY <1>2, <2>1, <2>3, <2>5, <2>6 DEF Untouched, SameChat
  <2>9. /\ i \in DOMAIN f.messages /\ i \notin DOMAIN a.messages
        /\ f.messages[i].role = "user" /\ f.messages[i].state = "sending"
        /\ \A j \in DOMAIN f.messages : j \in DOMAIN a.messages \/ j = i
        /\ \A j \in DOMAIN a.messages :
              /\ j \in DOMAIN f.messages
              /\ f.messages[j].role = a.messages[j].role
              /\ f.messages[j].state = a.messages[j].state
    BY <1>2, <2>8 DEF Grown
  <2>10. /\ id \in DOMAIN f.log /\ id \notin DOMAIN a.log
         /\ f.log[id].command = "prompt" /\ f.log[id].message = i
         /\ \A j \in DOMAIN a.log : j \in DOMAIN f.log /\ f.log[j] = a.log[j]
         /\ f.connection = "ready"
    BY <1>0, <2>7 DEF Writes
  <2> HIDE DEF id
  <2>11. Chat(f)
    <3>0. /\ \A j \in a.prompt_requests :
                /\ j \in DOMAIN a.log /\ a.log[j].command = "prompt"
                /\ a.log[j].message \in DOMAIN a.messages
                /\ a.messages[a.log[j].message].role = "user"
          /\ \A j, k \in a.prompt_requests :
                a.log[j].message = a.log[k].message => j = k
          /\ a.active_assistant # 0 =>
                /\ a.active_assistant \in DOMAIN a.messages
                /\ a.messages[a.active_assistant].role = "assistant"
      BY DEF Talk, Chat, Named, Written
    <3>1. Named(f)
      <4>1. \A j \in f.prompt_requests :
               /\ j \in Written(f, "prompt")
               /\ f.log[j].message \in DOMAIN f.messages
               /\ f.messages[f.log[j].message].role = "user"
        BY <2>8, <2>9, <2>10, <3>0 DEF Written
      <4>2. \A j, k \in f.prompt_requests :
               f.log[j].message = f.log[k].message => j = k
        BY <2>8, <2>9, <2>10, <3>0
      <4>3. /\ f.active_user # 0 =>
                  /\ f.active_user \in DOMAIN f.messages
                  /\ f.messages[f.active_user].role = "user"
            /\ f.active_assistant # 0 =>
                  /\ f.active_assistant \in DOMAIN f.messages
                  /\ f.messages[f.active_assistant].role = "assistant"
        BY <2>8, <2>9, <3>0
      <4> QED BY <4>1, <4>2, <4>3 DEF Named
    <3>2. Tracked(f)
      <4>1. \A j \in DOMAIN a.messages :
               /\ a.messages[j].state = "sending" =>
                     \E k \in a.prompt_requests : a.log[k].message = j
               /\ a.messages[j].state = "streaming" => j = a.active_assistant
        BY <1>0 DEF Talk, Chat, Tracked
      <4> QED BY <2>8, <2>9, <2>10, <3>0, <4>1 DEF Tracked
    <3>3. Closed(f)
      <4>1. \A j \in DOMAIN a.messages :
               a.messages[j].state = "uncertain" =>
                   /\ a.messages[j].role = "user"
                   /\ \A k \in a.prompt_requests : a.log[k].message # j
        BY DEF Talk, Chat, Closed
      <4> QED BY <2>8, <2>9, <2>10, <3>0, <4>1 DEF Closed
    <3> QED BY <3>1, <3>2, <3>3 DEF Chat
  <2>12. "prompt" \in TurnCommand /\ Timely(a, "prompt")
    BY <1>0 DEF TurnCommand, HydrationCommand, Timely
  <2>13. Talk(f)
    BY <2>7, <2>11, <2>12, WritesTalk
  <2>14. StaysUncertain(a, f)
    BY <2>9 DEF StaysUncertain
  <2>15. SendMessage(a, written) = f
    BY <2>2 DEF f
  <2> QED BY <2>7, <2>13, <2>14, <2>15 DEF WritesTurn
<1>6. CASE ~CanWrite(b, written)
  <2>1. /\ SameRequests(b, e)
        /\ e.prompt_requests = b.prompt_requests
        /\ e.active_user = b.active_user
        /\ e.active_assistant = b.active_assistant
        /\ DOMAIN e.messages = DOMAIN b.messages
        /\ \A j \in DOMAIN b.messages :
              /\ e.messages[j].role = b.messages[j].role
              /\ e.messages[j].state = IF j = i THEN "failed" ELSE b.messages[j].state
        /\ e \in AppState
    BY <1>1, <1>2, MarkMessageFrame, MarkMessageSame DEF Silent, SameLink
  <2>2. SendMessage(a, written) = Fail(e)
    BY <1>3, <1>6
  <2> HIDE DEF e
  <2>3. SameRequests(a, e) /\ Grown(a, e, "user", "failed")
    BY <1>2, <2>1 DEF SameRequests, Grown
  <2>4. Gentle(a, e)
    BY <1>2, <2>1, <2>3, AppendedGentle
  <2>5. LinkOver(e)
    BY <1>0, <2>3 DEF LinkOver, Hydrating, SameRequests
  <2>6. Gentle(e, Fail(e))
    BY <2>1, <2>5, FailGentle
  <2> QED BY <2>2, <2>4, <2>6, GentleTrans
<1> QED BY <1>5, <1>6

\* request_stop: a clear_queue, or a turn that stays cancelling.
LEMMA RequestStopWrites ==
  ASSUME NEW a, Sound(a), Talk(a), CanStop(a), NEW written
  PROVE  LET b == RequestStop(a, written)
         IN  Gentle(a, b) \/ WritesTurn(a, b, "clear_queue")
<1> DEFINE s == StateChanged(a)
           b == SetTurn(s, "cancelling")
           c == Send(b, "clear_queue", 0)
<1>0. a \in AppState /\ a.connection = "ready" /\ a.process # "starting"
  BY ReadyIsOver DEF Sound, CanStop
<1>1. RequestStop(a, written) \in {b, c}
  BY Zenon DEF RequestStop
<1>2. s \in AppState /\ Untouched(a, s)
  BY <1>0, StateChangedUntouched, StateChangedFrame DEF SameLink
<1> HIDE DEF s
<1>3. b \in AppState /\ Untouched(s, b)
  BY <1>2, SetTurnUntouched DEF TurnState
<1> HIDE DEF b
<1>4. Untouched(a, b)
  BY <1>2, <1>3, UntouchedTrans
<1>5. Gentle(a, b) /\ Talk(b)
  BY <1>4, UntouchedGentle, GentleTalk
<1>6. "clear_queue" \in TurnCommand /\ Timely(b, "clear_queue")
  BY <1>0, <1>4 DEF TurnCommand, HydrationCommand, Timely, Untouched, SameRequests
<1>7. /\ Writes(b, c, "clear_queue", 0) /\ SameChat(b, c) /\ c.saved = b.saved
  BY <1>3, <1>6, SendWrites
<1> HIDE DEF c
<1>8. Chat(c)
  BY <1>5, <1>7, WritesChat DEF Talk
<1>9. Talk(c)
  BY <1>5, <1>6, <1>7, <1>8, WritesTalk
<1>10. Writes(a, c, "clear_queue", 0) /\ c.saved = a.saved
  BY <1>4, <1>7 DEF Untouched, SameRequests, Writes
<1>11. StaysUncertain(a, c)
  BY <1>4, <1>7 DEF Untouched, SameChat, StaysUncertain
<1> QED BY <1>1, <1>5, <1>9, <1>10, <1>11 DEF WritesTurn
=============================================================================
