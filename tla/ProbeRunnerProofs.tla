------------------------- MODULE ProbeRunnerProofs -------------------------
(***************************************************************************)
(* Lemmas about the slots of QtProbeRunner, for every set of probes.       *)
(* Preflight and the sandbox gate use their runners in the same way: a     *)
(* slot either leaves a process alive or tells the owner that its run is   *)
(* over.                                                                   *)
(***************************************************************************)
EXTENDS ProbeRunner, TLAPS

\* A runner between two turns of the event loop: the process it holds is
\* alive and unreported; the one it gave up was killed, and the owner hears no
\* more of it.
RunnerSound(r) ==
    /\ r \in Runner
    /\ r.process => /\ r.os # "none" /\ r.handler # 0 /\ r.probe \in ProbeId
                    /\ ~r.cancelled /\ ~r.reported
    /\ ~r.process /\ r.os # "none" => r.killed /\ r.cancelled /\ r.handler = 0
    /\ r.process /\ r.timer => r.os = "running"

\* A runner in the slot that learns of the end of its process.
Ending(r) ==
    /\ r \in Runner
    /\ r.process /\ r.os = "none" /\ r.handler # 0 /\ r.probe \in ProbeId
    /\ ~r.cancelled /\ ~r.reported

\* What StartNext is called with.
Ready(r) == r \in Runner /\ ~r.cancelled /\ r.handler # 0 /\ r.os = "none" /\ ~r.timer

\* The run of r goes on exactly as long as there is a process.
Continues(reply, r) ==
    /\ RunnerSound(reply.runner)
    /\ reply.runner.handler = r.handler
    /\ reply.finished \in BOOLEAN
    /\ reply.finished <=> ~reply.runner.process
    /\ r.queue = <<>> => reply.runner.queue = <<>> /\ reply.finished

\* What the owner of a new runner can rely on.
Begins(reply, run) ==
    /\ RunnerSound(reply.runner)
    /\ reply.runner.handler = run
    /\ reply.finished <=> ~reply.runner.process

\* What the owner of a runner can rely on after any signal of its process.
Accepts(reply, r) ==
    /\ RunnerSound(reply.runner)
    /\ reply.finished \in BOOLEAN
    /\ r.queue = <<>> => reply.runner.queue = <<>> /\ (reply.results # <<>> => reply.finished)
    /\ r.process => /\ reply.runner.handler = r.handler
                    /\ reply.finished <=> ~reply.runner.process
    /\ ~r.process => ~reply.runner.process /\ reply.results = <<>> /\ ~reply.finished

-----------------------------------------------------------------------------
\* The probes that fail inside start() use up the queue, or the next one is
\* alive (probe_runner.py, _start_next).
LEMMA ExhaustedSound ==
  ASSUME NEW r, Ready(r), NEW failing
  PROVE  LET e == Exhausted(r, failing)
         IN  RunnerSound(e) /\ e.handler = r.handler /\ ~e.process /\ e.queue = <<>>
<1> DEFINE late == r.timed_out /\ failing = 0
           told == r.reported \/ failing > 0
           e == Exhausted(r, failing)
<1>1. late \in BOOLEAN /\ told \in BOOLEAN
  OBVIOUS
<1>2. e = [r EXCEPT !.process = FALSE, !.probe = NoProbe, !.queue = <<>>,
                    !.timed_out = late, !.reported = told]
  BY DEF Ready, Exhausted, Disposed, Runner
<1> HIDE DEF late, told, e
<1>3. <<>> \in Seq(ProbeId)
  OBVIOUS
<1>4. e \in Runner
  BY <1>1, <1>2, <1>3 DEF Ready, Runner
<1>5. e.handler = r.handler /\ ~e.process /\ e.queue = <<>> /\ e.os = "none"
  BY <1>2 DEF Ready, Runner
<1> QED BY <1>4, <1>5 DEF RunnerSound, e

\* See ExhaustedSound.
LEMMA BegunSound ==
  ASSUME NEW r, Ready(r), NEW failing \in 0..Len(r.queue), failing # Len(r.queue)
  PROVE  LET b == Begun(r, failing)
         IN  RunnerSound(b) /\ b.handler = r.handler /\ b.process
<1> DEFINE b == Begun(r, failing)
           rest == SubSeq(r.queue, failing + 2, Len(r.queue))
           probe == r.queue[failing + 1]
<1>1. r.queue \in Seq(ProbeId) /\ Len(r.queue) \in Nat
  BY DEF Ready, Runner
<1>2. probe \in ProbeId /\ rest \in Seq(ProbeId)
  BY <1>1
<1>3. b = [r EXCEPT !.queue = rest, !.probe = probe, !.process = TRUE, !.timed_out = FALSE,
                    !.reported = FALSE, !.os = "starting", !.killed = FALSE]
  BY DEF Begun
<1> HIDE DEF b, rest, probe
<1>4. b \in Runner
  BY <1>2, <1>3 DEF Ready, Runner
<1>5. /\ b.handler = r.handler /\ b.process /\ b.os = "starting" /\ b.probe \in ProbeId
      /\ ~b.cancelled /\ ~b.reported /\ ~b.timer
  BY <1>2, <1>3 DEF Ready, Runner
<1>6. b.handler # 0
  BY <1>5 DEF Ready
<1> QED BY <1>4, <1>5, <1>6 DEF RunnerSound, b

\* A runner that starts its next probe goes on or says that it is done.
LEMMA StartNextContinues ==
  ASSUME NEW r, Ready(r), NEW failing \in 0..Len(r.queue), NEW stdout
  PROVE  Continues(StartNext(r, failing, stdout), r)
<1> DEFINE s == StartNext(r, failing, stdout)
<1>0. ~r.cancelled /\ r.handler # 0 /\ r.queue \in Seq(ProbeId)
  BY DEF Ready, Runner
<1>1. CASE failing = Len(r.queue)
  <2>1. s.runner = Exhausted(r, failing) /\ s.finished = TRUE
    BY <1>0, <1>1 DEF StartNext, Reply
  <2> QED BY <2>1, ExhaustedSound DEF Continues
<1>2. CASE failing # Len(r.queue)
  <2>1. s.runner = Begun(r, failing) /\ s.finished = FALSE
    BY <1>0, <1>2 DEF StartNext, Reply
  <2>2. r.queue # <<>>
    BY <1>0, <1>2
  <2> QED BY <2>1, <2>2, <1>2, BegunSound DEF Continues
<1> QED BY <1>1, <1>2

\* Fresh runners, with or without a run (probe_runner.py, __init__, start).
LEMMA NewRunnerSound ==
  ASSUME NEW probes \in Seq(ProbeId), NEW run \in Nat
  PROVE  /\ NewRunner \in Runner /\ RunnerSound(NewRunner) /\ ~NewRunner.process
         /\ [NewRunner EXCEPT !.queue = probes, !.handler = run] \in Runner
<1>1. <<>> \in Seq(ProbeId)
  OBVIOUS
<1>2. NewRunner \in Runner
  BY <1>1 DEF NewRunner, Runner
<1>3. ~NewRunner.process /\ NewRunner.os = "none"
  BY DEF NewRunner
<1>4. [NewRunner EXCEPT !.queue = probes, !.handler = run] \in Runner
  BY <1>2 DEF Runner
<1> QED BY <1>2, <1>3, <1>4 DEF RunnerSound

\* A new runner goes on or says that it is done.
LEMMA StartContinues ==
  ASSUME NEW probes \in Seq(ProbeId), NEW run \in Nat \ {0},
         NEW failing \in 0..Len(probes), NEW stdout
  PROVE  Begins(Start(probes, run, failing, stdout), run)
<1> DEFINE r == [NewRunner EXCEPT !.queue = probes, !.handler = run]
<1>1. r \in Runner
  BY NewRunnerSound
<1>2. /\ r.queue = probes /\ r.handler = run /\ ~r.cancelled /\ r.os = "none" /\ ~r.timer
  BY DEF NewRunner
<1>3. Start(probes, run, failing, stdout) = StartNext(r, failing, stdout)
  BY DEF Start
<1> HIDE DEF r
<1>4. Ready(r)
  BY <1>1, <1>2 DEF Ready
<1> DEFINE reply == StartNext(r, failing, stdout)
<1>5. Continues(reply, r)
  BY <1>2, <1>4, StartNextContinues
<1> HIDE DEF reply
<1>6. Begins(reply, run)
  BY <1>2, <1>5 DEF Continues, Begins
<1> QED BY <1>3, <1>6 DEF reply

\* The process ended: its result is reported and the queue goes on
\* (probe_runner.py, _report_current, _dispose_and_continue).
LEMMA ReportAndContinueContinues ==
  ASSUME NEW r, Ending(r), NEW failing \in 0..Len(r.queue), NEW result
  PROVE  Continues(ReportAndContinue(r, result, failing), r)
<1> DEFINE told == ReportCurrent(r, result)
           reported == Reported(r)
           left == Disposed(reported)
           next == StartNext(left, failing, result.stdout)
<1>1. told.runner = reported /\ told.finished = FALSE
  BY ProbeAssumption DEF ReportCurrent, Ending, Reply
<1>2. /\ reported = [r EXCEPT !.reported = TRUE, !.timer = FALSE]
      /\ left = [reported EXCEPT !.process = FALSE, !.probe = NoProbe]
  BY DEF Reported, Disposed
<1>3. ReportAndContinue(r, result, failing).runner = next.runner
      /\ ReportAndContinue(r, result, failing).finished = (told.finished \/ next.finished)
  BY <1>1 DEF ReportAndContinue, Then, DisposeAndContinue, Reply
<1> HIDE DEF told, reported, left, next
<1>4. reported \in Runner /\ reported.os = "none" /\ ~reported.cancelled /\ ~reported.timer
      /\ reported.handler = r.handler /\ reported.queue = r.queue
  BY <1>2 DEF Ending, Runner
<1>5. left \in Runner /\ left.os = "none" /\ ~left.cancelled /\ ~left.timer
      /\ left.handler = r.handler /\ left.queue = r.queue
  BY <1>2, <1>4 DEF Runner
<1>6. Ready(left)
  BY <1>5 DEF Ready, Ending
<1>7. Continues(next, left)
  BY <1>5, <1>6, StartNextContinues DEF next
<1> QED BY <1>1, <1>3, <1>5, <1>7 DEF Continues

\* The last probe of a queue reports exactly its own result (probe_runner.py,
\* _report_current).
LEMMA LastProbeTells ==
  ASSUME NEW r, Ending(r), r.queue = <<>>, NEW result
  PROVE  ReportAndContinue(r, result, 0).results = << <<r.probe, result>> >>
<1> DEFINE told == ReportCurrent(r, result)
           reported == Reported(r)
           left == Disposed(reported)
           next == StartNext(left, 0, result.stdout)
<1>1. told.runner = reported /\ told.results = Report(r, result)
  BY ProbeAssumption DEF ReportCurrent, Ending, Reply
<1>2. /\ reported = [r EXCEPT !.reported = TRUE, !.timer = FALSE]
      /\ left = [reported EXCEPT !.process = FALSE, !.probe = NoProbe]
  BY DEF Reported, Disposed
<1>3. ReportAndContinue(r, result, 0).results = told.results \o next.results
  BY <1>1 DEF ReportAndContinue, Then, DisposeAndContinue, Reply
<1>4. Report(r, result) = << <<r.probe, result>> >>
  BY DEF Report, Ending
<1> HIDE DEF told, reported, left
<1>5. reported \in Runner /\ ~reported.cancelled /\ reported.queue = <<>>
  BY <1>2 DEF Ending, Runner
<1>6. left \in Runner /\ ~left.cancelled /\ left.queue = <<>>
  BY <1>2, <1>5 DEF Runner
<1>7. next.results = <<>>
  <2> DEFINE failed == [i \in 1..0 |-> <<left.queue[i], StartError(result.stdout)>>]
  <2>1. failed = <<>>
    OBVIOUS
  <2>2. next = Reply(Exhausted(left, 0), IF left.handler = 0 THEN <<>> ELSE failed, left.handler # 0)
    BY <1>6 DEF StartNext
  <2> HIDE DEF failed, next
  <2> QED BY <2>1, <2>2 DEF Reply
<1> HIDE DEF next
<1> QED BY <1>1, <1>3, <1>4, <1>7

-----------------------------------------------------------------------------
\* The slots and signals that report nothing (probe_runner.py, the lambda of
\* started, _on_timeout, cancel).
LEMMA QuietSlots ==
  ASSUME NEW r, RunnerSound(r)
  PROVE  /\ r.os = "starting" => /\ RunnerSound(ProcessStarted(r))
                                 /\ ProcessStarted(r).process = r.process
                                 /\ ProcessStarted(r).handler = r.handler
                                 /\ ProcessStarted(r).queue = r.queue
                                 /\ ProcessStarted(r).probe = r.probe
         /\ r.timer => /\ RunnerSound(OnTimeout(r))
                       /\ OnTimeout(r).process = r.process
                       /\ OnTimeout(r).handler = r.handler
                       /\ OnTimeout(r).queue = r.queue
                       /\ OnTimeout(r).probe = r.probe
         /\ RunnerSound(Cancel(r)) /\ ~Cancel(r).process /\ Cancel(r).queue = <<>>
<1>1. r \in Runner
  BY DEF RunnerSound
<1>2. ASSUME r.os = "starting"
      PROVE  /\ RunnerSound(ProcessStarted(r)) /\ ProcessStarted(r).process = r.process
             /\ ProcessStarted(r).handler = r.handler /\ ProcessStarted(r).queue = r.queue
             /\ ProcessStarted(r).probe = r.probe
  <2> DEFINE s == ProcessStarted(r)
  <2>1. s = [r EXCEPT !.os = "running", !.timer = TRUE]
    BY DEF ProcessStarted, OnStarted
  <2> HIDE DEF s
  <2>2. s \in Runner
    BY <1>1, <2>1 DEF Runner
  <2>3. /\ s.process = r.process /\ s.handler = r.handler /\ s.queue = r.queue
        /\ s.probe = r.probe /\ s.cancelled = r.cancelled /\ s.reported = r.reported
        /\ s.os = "running" /\ s.killed = r.killed
    BY <1>1, <2>1 DEF Runner
  <2>4. RunnerSound(s)
    BY <1>2, <2>2, <2>3 DEF RunnerSound
  <2> QED BY <2>3, <2>4 DEF s
<1>3. ASSUME r.timer
      PROVE  /\ RunnerSound(OnTimeout(r)) /\ OnTimeout(r).process = r.process
             /\ OnTimeout(r).handler = r.handler /\ OnTimeout(r).queue = r.queue
             /\ OnTimeout(r).probe = r.probe
  <2> DEFINE t == OnTimeout(r)
             quiet == [r EXCEPT !.timer = FALSE]
             struck == r.killed \/ r.os # "none"
             kills == [r EXCEPT !.timer = FALSE, !.timed_out = TRUE, !.killed = struck]
  <2>1. struck \in BOOLEAN
    OBVIOUS
  <2>2. t = quiet \/ (t = kills /\ r.process)
    BY DEF OnTimeout
  <2>3. (struck = TRUE) <=> (r.killed = TRUE \/ r.os # "none")
    BY <1>1 DEF Runner
  <2> HIDE DEF struck, t
  <2>4. quiet \in Runner /\ kills \in Runner
    BY <1>1, <2>1 DEF Runner
  <2>5. ASSUME NEW s \in {quiet, kills}
        PROVE  /\ s.process = r.process /\ s.handler = r.handler /\ s.queue = r.queue
               /\ s.probe = r.probe /\ s.cancelled = r.cancelled /\ s.reported = r.reported
               /\ s.os = r.os /\ ~s.timer
    BY <1>1 DEF Runner
  <2>6. quiet.killed = r.killed
    BY <1>1 DEF Runner
  <2> HIDE DEF quiet, kills
  <2>7. t \in Runner
    BY <2>2, <2>4
  <2>8. RunnerSound(t)
    BY <2>2, <2>4, <2>5, <2>6 DEF RunnerSound
  <2> QED BY <2>2, <2>5, <2>8 DEF t
<1>4. RunnerSound(Cancel(r)) /\ ~Cancel(r).process /\ Cancel(r).queue = <<>>
  <2> DEFINE struck == r.killed \/ (r.process /\ r.os # "none")
             c == Cancel(r)
  <2>1. struck \in BOOLEAN /\ <<>> \in Seq(ProbeId)
    OBVIOUS
  <2>2. c = [r EXCEPT !.queue = <<>>, !.timer = FALSE, !.cancelled = TRUE, !.reported = TRUE,
              !.handler = 0, !.process = FALSE, !.probe = NoProbe, !.killed = struck]
    BY DEF Cancel
  <2>3. r.os # "none" => struck
    BY <1>1 DEF RunnerSound, Runner
  <2> HIDE DEF struck, c
  <2>4. c \in Runner
    BY <1>1, <2>1, <2>2 DEF Runner
  <2>5. /\ c.queue = <<>> /\ ~c.process /\ c.cancelled /\ c.handler = 0
        /\ c.killed = struck /\ c.os = r.os
    BY <1>1, <2>2 DEF Runner
  <2>6. RunnerSound(c)
    BY <2>3, <2>4, <2>5 DEF RunnerSound
  <2> QED BY <2>5, <2>6 DEF c
<1> QED BY <1>2, <1>3, <1>4

\* See QuietSlots.
LEMMA QuietSlotsAccepted ==
  ASSUME NEW r, RunnerSound(r)
  PROVE  /\ r.os = "starting" => Accepts(Silent(ProcessStarted(r)), r)
         /\ r.timer => Accepts(Silent(OnTimeout(r)), r)
BY QuietSlots DEF Accepts, Silent, Reply

-----------------------------------------------------------------------------
\* A runner whose process has just ended: it ends if it still held it, else it
\* was cancelled.
LEMMA EndedRunner ==
  ASSUME NEW r, RunnerSound(r), r.os # "none"
  PROVE  LET e == [r EXCEPT !.os = "none"]
         IN  /\ e.queue = r.queue /\ e.handler = r.handler /\ e.process = r.process
             /\ e.probe = r.probe
             /\ e.cancelled = r.cancelled /\ e.reported = r.reported
             /\ r.process => Ending(e)
             /\ ~r.process => e.cancelled /\ RunnerSound(e)
<1> DEFINE e == [r EXCEPT !.os = "none"]
<1>1. e \in Runner
  BY DEF RunnerSound, Runner
<1>2. /\ e.queue = r.queue /\ e.handler = r.handler /\ e.process = r.process
      /\ e.cancelled = r.cancelled /\ e.reported = r.reported /\ e.probe = r.probe
      /\ e.os = "none"
  BY DEF RunnerSound, Runner
<1> HIDE DEF e
<1> QED BY <1>1, <1>2 DEF RunnerSound, Ending, e

\* FailedToStart is reported and the queue goes on, unless the run was
\* cancelled (probe_runner.py, _on_error).
LEMMA FailsToStartAccepted ==
  ASSUME NEW r, RunnerSound(r), r.os # "none", NEW failing \in 0..Len(r.queue), NEW stdout
  PROVE  Accepts(ProcessFailsToStart(r, failing, stdout), r)
<1> DEFINE e == [r EXCEPT !.os = "none"]
           answer == [StartError(stdout) EXCEPT !.timed_out = e.timed_out]
           reply == ProcessFailsToStart(r, failing, stdout)
<1>1. CASE r.process
  <2>1. Ending(e) /\ e.queue = r.queue /\ e.handler = r.handler
    BY <1>1, EndedRunner
  <2>2. reply = ReportAndContinue(e, answer, failing)
    <3> HIDE DEF e
    <3> QED BY <2>1 DEF ProcessFailsToStart, OnError, Ending, e
  <2> HIDE DEF e, answer, reply
  <2>3. Continues(reply, e)
    BY <2>1, <2>2, ReportAndContinueContinues
  <2> QED BY <1>1, <2>1, <2>3 DEF Continues, Accepts, reply
<1>2. CASE ~r.process
  <2>1. e.cancelled /\ RunnerSound(e) /\ ~e.process /\ e.queue = r.queue
    BY <1>2, EndedRunner
  <2>2. reply = Silent(e)
    BY <2>1 DEF ProcessFailsToStart, OnError
  <2> HIDE DEF e, reply
  <2> QED BY <1>2, <2>1, <2>2 DEF Accepts, Silent, Reply, reply
<1> QED BY <1>1, <1>2

\* An end of the process is reported and the queue goes on, unless the run was
\* cancelled (probe_runner.py, _on_finished).
LEMMA ExitsAccepted ==
  ASSUME NEW r, RunnerSound(r), r.os # "none", NEW failing \in 0..Len(r.queue), NEW stdout,
         NEW exit
  PROVE  Accepts(ProcessExits(r, exit, stdout, failing), r)
<1> DEFINE e == [r EXCEPT !.os = "none"]
           answer == [start_error |-> FALSE, timed_out |-> e.timed_out,
                      exit_code |-> exit, stdout |-> stdout]
           reply == ProcessExits(r, exit, stdout, failing)
<1>1. CASE r.process
  <2>1. Ending(e) /\ e.queue = r.queue /\ e.handler = r.handler
    BY <1>1, EndedRunner
  <2>2. reply = ReportAndContinue(e, answer, failing)
    <3> HIDE DEF e
    <3> QED BY <2>1 DEF ProcessExits, OnFinished, Ending, e
  <2> HIDE DEF e, answer, reply
  <2>3. Continues(reply, e)
    BY <2>1, <2>2, ReportAndContinueContinues
  <2> QED BY <1>1, <2>1, <2>3 DEF Continues, Accepts, reply
<1>2. CASE ~r.process
  <2>1. e.cancelled /\ RunnerSound(e) /\ ~e.process /\ e.queue = r.queue
    BY <1>2, EndedRunner
  <2>2. reply = Silent(e)
    BY <2>1 DEF ProcessExits, OnFinished
  <2> HIDE DEF e, reply
  <2> QED BY <1>2, <2>1, <2>2 DEF Accepts, Silent, Reply, reply
<1> QED BY <1>1, <1>2

\* The first of the two signals of a crash changes nothing, the second is an
\* end like any other.
LEMMA CrashesAccepted ==
  ASSUME NEW r, RunnerSound(r), r.os # "none", NEW failing \in 0..Len(r.queue), NEW stdout,
         NEW exit
  PROVE  Accepts(ProcessCrashes(r, exit, stdout, failing), r)
<1> DEFINE e == [r EXCEPT !.os = "none"]
           crash == ProcessCrashes(r, exit, stdout, failing)
           end == ProcessExits(r, exit, stdout, failing)
<1>1. OnError(e, "Crashed", failing, stdout) = Silent(e)
  BY DEF OnError
<1>2. end = OnFinished(e, exit, stdout, failing)
  BY DEF ProcessExits
<1>3. crash = Then(Silent(e), OnFinished(e, exit, stdout, failing))
  <2> HIDE DEF e
  <2>1. ProcessCrashes(r, exit, stdout, failing)
          = LET told == OnError(e, "Crashed", failing, stdout)
            IN Then(told, OnFinished(told.runner, exit, stdout, failing))
    BY DEF ProcessCrashes, e
  <2>2. Silent(e).runner = e
    BY DEF Silent, Reply
  <2> QED BY <1>1, <2>1, <2>2
<1>4. /\ crash.runner = end.runner
      /\ crash.finished = (FALSE \/ end.finished)
      /\ crash.results = <<>> \o end.results
  <2> HIDE DEF e, crash, end
  <2> QED BY <1>2, <1>3 DEF Then, Silent, Reply
<1> HIDE DEF e, crash, end
<1>5. Accepts(end, r)
  BY ExitsAccepted DEF end
<1>6. <<>> \o <<>> = <<>>
  OBVIOUS
<1> QED BY <1>4, <1>5, <1>6 DEF Accepts, Continues, crash

-----------------------------------------------------------------------------
(* Each probe of a queue is answered once: a slot splits the probes that    *)
(* are awaited into those it reports and those it leaves.                   *)

Queued(r) == {r.queue[j] : j \in 1..Len(r.queue)}

Awaited(r) == IF r.process THEN {r.probe} \cup Queued(r) ELSE {}

InLine(r) ==
    /\ \A j, k \in 1..Len(r.queue) : r.queue[j] = r.queue[k] => j = k
    /\ r.process => r.probe \notin Queued(r)

ToldIds(reply) == {reply.results[k][1] : k \in 1..Len(reply.results)}

Answers(reply, awaited) ==
    /\ \E S : reply.results \in Seq(S)
    /\ awaited = ToldIds(reply) \cup Awaited(reply.runner)
    /\ ToldIds(reply) \cap Awaited(reply.runner) = {}
    /\ InLine(reply.runner)

\* The probes that fail inside start() are reported, the one that runs and
\* the rest of the queue are awaited (probe_runner.py, _start_next).
LEMMA StartNextAnswers ==
  ASSUME NEW r, Ready(r), InLine(r), NEW failing \in 0..Len(r.queue), NEW stdout
  PROVE  Answers(StartNext(r, failing, stdout), Queued(r))
<1> DEFINE reply == StartNext(r, failing, stdout)
           q == r.queue
           answer == StartError(stdout)
           failed == [i \in 1..failing |-> <<q[i], answer>>]
<1>1. /\ q \in Seq(ProbeId) /\ Len(q) \in Nat /\ failing \in Nat /\ failing <= Len(q)
      /\ ~r.cancelled /\ r.handler # 0
  BY DEF Ready, Runner
<1> HIDE DEF answer
<1>2. /\ \E S : failed \in Seq(S)
      /\ Len(failed) = failing /\ \A i \in 1..failing : failed[i][1] = q[i]
  <2> DEFINE S == {<<q[i], answer>> : i \in 1..failing}
  <2>1. failed \in Seq(S) /\ Len(failed) = failing /\ \A i \in 1..failing : failed[i][1] = q[i]
    BY <1>1
  <2> HIDE DEF S, failed
  <2> QED BY <2>1
<1>3. /\ reply.results = failed
      /\ reply.runner = IF failing = Len(q) THEN Exhausted(r, failing) ELSE Begun(r, failing)
  BY <1>1 DEF StartNext, Reply, answer
<1>4. ToldIds(reply) = {q[i] : i \in 1..failing}
  <2> HIDE DEF failed, reply
  <2> QED BY <1>2, <1>3 DEF ToldIds
<1>5. CASE failing = Len(q)
  <2>1. reply.runner.process = FALSE /\ reply.runner.queue = <<>>
    BY <1>3, <1>5, ExhaustedSound
  <2> HIDE DEF reply
  <2>2. Awaited(reply.runner) = {} /\ InLine(reply.runner)
    BY <2>1 DEF Awaited, InLine
  <2> QED BY <1>1, <1>2, <1>3, <1>4, <1>5, <2>2 DEF Answers, Queued, reply
<1>6. CASE failing # Len(q)
  <2> DEFINE b == Begun(r, failing)
             rest == SubSeq(q, failing + 2, Len(q))
  <2>1. b.process /\ b.probe = q[failing + 1] /\ b.queue = rest
    <3>1. b.process /\ b.probe = r.queue[failing + 1] /\ b.queue = SubSeq(r.queue, failing + 2, Len(r.queue))
      BY DEF Begun, Ready, Runner
    <3> QED BY <3>1
  <2>2. /\ Len(rest) = Len(q) - failing - 1
        /\ \A j \in 1..Len(rest) : rest[j] = q[failing + 1 + j]
    BY <1>1, <1>6
  <2> HIDE DEF b, rest, q, failed, reply
  <2>3. Queued(b) = {q[i] : i \in (failing + 2)..Len(q)}
    <3>1. \A j \in 1..Len(rest) : failing + 1 + j \in (failing + 2)..Len(q)
      BY <1>1, <2>2
    <3>2. \A i \in (failing + 2)..Len(q) : i - failing - 1 \in 1..Len(rest)
                                           /\ rest[i - failing - 1] = q[i]
      BY <1>1, <2>2
    <3>3. Queued(b) = {rest[j] : j \in 1..Len(rest)}
      BY <2>1 DEF Queued
    <3>4. \A j \in 1..Len(rest) : rest[j] \in {q[i] : i \in (failing + 2)..Len(q)}
      BY <2>2, <3>1
    <3>5. \A i \in (failing + 2)..Len(q) : q[i] \in {rest[j] : j \in 1..Len(rest)}
      BY <3>2
    <3> QED BY <3>3, <3>4, <3>5
  <2>4. Awaited(b) = {q[i] : i \in (failing + 1)..Len(q)}
    <3>1. \A i \in (failing + 1)..Len(q) : i = failing + 1 \/ i \in (failing + 2)..Len(q)
      BY <1>1
    <3>2. /\ failing + 1 \in (failing + 1)..Len(q)
          /\ \A i \in (failing + 2)..Len(q) : i \in (failing + 1)..Len(q)
      BY <1>1, <1>6
    <3>3. Awaited(b) = {b.probe} \cup Queued(b)
      BY <2>1 DEF Awaited
    <3> QED BY <2>1, <2>3, <3>1, <3>2, <3>3
  <2>5. \A j, k \in 1..Len(q) : q[j] = q[k] => j = k
    BY DEF InLine, q
  <2>6. InLine(b)
    <3>1. \A j, k \in 1..Len(rest) : rest[j] = rest[k] => j = k
      BY <1>1, <2>2, <2>5
    <3>2. q[failing + 1] \notin Queued(b)
      BY <1>1, <1>6, <2>3, <2>5
    <3> QED BY <2>1, <3>1, <3>2 DEF InLine
  <2>7. Queued(r) = {q[i] : i \in 1..Len(q)}
    BY DEF Queued, q
  <2>8. Queued(r) = ToldIds(reply) \cup Awaited(b) /\ ToldIds(reply) \cap Awaited(b) = {}
    <3>1. \A i \in 1..Len(q) : i \in 1..failing \/ i \in (failing + 1)..Len(q)
      BY <1>1
    <3>2. /\ \A i \in 1..failing : i \in 1..Len(q) /\ i \notin (failing + 1)..Len(q)
          /\ \A i \in (failing + 1)..Len(q) : i \in 1..Len(q)
      BY <1>1
    <3>3. Queued(r) = ToldIds(reply) \cup Awaited(b)
      BY <1>4, <2>4, <2>7, <3>1, <3>2
    <3>4. ToldIds(reply) \cap Awaited(b) = {}
      BY <1>4, <2>4, <2>5, <3>2
    <3> QED BY <3>3, <3>4
  <2>9. Answers(reply, Queued(r))
    BY <1>2, <1>3, <1>6, <2>6, <2>8 DEF Answers, b
  <2> QED BY <2>9 DEF reply
<1> QED BY <1>5, <1>6

\* A new runner reports or awaits each of its probes.
LEMMA StartAnswers ==
  ASSUME NEW probes \in Seq(ProbeId), NEW run \in Nat \ {0},
         NEW failing \in 0..Len(probes), NEW stdout,
         \A j, k \in 1..Len(probes) : probes[j] = probes[k] => j = k
  PROVE  Answers(Start(probes, run, failing, stdout), {probes[j] : j \in 1..Len(probes)})
<1> DEFINE r == [NewRunner EXCEPT !.queue = probes, !.handler = run]
<1>1. r \in Runner
  BY NewRunnerSound
<1>2. /\ r.queue = probes /\ r.handler = run /\ ~r.cancelled /\ r.os = "none" /\ ~r.timer
      /\ ~r.process
  BY DEF NewRunner
<1>3. Start(probes, run, failing, stdout) = StartNext(r, failing, stdout)
  BY DEF Start
<1> HIDE DEF r
<1>4. Ready(r) /\ InLine(r) /\ Queued(r) = {probes[j] : j \in 1..Len(probes)}
  BY <1>1, <1>2 DEF Ready, InLine, Queued
<1>5. failing \in 0..Len(r.queue)
  BY <1>2
<1>6. Answers(StartNext(r, failing, stdout), Queued(r))
  BY <1>4, <1>5, StartNextAnswers
<1> QED BY <1>3, <1>4, <1>6

\* The probe whose process ended is reported once, and then as StartNextAnswers
\* (probe_runner.py, _report_current, _dispose_and_continue).
LEMMA ReportAndContinueAnswers ==
  ASSUME NEW r, Ending(r), InLine(r), NEW failing \in 0..Len(r.queue), NEW result
  PROVE  Answers(ReportAndContinue(r, result, failing), Awaited(r))
<1> DEFINE told == ReportCurrent(r, result)
           reported == Reported(r)
           left == Disposed(reported)
           next == StartNext(left, failing, result.stdout)
           reply == ReportAndContinue(r, result, failing)
           first == <<r.probe, result>>
<1>1. told.runner = reported /\ told.results = Report(r, result)
  BY ProbeAssumption DEF ReportCurrent, Ending, Reply
<1>2. /\ reported = [r EXCEPT !.reported = TRUE, !.timer = FALSE]
      /\ left = [reported EXCEPT !.process = FALSE, !.probe = NoProbe]
  BY DEF Reported, Disposed
<1>3. reply.runner = next.runner /\ reply.results = told.results \o next.results
  BY <1>1 DEF ReportAndContinue, Then, DisposeAndContinue, Reply
<1>4. Report(r, result) = <<first>>
  BY DEF Report, Ending
<1>a. first[1] = r.probe
  OBVIOUS
<1> HIDE DEF told, reported, left, next, reply, first
<1>5. reported \in Runner /\ reported.os = "none" /\ ~reported.cancelled /\ ~reported.timer
      /\ reported.handler = r.handler /\ reported.queue = r.queue
  BY <1>2 DEF Ending, Runner
<1>6. left \in Runner /\ left.os = "none" /\ ~left.cancelled /\ ~left.timer /\ ~left.process
      /\ left.handler = r.handler /\ left.queue = r.queue
  BY <1>2, <1>5 DEF Runner
<1>7. Ready(left) /\ InLine(left) /\ Queued(left) = Queued(r)
  BY <1>6 DEF Ready, Ending, InLine, Queued
<1>8. Answers(next, Queued(r))
  BY <1>6, <1>7, StartNextAnswers DEF next
<1>9. ToldIds(reply) = {r.probe} \cup ToldIds(next) /\ \E S : reply.results \in Seq(S)
  <2> DEFINE res == next.results
             n == Len(res)
             all == <<first>> \o res
  <2>1. PICK S : res \in Seq(S)
    BY <1>8 DEF Answers
  <2>2. n \in Nat
    BY <2>1
  <2>3. reply.results = all
    BY <1>1, <1>3, <1>4
  <2>4. ToldIds(next) = {res[k][1] : k \in 1..n}
    BY DEF ToldIds
  <2> HIDE DEF res
  <2>5. /\ all \in Seq(S \cup {first})
        /\ Len(all) = n + 1 /\ all[1] = first
        /\ \A k \in 1..n : all[k + 1] = res[k]
        /\ \A k \in 2..(n + 1) : all[k] = res[k - 1]
    <3>1. <<first>> \in Seq(S \cup {first}) /\ res \in Seq(S \cup {first})
      BY <2>1
    <3> QED BY <2>1, <3>1
  <2> HIDE DEF n, all
  <2>6. ToldIds(reply) = {all[k][1] : k \in 1..(n + 1)}
    BY <2>3, <2>5 DEF ToldIds
  <2>7. /\ \A k \in 2..(n + 1) : k - 1 \in 1..n
        /\ \A k \in 1..n : k + 1 \in 1..(n + 1)
        /\ \A k \in 1..(n + 1) : k = 1 \/ k \in 2..(n + 1)
        /\ 1 \in 1..(n + 1)
    BY <2>2
  <2>8. ToldIds(reply) = {r.probe} \cup ToldIds(next)
    BY <1>a, <2>4, <2>5, <2>6, <2>7
  <2> QED BY <2>3, <2>5, <2>8
<1>10. Awaited(r) = {r.probe} \cup Queued(r) /\ r.probe \notin Queued(r)
  BY DEF Awaited, Ending, InLine
<1> QED BY <1>3, <1>8, <1>9, <1>10 DEF Answers, reply

\* What every signal of a process leaves of the awaited probes.
LEMMA SignalsAnswer ==
  ASSUME NEW r, RunnerSound(r), InLine(r), r.process, NEW failing \in 0..Len(r.queue),
         NEW stdout, NEW exit
  PROVE  /\ r.os = "starting" => Answers(Silent(ProcessStarted(r)), Awaited(r))
         /\ r.timer => Answers(Silent(OnTimeout(r)), Awaited(r))
         /\ Answers(ProcessFailsToStart(r, failing, stdout), Awaited(r))
         /\ Answers(ProcessExits(r, exit, stdout, failing), Awaited(r))
         /\ Answers(ProcessCrashes(r, exit, stdout, failing), Awaited(r))
<1> DEFINE e == [r EXCEPT !.os = "none"]
<1>1. ASSUME NEW s, s.process = r.process, s.queue = r.queue, s.probe = r.probe
      PROVE  Answers(Silent(s), Awaited(r))
  <2>1. Silent(s).results = <<>> /\ Silent(s).runner = s
    BY DEF Silent, Reply
  <2>2. ToldIds(Silent(s)) = {}
    BY <2>1 DEF ToldIds
  <2>3. Awaited(s) = Awaited(r) /\ InLine(s)
    BY <1>1 DEF Awaited, InLine, Queued
  <2> QED BY <2>1, <2>2, <2>3 DEF Answers
<1>2. /\ r.os = "starting" => Answers(Silent(ProcessStarted(r)), Awaited(r))
      /\ r.timer => Answers(Silent(OnTimeout(r)), Awaited(r))
  BY <1>1, QuietSlots
<1>3. Ending(e) /\ e.queue = r.queue /\ e.probe = r.probe /\ e.process = r.process
  BY EndedRunner DEF RunnerSound
<1> DEFINE failed == [StartError(stdout) EXCEPT !.timed_out = e.timed_out]
           ended == [start_error |-> FALSE, timed_out |-> e.timed_out,
                     exit_code |-> exit, stdout |-> stdout]
           fails == ProcessFailsToStart(r, failing, stdout)
           exits == ProcessExits(r, exit, stdout, failing)
           crashes == ProcessCrashes(r, exit, stdout, failing)
<1>4. fails = ReportAndContinue(e, failed, failing) /\ exits = ReportAndContinue(e, ended, failing)
  <2> HIDE DEF e
  <2> QED BY <1>3 DEF ProcessFailsToStart, ProcessExits, OnError, OnFinished, Ending, e
<1>5. crashes = Then(Silent(e), exits)
  <2> HIDE DEF e
  <2>1. OnError(e, "Crashed", failing, stdout) = Silent(e) /\ exits = OnFinished(e, exit, stdout, failing)
    BY DEF OnError, ProcessExits, e
  <2>2. crashes = LET told == OnError(e, "Crashed", failing, stdout)
                  IN Then(told, OnFinished(told.runner, exit, stdout, failing))
    BY DEF ProcessCrashes, e
  <2>3. Silent(e).runner = e
    BY DEF Silent, Reply
  <2> QED BY <2>1, <2>2, <2>3
<1> HIDE DEF e, failed, ended, fails, exits, crashes
<1>6. InLine(e) /\ Awaited(e) = Awaited(r)
  BY <1>3 DEF InLine, Awaited, Queued
<1>7. Answers(fails, Awaited(r)) /\ Answers(exits, Awaited(r))
  BY <1>3, <1>4, <1>6, ReportAndContinueAnswers
<1>8. Answers(crashes, Awaited(r))
  <2>1. crashes.runner = exits.runner /\ crashes.results = <<>> \o exits.results
    BY <1>5 DEF Then, Silent, Reply
  <2>2. PICK S : exits.results \in Seq(S)
    BY <1>7 DEF Answers
  <2>3. <<>> \o exits.results = exits.results
    BY <2>2
  <2> QED BY <1>7, <2>1, <2>2, <2>3 DEF Answers, ToldIds
<1> QED BY <1>2, <1>7, <1>8 DEF fails, exits, crashes

-----------------------------------------------------------------------------
\* Controller and runners agree: the run in progress holds the only runner that
\* has a process, and that runner calls the controller back as this run
\* (preflight_controller.py, sandbox_gate_controller.py: run, cancel).
Owned(c, rs) ==
    /\ \A i \in 1..Len(rs) : /\ RunnerSound(rs[i])
                             /\ rs[i].process => c.running /\ c.runner = i
    /\ ~c.running => c.runner = 0
    /\ c.running => /\ c.runner \in 1..Len(rs)
                    /\ rs[c.runner].process
                    /\ rs[c.runner].handler = c.generation

\* A controller whose run has not changed.
SameRun(c, d) == d.running = c.running /\ d.runner = c.runner /\ d.generation = c.generation

\* A slot of runner i, whose owner learns whether the run goes on.
LEMMA OwnedAfterSlot ==
  ASSUME NEW rs \in Seq(Runner), NEW c, Owned(c, rs), NEW i \in 1..Len(rs), NEW r, NEW d,
         RunnerSound(r),
         ~rs[i].process => ~r.process /\ SameRun(c, d),
         rs[i].process => r.handler = rs[i].handler,
         rs[i].process /\ r.process => SameRun(c, d),
         rs[i].process /\ ~r.process => ~d.running /\ d.runner = 0
  PROVE  /\ [rs EXCEPT ![i] = r] \in Seq(Runner)
         /\ Len([rs EXCEPT ![i] = r]) = Len(rs)
         /\ Owned(d, [rs EXCEPT ![i] = r])
<1> DEFINE new == [rs EXCEPT ![i] = r]
<1>1. r \in Runner
  BY DEF RunnerSound
<1>2. new \in Seq(Runner) /\ Len(new) = Len(rs) /\ new[i] = r
      /\ \A j \in 1..Len(rs) : j # i => new[j] = rs[j]
  BY <1>1
<1> HIDE DEF new
<1>3. ASSUME NEW j \in 1..Len(new)
      PROVE  RunnerSound(new[j]) /\ (new[j].process => d.running /\ d.runner = j)
  BY <1>2 DEF Owned, SameRun
<1>4. /\ d.running => d.runner \in 1..Len(new) /\ new[d.runner].process
                      /\ new[d.runner].handler = d.generation
      /\ ~d.running => d.runner = 0
  BY <1>2 DEF Owned, SameRun
<1> QED BY <1>2, <1>3, <1>4 DEF Owned, new

\* A new run with a new runner.
LEMMA OwnedAfterStart ==
  ASSUME NEW rs \in Seq(Runner), NEW c, Owned(c, rs), ~c.running, NEW r, NEW d, RunnerSound(r),
         r.process => d.running /\ d.runner = Len(rs) + 1 /\ r.handler = d.generation,
         ~r.process => ~d.running /\ d.runner = 0
  PROVE  /\ Append(rs, r) \in Seq(Runner)
         /\ Len(Append(rs, r)) = Len(rs) + 1
         /\ Owned(d, Append(rs, r))
<1> DEFINE new == Append(rs, r)
           n == Len(rs) + 1
<1>1. r \in Runner
  BY DEF RunnerSound
<1>2. new \in Seq(Runner) /\ Len(new) = n /\ new[n] = r /\ n \in Nat
      /\ \A j \in 1..Len(rs) : new[j] = rs[j]
  BY <1>1
<1> HIDE DEF new
<1>3. ASSUME NEW j \in 1..Len(new)
      PROVE  RunnerSound(new[j]) /\ (new[j].process => d.running /\ d.runner = j)
  <2>1. CASE j = n
    BY <1>2, <2>1
  <2>2. CASE j # n
    <3>1. j \in 1..Len(rs)
      BY <1>2, <2>2
    <3> QED BY <1>2, <3>1 DEF Owned
  <2> QED BY <2>1, <2>2
<1>4. /\ d.running => d.runner \in 1..Len(new) /\ new[d.runner].process
                      /\ new[d.runner].handler = d.generation
      /\ ~d.running => d.runner = 0
  BY <1>2
<1> QED BY <1>2, <1>3, <1>4 DEF Owned, new

\* A cancel: the runner that is held, if any, gives its process up.
LEMMA OwnedAfterCancel ==
  ASSUME NEW rs \in Seq(Runner), NEW c, Owned(c, rs), NEW d, ~d.running, d.runner = 0
  PROVE  LET new == IF c.runner = 0 THEN rs ELSE [rs EXCEPT ![c.runner] = Cancel(@)]
         IN  new \in Seq(Runner) /\ Len(new) = Len(rs) /\ Owned(d, new)
<1>1. CASE c.runner = 0
  BY <1>1 DEF Owned
<1>2. CASE c.runner # 0
  <2> DEFINE k == c.runner
             r == Cancel(rs[k])
             new == [rs EXCEPT ![k] = r]
  <2>1. k \in 1..Len(rs) /\ RunnerSound(rs[k])
    BY <1>2 DEF Owned
  <2>2. RunnerSound(r) /\ ~r.process
    BY <2>1, QuietSlots
  <2>3. r \in Runner
    BY <2>2 DEF RunnerSound
  <2> HIDE DEF r
  <2>4. new \in Seq(Runner) /\ Len(new) = Len(rs) /\ new[k] = r
        /\ \A j \in 1..Len(rs) : j # k => new[j] = rs[j]
    BY <2>1, <2>3
  <2> HIDE DEF new
  <2>5. ASSUME NEW j \in 1..Len(new)
        PROVE  RunnerSound(new[j]) /\ ~new[j].process
    BY <2>2, <2>4 DEF Owned
  <2>6. Owned(d, new)
    BY <2>5 DEF Owned
  <2> QED BY <1>2, <2>4, <2>6 DEF new, r
<1> QED BY <1>1, <1>2
=============================================================================
