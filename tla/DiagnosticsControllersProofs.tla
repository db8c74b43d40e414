------------------- MODULE DiagnosticsControllersProofs -------------------
(***************************************************************************)
(* The two controllers of the diagnostics view and their runners, action   *)
(* by action: first Preflight, then the sandbox gate.                      *)
(***************************************************************************)
EXTENDS Preflight, SandboxGate, ProbeRunnerProofs, FiniteSetTheorems

-----------------------------------------------------------------------------
(***************************************************************************)
(* Preflight and its runners, for every set of hosts and every bound: the  *)
(* controller keeps its type and its agreement with the runner it holds    *)
(* over each of its actions.                                               *)
(***************************************************************************)

PreflightInv == PreflightTypeOK /\ Owned(preflight, runners)

\* The rows of a plan, and of a plan some of whose probes have answered.
Rows == [CheckId -> Status] \cup [{} -> Status]

-----------------------------------------------------------------------------
\* The planner gives each row a status (core/preflight.py, build).
LEMMA PlanRows ==
  ASSUME NEW host \in Host
  PROVE  Plan(host) \in Rows
<1>1. \A b : PassOrFail(b) \in Status
  BY DEF PassOrFail, Status
<1>2. \A b : Bad(b) \in Status
  BY DEF Bad, Status
<1>3. ModelsCheck(host.models) \in Status
  <2>1. host.models \in {"not_inspected", "no_profiles", "changed", "usable"}
    BY DEF Host
  <2> QED BY <2>1, Zenon DEF ModelsCheck, Status
<1>4. \A id \in PlannedProbe :
         (IF ProbeAvailable(host, id) THEN "PENDING" ELSE Bad(Required(host, id))) \in Status
  BY <1>2, Zenon DEF Status
<1>5. "PASS" \in Status /\ "WARN" \in Status /\ "PENDING" \in Status
  BY DEF Status
<1>6. ASSUME NEW id \in CheckId
      PROVE  Plan(host)[id] \in Status
  BY <1>1, <1>3, <1>4, <1>5, Zenon DEF Plan, CheckId, StaticCheck
<1>7. Plan(host) \in [CheckId -> Status]
  BY <1>6, Zenon DEF Plan
<1> QED BY <1>7 DEF Rows

\* A result changes the rows it is about and nothing else; the end of a run
\* ends it (preflight_controller.py, _on_probe_result, _finish).
LEMMA OnProbeResultsTyped ==
  ASSUME NEW c \in Controller, NEW run, NEW results
  PROVE  OnProbeResults(c, run, results) \in Controller
         /\ SameRun(c, OnProbeResults(c, run, results))
<1> DEFINE resultOf(id) == CHOOSE i \in 1..Len(results) : results[i][1] = id
           told == {results[i][1] : i \in 1..Len(results)}
           rows == [id \in DOMAIN c.checks |->
                      IF id \in told
                      THEN ClassifyProbeResult(id \in c.required, results[resultOf(id)][2])
                      ELSE c.checks[id]]
           shown == OnProbeResults(c, run, results)
<1>1. \A required, result : ClassifyProbeResult(required, result) \in Status
  BY DEF ClassifyProbeResult, Bad, Status
<1>2. c.checks \in Rows
  BY DEF Controller, Rows
<1>3. shown = c \/ shown = [c EXCEPT !.checks = rows]
  BY Zenon DEF OnProbeResults
<1>4. rows \in Rows
  <2>1. \A id \in DOMAIN c.checks : c.checks[id] \in Status
    BY <1>2 DEF Rows
  <2>2. \A id \in DOMAIN c.checks : rows[id] \in Status
    <3> HIDE DEF told, resultOf
    <3> QED BY <1>1, <2>1
  <2>3. DOMAIN rows = DOMAIN c.checks /\ (DOMAIN c.checks = CheckId \/ DOMAIN c.checks = {})
    BY <1>2 DEF Rows
  <2>4. rows \in [DOMAIN c.checks -> Status]
    <3> HIDE DEF told, resultOf
    <3> QED BY <1>1, <2>1
  <2> HIDE DEF rows
  <2> QED BY <2>3, <2>4 DEF Rows
<1> HIDE DEF rows, shown
<1> QED BY <1>3, <1>4 DEF Controller, Rows, SameRun, shown

\* See OnProbeResultsTyped.
LEMMA FinishTyped ==
  ASSUME NEW c \in Controller, NEW run
  PROVE  /\ Finish(c, run) \in Controller
         /\ Finish(c, run).generation = c.generation
         /\ run = c.generation => ~Finish(c, run).running /\ Finish(c, run).runner = 0
         /\ run # c.generation => Finish(c, run) = c
<1> DEFINE status == FinalStatus(c.checks)
<1>1. status \in {"blocking", "gate_pending", "warnings", "passed"}
  BY DEF FinalStatus
<1>2. Finish(c, run) = IF run # c.generation THEN c
                       ELSE [c EXCEPT !.runner = 0, !.running = FALSE, !.manifest = TRUE,
                                      !.status = status]
  BY DEF Finish
<1> HIDE DEF status
<1>3. CASE run # c.generation
  BY <1>2, <1>3
<1>4. CASE run = c.generation
  <2> DEFINE f == [c EXCEPT !.runner = 0, !.running = FALSE, !.manifest = TRUE, !.status = status]
  <2>1. Finish(c, run) = f
    BY <1>2, <1>4
  <2>2. f \in Controller /\ f.generation = c.generation /\ f.running = FALSE
        /\ f.runner = 0
    <3>1. 0 \in 0..PreflightRuns
      BY PreflightAssumption
    <3> QED BY <1>1, <3>1 DEF Controller
  <2> QED BY <1>4, <2>1, <2>2
<1> QED BY <1>3, <1>4

\* What a reply of a runner does to the controller.
LEMMA ToldTyped ==
  ASSUME NEW c \in Controller, NEW run, NEW reply
  PROVE  LET d == Told(c, run, reply)
         IN  /\ d \in Controller
             /\ d.generation = c.generation
             /\ ~reply.finished => SameRun(c, d)
             /\ reply.finished /\ run = c.generation => ~d.running /\ d.runner = 0
             /\ run # c.generation => SameRun(c, d)
<1> DEFINE shown == OnProbeResults(c, run, reply.results)
           d == Told(c, run, reply)
<1>1. shown \in Controller /\ SameRun(c, shown)
  BY OnProbeResultsTyped
<1>2. d = IF reply.finished THEN Finish(shown, run) ELSE shown
  BY DEF Told
<1> HIDE DEF shown, d
<1>3. CASE reply.finished
  BY <1>1, <1>2, <1>3, FinishTyped DEF SameRun, d
<1>4. CASE ~reply.finished
  BY <1>1, <1>2, <1>4 DEF SameRun, d
<1> QED BY <1>3, <1>4

-----------------------------------------------------------------------------
\* No run, no runner (preflight_controller.py, __init__).
LEMMA PreflightStarts == PreflightInit => PreflightInv
<1> SUFFICES ASSUME PreflightInit PROVE PreflightInv
  OBVIOUS
<1>1. runners = <<>> /\ Len(runners) = 0 /\ runners \in Seq(Runner)
  BY DEF PreflightInit
<1>2. [id \in {} |-> "PENDING"] \in [{} -> Status]
  BY DEF Status
<1>3. preflight \in Controller
  <2>1. 0 \in 0..Generations /\ 0 \in 0..PreflightRuns
    BY PreflightAssumption
  <2> QED BY <1>2, <2>1 DEF PreflightInit, Controller
<1>4. ~preflight.running /\ preflight.runner = 0
  BY DEF PreflightInit
<1>5. Owned(preflight, runners)
  BY <1>1, <1>4 DEF Owned
<1> QED BY <1>1, <1>3, <1>5, PreflightAssumption DEF PreflightInv, PreflightTypeOK

\* The probes of a plan are probes the runner knows.
LEMMA ProbesOfTyped ==
  ASSUME NEW host
  PROVE  ProbesOf(host) \in Seq(ProbeId)
<1>1. \A id \in PlannedProbe : ProbeFor(host, id) \in Seq(ProbeId)
  BY PreflightAssumption DEF ProbeFor
<1>2. \A s \in Seq(ProbeId), t \in Seq(ProbeId) : s \o t \in Seq(ProbeId)
  OBVIOUS
<1> QED BY <1>1, <1>2 DEF ProbesOf, PlannedProbe

\* A signal of a runner reaches the controller as long as the runner is the one
\* it holds, and then ends the run exactly when no process is left.
LEMMA DeliverKeeps ==
  ASSUME PreflightInv, NEW i \in 1..Len(runners), NEW reply, Accepts(reply, runners[i]),
         Deliver(i, reply)
  PROVE  PreflightInv' /\ preflight'.generation = preflight.generation
<1> DEFINE r == reply.runner
           d == Told(preflight, runners[i].handler, reply)
           new == [runners EXCEPT ![i] = r]
<1>1. runners' = new /\ preflight' = d
  BY DEF Deliver
<1>2. /\ runners \in Seq(Runner) /\ Len(runners) <= PreflightRuns
      /\ preflight \in Controller /\ Owned(preflight, runners)
  BY DEF PreflightInv, PreflightTypeOK
<1>3. /\ d \in Controller
      /\ d.generation = preflight.generation
      /\ ~reply.finished => SameRun(preflight, d)
      /\ reply.finished /\ runners[i].handler = preflight.generation => ~d.running /\ d.runner = 0
  BY <1>2, ToldTyped
<1>4. RunnerSound(r) /\ (~runners[i].process => ~r.process /\ ~reply.finished)
      /\ (runners[i].process => /\ r.handler = runners[i].handler
                                /\ reply.finished <=> ~r.process)
  BY DEF Accepts, Continues
<1>5. runners[i].process => runners[i].handler = preflight.generation
  BY <1>2 DEF Owned
<1> HIDE DEF r, d
<1>6. /\ new \in Seq(Runner)
      /\ Len(new) = Len(runners)
      /\ Owned(d, new)
  <2>1. ~runners[i].process => ~r.process /\ SameRun(preflight, d)
    BY <1>3, <1>4
  <2>2. runners[i].process /\ r.process => SameRun(preflight, d)
    BY <1>3, <1>4
  <2>3. runners[i].process /\ ~r.process => ~d.running /\ d.runner = 0
    BY <1>3, <1>4, <1>5
  <2> HIDE DEF new
  <2>4. Owned(d, [runners EXCEPT ![i] = r]) /\ [runners EXCEPT ![i] = r] \in Seq(Runner)
        /\ Len([runners EXCEPT ![i] = r]) = Len(runners)
    BY <1>2, <1>4, <2>1, <2>2, <2>3, OwnedAfterSlot
  <2> QED BY <2>4 DEF new
<1> HIDE DEF new
<1> QED BY <1>1, <1>2, <1>3, <1>6 DEF PreflightInv, PreflightTypeOK

\* The signals of the processes and the timers (Preflight, PreflightSignal).
LEMMA PreflightSignalKeeps ==
  ASSUME PreflightInv, NEW i \in 1..Len(runners), PreflightSignal(i)
  PROVE  PreflightInv' /\ preflight'.generation = preflight.generation
<1> DEFINE r == runners[i]
<1>1. RunnerSound(r) /\ r.queue \in Seq(ProbeId)
  BY DEF PreflightInv, Owned, RunnerSound, Runner
<1> SUFFICES \E reply : Accepts(reply, r) /\ Deliver(i, reply)
  BY DeliverKeeps
<1>2. CASE ProbeStarted(i)
  <2>1. Accepts(Silent(ProcessStarted(r)), r)
    BY <1>1, <1>2, QuietSlotsAccepted DEF ProbeStarted
  <2> QED BY <1>2, <2>1 DEF ProbeStarted
<1>3. CASE ProbeFailsToStart(i)
  <2>1. PICK failing \in SyncFailures(r) : Deliver(i, ProcessFailsToStart(r, failing, ""))
    BY <1>3 DEF ProbeFailsToStart
  <2>2. r.os # "none" /\ failing \in 0..Len(r.queue)
    BY <1>3, <2>1 DEF ProbeFailsToStart, SyncFailures
  <2>3. Accepts(ProcessFailsToStart(r, failing, ""), r)
    <3> HIDE DEF r
    <3> QED BY <1>1, <2>2, FailsToStartAccepted
  <2> QED BY <2>1, <2>3
<1>4. CASE ProbeEnds(i)
  <2>1. PICK failing \in SyncFailures(r), exit \in {0, 1} :
           \/ Deliver(i, ProcessExits(r, exit, "", failing))
           \/ Deliver(i, ProcessCrashes(r, exit, "", failing))
    BY <1>4 DEF ProbeEnds
  <2>2. r.os # "none" /\ failing \in 0..Len(r.queue)
    BY <1>4, <2>1 DEF ProbeEnds, SyncFailures
  <2>3. /\ Accepts(ProcessExits(r, exit, "", failing), r)
        /\ Accepts(ProcessCrashes(r, exit, "", failing), r)
    <3> HIDE DEF r
    <3> QED BY <1>1, <2>2, ExitsAccepted, CrashesAccepted
  <2> QED BY <2>1, <2>3
<1>5. CASE ProbeTimeout(i)
  <2>1. Accepts(Silent(OnTimeout(r)), r)
    BY <1>1, <1>5, QuietSlotsAccepted DEF ProbeTimeout
  <2> QED BY <1>5, <2>1 DEF ProbeTimeout
<1> QED BY <1>2, <1>3, <1>4, <1>5 DEF PreflightSignal

\* Cancel (preflight_controller.py, cancel).
LEMMA StopPreflightKeeps ==
  ASSUME PreflightInv, preflight.generation < Generations, StopPreflight
  PROVE  PreflightInv' /\ preflight'.generation = preflight.generation + 1
<1>1. /\ runners \in Seq(Runner) /\ Len(runners) <= PreflightRuns
      /\ preflight \in Controller /\ Owned(preflight, runners)
  BY DEF PreflightInv, PreflightTypeOK
<1> DEFINE d == [preflight EXCEPT !.generation = @ + 1, !.runner = 0, !.running = FALSE,
                                  !.status = "cancelled"]
           new == IF preflight.runner = 0 THEN runners
                  ELSE [runners EXCEPT ![preflight.runner] = Cancel(@)]
<1>2. preflight' = d /\ runners' = new
  BY DEF StopPreflight
<1>3. d \in Controller /\ ~d.running /\ d.runner = 0 /\ d.generation = preflight.generation + 1
  <2>1. preflight.generation + 1 \in 0..Generations /\ 0 \in 0..PreflightRuns
    BY <1>1, PreflightAssumption DEF Controller
  <2> QED BY <1>1, <2>1 DEF Controller
<1> HIDE DEF d
<1>4. new \in Seq(Runner) /\ Len(new) = Len(runners) /\ Owned(d, new)
  BY <1>1, <1>3, OwnedAfterCancel
<1> HIDE DEF new
<1> QED BY <1>1, <1>2, <1>3, <1>4 DEF PreflightInv, PreflightTypeOK

\* A run that plans no probe is over at once; one that plans some holds a new
\* runner as long as one of them is alive (preflight_controller.py, run).
LEMMA RunKeeps ==
  ASSUME PreflightInv, Run
  PROVE  PreflightInv' /\ preflight'.generation < Generations
<1>1. /\ runners \in Seq(Runner) /\ Len(runners) \in Nat /\ Len(runners) <= PreflightRuns
      /\ preflight \in Controller /\ Owned(preflight, runners)
  BY DEF PreflightInv, PreflightTypeOK
<1>2. ~preflight.running /\ preflight.generation + 1 < Generations
      /\ Len(runners) < PreflightRuns
  BY DEF Run
<1> DEFINE run == preflight.generation + 1
           n == Len(runners) + 1
           planned(host) == [preflight EXCEPT !.generation = run, !.checks = Plan(host),
                                              !.required = RequiredProbes(host),
                                              !.manifest = FALSE]
           begun(host) == [planned(host) EXCEPT !.running = TRUE, !.status = "running",
                                                !.runner = n]
<1>3. PICK host \in Hosts :
        \/ /\ preflight' = Finish(planned(host), run)
           /\ UNCHANGED runners
        \/ \E failing \in 0..Len(ProbesOf(host)) :
              LET reply == Start(ProbesOf(host), run, failing, "")
              IN /\ runners' = Append(runners, reply.runner)
                 /\ preflight' = Told(begun(host), run, reply)
  BY DEF Run
<1> DEFINE p == planned(host)
           b == begun(host)
<1>4. /\ host \in Host /\ run \in 0..Generations /\ run \in Nat \ {0} /\ n \in 0..PreflightRuns
      /\ RequiredProbes(host) \in SUBSET PlannedProbe /\ Plan(host) \in Rows
  BY <1>1, <1>2, PreflightAssumption, PlanRows DEF Controller, RequiredProbes
<1>5. p \in Controller /\ p.generation = run /\ ~p.running
  BY <1>1, <1>2, <1>4 DEF Controller, Rows
<1>6. b \in Controller /\ b.generation = run /\ b.running /\ b.runner = n
  <2> HIDE DEF p
  <2>1. b = [p EXCEPT !.running = TRUE, !.status = "running", !.runner = n]
    BY DEF p
  <2> HIDE DEF b, n
  <2> QED BY <1>4, <1>5, <2>1 DEF Controller
<1> HIDE DEF p, b, run, n
<1>7. CASE preflight' = Finish(p, run) /\ UNCHANGED runners
  <2>1. Finish(p, run) \in Controller /\ Finish(p, run).generation = run
        /\ ~Finish(p, run).running /\ Finish(p, run).runner = 0
    BY <1>5, FinishTyped
  <2>2. Owned(preflight', runners')
    BY <1>1, <1>2, <1>7, <2>1 DEF Owned
  <2> QED BY <1>1, <1>2, <1>7, <2>1, <2>2 DEF PreflightInv, PreflightTypeOK, run
<1>8. CASE \E failing \in 0..Len(ProbesOf(host)) :
              LET reply == Start(ProbesOf(host), run, failing, "")
              IN /\ runners' = Append(runners, reply.runner)
                 /\ preflight' = Told(b, run, reply)
  <2> DEFINE probes == ProbesOf(host)
  <2>1. PICK failing \in 0..Len(probes) :
           LET reply == Start(probes, run, failing, "")
           IN /\ runners' = Append(runners, reply.runner)
              /\ preflight' = Told(b, run, reply)
    BY <1>8
  <2>2. probes \in Seq(ProbeId)
    BY ProbesOfTyped
  <2> HIDE DEF probes
  <2> DEFINE reply == Start(probes, run, failing, "")
             d == Told(b, run, reply)
  <2>3. RunnerSound(reply.runner) /\ reply.runner.handler = run
        /\ (reply.finished <=> ~reply.runner.process)
    <3>1. Begins(reply, run)
      BY <1>4, <2>2, StartContinues
    <3> HIDE DEF reply
    <3> QED BY <3>1 DEF Begins
  <2>4. /\ d \in Controller /\ d.generation = run
        /\ ~reply.finished => SameRun(b, d)
        /\ reply.finished => ~d.running /\ d.runner = 0
    BY <1>6, ToldTyped
  <2>5. runners' = Append(runners, reply.runner) /\ preflight' = d
    BY <2>1
  <2> HIDE DEF reply, d
  <2>6. /\ Append(runners, reply.runner) \in Seq(Runner)
        /\ Len(Append(runners, reply.runner)) = Len(runners) + 1
        /\ Owned(d, Append(runners, reply.runner))
    <3>1. reply.runner.process => d.running /\ d.runner = Len(runners) + 1
                                  /\ reply.runner.handler = d.generation
      BY <1>6, <2>3, <2>4 DEF SameRun, n
    <3> QED BY <1>1, <1>2, <2>3, <2>4, <3>1, OwnedAfterStart
  <2>7. preflight'.generation < Generations
    BY <1>2, <2>4, <2>5 DEF run
  <2> QED BY <1>1, <1>2, <2>4, <2>5, <2>6, <2>7, PreflightAssumption
            DEF PreflightInv, PreflightTypeOK
<1> QED BY <1>3, <1>7, <1>8 DEF p, b

\* A run whose start raises leaves a runner without a process
\* (preflight_controller.py, run).
LEMMA RunRaisesKeeps ==
  ASSUME PreflightInv, RunRaises
  PROVE  PreflightInv' /\ preflight'.generation < Generations
<1>1. /\ runners \in Seq(Runner) /\ Len(runners) \in Nat /\ Len(runners) <= PreflightRuns
      /\ preflight \in Controller /\ Owned(preflight, runners)
  BY DEF PreflightInv, PreflightTypeOK
<1>2. ~preflight.running /\ preflight.generation + 2 < Generations
      /\ Len(runners) < PreflightRuns /\ runners' = Append(runners, NewRunner)
  BY DEF RunRaises
<1> DEFINE d(host) == [preflight EXCEPT !.generation = @ + 2, !.checks = Plan(host),
                                        !.required = RequiredProbes(host),
                                        !.manifest = FALSE, !.runner = 0,
                                        !.status = "start_failed"]
<1>3. PICK host \in Hosts : preflight' = d(host)
  BY DEF RunRaises
<1>4. /\ host \in Host /\ preflight.generation + 2 \in 0..Generations /\ 0 \in 0..PreflightRuns
      /\ RequiredProbes(host) \in SUBSET PlannedProbe /\ Plan(host) \in Rows
  BY <1>1, <1>2, PreflightAssumption, PlanRows DEF Controller, RequiredProbes
<1>5. /\ d(host) \in Controller /\ ~d(host).running /\ d(host).runner = 0
      /\ d(host).generation = preflight.generation + 2
  BY <1>1, <1>2, <1>4 DEF Controller, Rows
<1> HIDE DEF d
<1>6. RunnerSound(NewRunner) /\ ~NewRunner.process
  <2>1. <<>> \in Seq(ProbeId)
    OBVIOUS
  <2> QED BY <2>1, NewRunnerSound
<1>7. /\ Append(runners, NewRunner) \in Seq(Runner)
      /\ Len(Append(runners, NewRunner)) = Len(runners) + 1
      /\ Owned(d(host), Append(runners, NewRunner))
  BY <1>1, <1>2, <1>5, <1>6, OwnedAfterStart
<1>8. preflight'.generation < Generations
  BY <1>2, <1>3, <1>5
<1> QED BY <1>1, <1>2, <1>3, <1>5, <1>7, <1>8, PreflightAssumption
          DEF PreflightInv, PreflightTypeOK

\* The user's part of preflight (Preflight, PreflightUser).
LEMMA PreflightUserKeeps ==
  ASSUME PreflightInv, PreflightUser
  PROVE  PreflightInv' /\ preflight'.generation < Generations
<1>1. CASE Run
  BY <1>1, RunKeeps
<1>2. CASE RunRaises
  BY <1>2, RunRaisesKeeps
<1>3. CASE CancelPreflight
  <2>1. preflight.generation \in Nat
    BY DEF PreflightInv, PreflightTypeOK, Controller
  <2>2. StopPreflight /\ preflight.generation + 1 < Generations
    BY <1>3 DEF CancelPreflight
  <2>3. preflight.generation < Generations
    BY <2>1, <2>2, PreflightAssumption
  <2> QED BY <2>2, <2>3, StopPreflightKeeps
<1> QED BY <1>1, <1>2, <1>3 DEF PreflightUser

-----------------------------------------------------------------------------
(* The rows of the probes are open exactly while their runner still awaits  *)
(* them: what makes the run end when, and only when, no row is open.        *)

OpenRows(c) == {id \in PlannedProbe : c.checks[id] = "PENDING"}

Waits ==
    preflight.running =>
        /\ DOMAIN preflight.checks = CheckId
        /\ InLine(runners[preflight.runner])
        /\ OpenRows(preflight) = Awaited(runners[preflight.runner])

\* What the contract of a run sees of the controller is unchanged.
ShowsTheSame(c, d) == d.running = c.running /\ d.checks = c.checks /\ d.status = c.status

\* Some open rows of the run in progress are answered; it ends with the last.
AnswersSome(c, d) ==
    /\ c.running
    /\ DOMAIN d.checks = CheckId
    /\ \E told \in SUBSET OpenRows(c) :
        /\ \A id \in told : d.checks[id] # "PENDING"
        /\ \A id \in CheckId \ told : d.checks[id] = c.checks[id]
        /\ OpenRows(d) = OpenRows(c) \ told
        /\ IF told = OpenRows(c) THEN ~d.running /\ d.status \notin {"cancelled", "start_failed"}
           ELSE d.running /\ d.status = c.status

Elements(s) == {s[j] : j \in 1..Len(s)}

Once(s) == \A j, k \in 1..Len(s) : s[j] = s[k] => j = k

\* Two lists without repetition and without a common element, one after the
\* other.
LEMMA ConcatOnce ==
  ASSUME NEW S, NEW s \in Seq(S), NEW t \in Seq(S), Once(s), Once(t),
         Elements(s) \cap Elements(t) = {}
  PROVE  Elements(s \o t) = Elements(s) \cup Elements(t) /\ Once(s \o t)
<1> DEFINE st == s \o t
           m == Len(s)
           n == Len(t)
<1>1. /\ m \in Nat /\ n \in Nat /\ Len(st) = m + n
      /\ \A j \in 1..m : st[j] = s[j]
      /\ \A j \in (m + 1)..(m + n) : st[j] = t[j - m]
  OBVIOUS
<1> HIDE DEF st
<1>2. /\ \A j \in 1..(m + n) : j \in 1..m \/ j \in (m + 1)..(m + n)
      /\ \A j \in 1..m : j \in 1..(m + n)
      /\ \A j \in (m + 1)..(m + n) : j - m \in 1..n
      /\ \A j \in 1..n : j + m \in (m + 1)..(m + n) /\ j + m \in 1..(m + n) /\ (j + m) - m = j
  BY <1>1
<1> HIDE DEF m, n
<1>a. Elements(s) = {s[j] : j \in 1..m} /\ Elements(t) = {t[j] : j \in 1..n}
      /\ Elements(st) = {st[j] : j \in 1..(m + n)}
  BY <1>1 DEF Elements, m, n
<1>3. \A j \in 1..(m + n) : st[j] \in Elements(s) \cup Elements(t)
  BY <1>1, <1>2, <1>a
<1>4. \A x \in Elements(s) \cup Elements(t) : x \in Elements(st)
  <2>1. \A j \in 1..m : s[j] \in Elements(st)
    BY <1>1, <1>2, <1>a
  <2>2. \A j \in 1..n : t[j] = st[j + m]
    BY <1>1, <1>2
  <2>3. \A j \in 1..n : t[j] \in Elements(st)
    BY <1>2, <1>a, <2>2
  <2> QED BY <1>a, <2>1, <2>3
<1>5. Elements(st) = Elements(s) \cup Elements(t)
  BY <1>3, <1>4, <1>a
<1>6. ASSUME NEW j \in 1..(m + n), NEW k \in 1..(m + n), st[j] = st[k]
      PROVE  j = k
  <2>1. CASE j \in 1..m /\ k \in 1..m
    BY <1>1, <1>6, <2>1 DEF Once, m
  <2>2. CASE j \in (m + 1)..(m + n) /\ k \in (m + 1)..(m + n)
    <3>1. j - m \in 1..n /\ k - m \in 1..n /\ t[j - m] = t[k - m]
      BY <1>1, <1>2, <1>6, <2>2
    <3>2. j - m = k - m
      BY <3>1 DEF Once, n
    <3> QED BY <1>1, <2>2, <3>2
  <2>3. CASE j \in 1..m /\ k \in (m + 1)..(m + n)
    BY <1>1, <1>2, <1>6, <1>a, <2>3
  <2>4. CASE j \in (m + 1)..(m + n) /\ k \in 1..m
    BY <1>1, <1>2, <1>6, <1>a, <2>4
  <2> QED BY <1>2, <2>1, <2>2, <2>3, <2>4
<1> QED BY <1>1, <1>5, <1>6 DEF Once, st

\* The planner leaves open the rows of the probes it plans, and plans no probe
\* twice (core/preflight.py, build).
LEMMA PlanOpens ==
  ASSUME NEW host \in Host
  PROVE  LET probes == ProbesOf(host)
         IN  /\ {id \in PlannedProbe : Plan(host)[id] = "PENDING"} = {probes[j] : j \in 1..Len(probes)}
             /\ \A j, k \in 1..Len(probes) : probes[j] = probes[k] => j = k
             /\ DOMAIN Plan(host) = CheckId
<1> DEFINE probes == ProbesOf(host)
<1>1. \A b : Bad(b) # "PENDING"
  BY DEF Bad
<1>2. \A id \in PlannedProbe :
         Plan(host)[id] = IF ProbeAvailable(host, id) THEN "PENDING" ELSE Bad(Required(host, id))
  BY Zenon DEF Plan, CheckId, PlannedProbe
<1>3. \A id \in PlannedProbe : Plan(host)[id] = "PENDING" <=> ProbeAvailable(host, id)
  BY <1>1, <1>2
<1>4. probes = ProbeFor(host, "bubblewrap") \o ProbeFor(host, "pi") \o ProbeFor(host, "node")
  BY DEF ProbesOf
<1>5. \A id \in PlannedProbe :
         \/ ProbeAvailable(host, id) /\ ProbeFor(host, id) = <<id>>
         \/ ~ProbeAvailable(host, id) /\ ProbeFor(host, id) = <<>>
  BY DEF ProbeFor
<1>6. /\ ProbeFor(host, "bubblewrap") \in Seq(ProbeId) /\ ProbeFor(host, "pi") \in Seq(ProbeId)
      /\ ProbeFor(host, "node") \in Seq(ProbeId)
      /\ ProbeFor(host, "bubblewrap") \o ProbeFor(host, "pi") \in Seq(ProbeId)
  BY PreflightAssumption DEF ProbeFor, PlannedProbe
<1>a. \A id \in PlannedProbe :
         /\ Elements(ProbeFor(host, id)) = IF ProbeAvailable(host, id) THEN {id} ELSE {}
         /\ Once(ProbeFor(host, id))
  <2> SUFFICES ASSUME NEW id \in PlannedProbe
               PROVE  /\ Elements(ProbeFor(host, id)) = IF ProbeAvailable(host, id) THEN {id} ELSE {}
                      /\ Once(ProbeFor(host, id))
    OBVIOUS
  <2> DEFINE s == ProbeFor(host, id)
  <2>1. CASE ProbeAvailable(host, id)
    <3>1. Len(s) = 1 /\ s[1] = id
      BY <1>5, <2>1
    <3> HIDE DEF s
    <3> QED BY <2>1, <3>1 DEF Elements, Once, s
  <2>2. CASE ~ProbeAvailable(host, id)
    <3>1. Len(s) = 0
      BY <1>5, <2>2
    <3> HIDE DEF s
    <3> QED BY <2>2, <3>1 DEF Elements, Once, s
  <2> QED BY <2>1, <2>2
<1>7. /\ Elements(probes) = {id \in PlannedProbe : ProbeAvailable(host, id)}
      /\ Once(probes)
  <2> DEFINE two == ProbeFor(host, "bubblewrap") \o ProbeFor(host, "pi")
  <2>1. /\ Elements(two) = Elements(ProbeFor(host, "bubblewrap")) \cup Elements(ProbeFor(host, "pi"))
        /\ Once(two)
    BY <1>6, <1>a, ConcatOnce DEF PlannedProbe
  <2>2. probes = two \o ProbeFor(host, "node")
    BY <1>4
  <2>3. two \in Seq(ProbeId)
    BY <1>6
  <2>4. Elements(two) \cap Elements(ProbeFor(host, "node")) = {}
    BY <1>a, <2>1 DEF PlannedProbe
  <2>5. ProbeFor(host, "node") \in Seq(ProbeId) /\ Once(ProbeFor(host, "node"))
    BY <1>6, <1>a DEF PlannedProbe
  <2> HIDE DEF two, probes
  <2>6. /\ Elements(probes) = Elements(two) \cup Elements(ProbeFor(host, "node"))
        /\ Once(probes)
    BY <2>1, <2>2, <2>3, <2>4, <2>5, ConcatOnce
  <2> QED BY <1>a, <2>1, <2>6 DEF PlannedProbe
<1>8. DOMAIN Plan(host) = CheckId
  BY DEF Plan
<1>9. {id \in PlannedProbe : Plan(host)[id] = "PENDING"}
        = {id \in PlannedProbe : ProbeAvailable(host, id)}
  BY <1>3
<1> QED BY <1>7, <1>8, <1>9 DEF Elements, Once

\* The rows a reply answers are answered, the others stay as they are, and
\* those that stay open are the ones the runner still awaits.
LEMMA ToldRows ==
  ASSUME NEW c \in Controller, DOMAIN c.checks = CheckId, NEW reply,
         Answers(reply, OpenRows(c))
  PROVE  LET d == Told(c, c.generation, reply)
         IN  /\ DOMAIN d.checks = CheckId
             /\ ToldIds(reply) \in SUBSET OpenRows(c)
             /\ \A id \in ToldIds(reply) : d.checks[id] # "PENDING"
             /\ \A id \in CheckId \ ToldIds(reply) : d.checks[id] = c.checks[id]
             /\ OpenRows(d) = Awaited(reply.runner)
             /\ OpenRows(d) = OpenRows(c) \ ToldIds(reply)
             /\ reply.finished => d.status \notin {"cancelled", "start_failed"}
             /\ ~reply.finished => d.status = c.status /\ d.running = c.running
<1> DEFINE results == reply.results
           resultOf(id) == CHOOSE i \in 1..Len(results) : results[i][1] = id
           told == {results[i][1] : i \in 1..Len(results)}
           rows == [id \in DOMAIN c.checks |->
                      IF id \in told
                      THEN ClassifyProbeResult(id \in c.required, results[resultOf(id)][2])
                      ELSE c.checks[id]]
           shown == OnProbeResults(c, c.generation, results)
           d == Told(c, c.generation, reply)
<1>1. told = ToldIds(reply)
  BY DEF ToldIds
<1>2. \A required, result : ClassifyProbeResult(required, result) # "PENDING"
  BY DEF ClassifyProbeResult, Bad
<1>3. shown = [c EXCEPT !.checks = rows]
  BY Zenon DEF OnProbeResults
<1>4. /\ DOMAIN rows = CheckId
      /\ \A id \in CheckId \cap told : rows[id] # "PENDING"
      /\ \A id \in CheckId \ told : rows[id] = c.checks[id]
  <2> HIDE DEF told, resultOf
  <2> QED BY <1>2
<1> HIDE DEF rows, told, shown
<1>5. /\ shown.checks = rows /\ shown.status = c.status /\ shown.running = c.running
      /\ shown.generation = c.generation /\ DOMAIN shown = DOMAIN c
  BY <1>3 DEF Controller
<1> DEFINE status == FinalStatus(shown.checks)
           finish == [shown EXCEPT !.runner = 0, !.running = FALSE, !.manifest = TRUE,
                                   !.status = status]
<1>6. status \notin {"cancelled", "start_failed"}
  BY DEF FinalStatus
<1>7. d = IF reply.finished THEN Finish(shown, c.generation) ELSE shown
  BY DEF Told, shown
<1>8. Finish(shown, c.generation) = finish
  BY <1>5 DEF Finish
<1> HIDE DEF status
<1>9. finish.checks = shown.checks /\ finish.status = status
  <2>1. {"checks", "status"} \subseteq DOMAIN shown
    BY <1>5 DEF Controller
  <2> QED BY <2>1
<1> HIDE DEF finish, d
<1>10. /\ d.checks = rows
       /\ reply.finished => d.status \notin {"cancelled", "start_failed"}
       /\ ~reply.finished => d.status = c.status /\ d.running = c.running
  BY <1>5, <1>6, <1>7, <1>8, <1>9
<1>11. /\ ToldIds(reply) \in SUBSET OpenRows(c) /\ OpenRows(c) \subseteq PlannedProbe
       /\ PlannedProbe \subseteq CheckId
       /\ Awaited(reply.runner) = OpenRows(c) \ ToldIds(reply)
  BY DEF Answers, OpenRows, CheckId
<1>12. OpenRows(d) = OpenRows(c) \ ToldIds(reply)
  BY <1>1, <1>4, <1>10, <1>11 DEF OpenRows
<1> QED BY <1>1, <1>4, <1>10, <1>11, <1>12 DEF d

\* A signal of the runner that is held answers some rows, one of another runner
\* changes nothing (preflight_controller.py, _on_probe_result, _finish).
LEMMA DeliverAnswers ==
  ASSUME PreflightInv, Waits, NEW i \in 1..Len(runners), NEW reply,
         Accepts(reply, runners[i]),
         runners[i].process /\ InLine(runners[i]) => Answers(reply, Awaited(runners[i])),
         Deliver(i, reply)
  PROVE  /\ Waits'
         /\ ShowsTheSame(preflight, preflight') \/ AnswersSome(preflight, preflight')
<1> DEFINE c == preflight
           d == Told(c, runners[i].handler, reply)
           r == reply.runner
           new == [runners EXCEPT ![i] = r]
<1>1. runners' = new /\ preflight' = d
  BY DEF Deliver
<1>2. /\ runners \in Seq(Runner) /\ c \in Controller /\ Owned(c, runners)
  BY DEF PreflightInv, PreflightTypeOK
<1>3. r \in Runner /\ new \in Seq(Runner) /\ new[i] = r
      /\ \A j \in 1..Len(runners) : j # i => new[j] = runners[j]
  <2>1. r \in Runner
    BY DEF Accepts, RunnerSound
  <2> HIDE DEF r
  <2> QED BY <1>2, <2>1
<1>4. CASE ~runners[i].process
  <2>1. reply.results = <<>> /\ ~reply.finished
    BY <1>4 DEF Accepts
  <2> DEFINE shown == OnProbeResults(c, runners[i].handler, <<>>)
             told == {<<>>[k][1] : k \in 1..Len(<<>>)}
             rows == [id \in DOMAIN c.checks |->
                       IF id \in told
                       THEN ClassifyProbeResult(id \in c.required,
                              <<>>[CHOOSE k \in 1..Len(<<>>) : <<>>[k][1] = id][2])
                       ELSE c.checks[id]]
  <2>2. d = shown
    BY <2>1 DEF Told
  <2>3. shown = c \/ shown = [c EXCEPT !.checks = rows]
    BY Zenon DEF OnProbeResults
  <2>4. rows = c.checks
    <3>1. told = {}
      OBVIOUS
    <3>2. c.checks = [id \in DOMAIN c.checks |-> c.checks[id]]
      BY <1>2 DEF Controller
    <3> HIDE DEF told
    <3> QED BY <3>1, <3>2
  <2> HIDE DEF rows, shown, d
  <2>5. /\ d.checks = c.checks /\ d.running = c.running /\ d.status = c.status
        /\ d.runner = c.runner
    BY <1>2, <2>2, <2>3, <2>4 DEF Controller
  <2>6. ShowsTheSame(c, d)
    BY <2>5 DEF ShowsTheSame
  <2> HIDE DEF new
  <2>7. c.running => c.runner \in 1..Len(runners) /\ c.runner # i
    BY <1>2, <1>4 DEF Owned
  <2>8. Waits'
    BY <1>1, <1>3, <2>5, <2>7 DEF Waits, OpenRows
  <2> QED BY <1>1, <2>6, <2>8
<1>5. CASE runners[i].process
  <2>1. c.running /\ c.runner = i /\ runners[i].handler = c.generation
    BY <1>2, <1>5 DEF Owned
  <2>2. Answers(reply, OpenRows(c)) /\ DOMAIN c.checks = CheckId
    BY <1>5, <2>1 DEF Waits
  <2>3. /\ DOMAIN d.checks = CheckId
        /\ ToldIds(reply) \in SUBSET OpenRows(c)
        /\ \A id \in ToldIds(reply) : d.checks[id] # "PENDING"
        /\ \A id \in CheckId \ ToldIds(reply) : d.checks[id] = c.checks[id]
        /\ OpenRows(d) = Awaited(r)
        /\ OpenRows(d) = OpenRows(c) \ ToldIds(reply)
        /\ reply.finished => d.status \notin {"cancelled", "start_failed"}
        /\ ~reply.finished => d.status = c.status /\ d.running = c.running
    <3> DEFINE t == Told(c, c.generation, reply)
    <3>1. d = t
      BY <2>1
    <3>2. /\ DOMAIN t.checks = CheckId
          /\ ToldIds(reply) \in SUBSET OpenRows(c)
          /\ \A id \in ToldIds(reply) : t.checks[id] # "PENDING"
          /\ \A id \in CheckId \ ToldIds(reply) : t.checks[id] = c.checks[id]
          /\ OpenRows(t) = Awaited(r)
          /\ OpenRows(t) = OpenRows(c) \ ToldIds(reply)
          /\ reply.finished => t.status \notin {"cancelled", "start_failed"}
          /\ ~reply.finished => t.status = c.status /\ t.running = c.running
      <4> HIDE DEF c
      <4> QED BY <1>2, <2>2, ToldRows
    <3> HIDE DEF d, t
    <3> QED BY <3>1, <3>2
  <2>4. (reply.finished => ~d.running) /\ (~reply.finished => SameRun(c, d))
    BY <1>2, <2>1, ToldTyped
  <2>5. reply.finished <=> ~r.process
    BY <1>5 DEF Accepts
  <2>6. Awaited(r) = {} <=> ~r.process
    BY DEF Awaited
  <2>7. ToldIds(reply) = OpenRows(c) <=> reply.finished
    BY <2>3, <2>5, <2>6
  <2> HIDE DEF d, r, new
  <2>8. AnswersSome(c, d)
    BY <2>1, <2>3, <2>4, <2>7 DEF AnswersSome
  <2>9. InLine(r)
    BY <2>2 DEF Answers, r
  <2>10. d.running => d.runner = i
    BY <2>1, <2>4 DEF SameRun
  <2>11. Waits'
    BY <1>1, <1>3, <2>3, <2>9, <2>10 DEF Waits
  <2> QED BY <1>1, <2>8, <2>11
<1> QED BY <1>4, <1>5

\* See DeliverAnswers, for each signal (Preflight, PreflightSignal).
LEMMA PreflightSignalAnswers ==
  ASSUME PreflightInv, Waits, NEW i \in 1..Len(runners), PreflightSignal(i)
  PROVE  /\ Waits'
         /\ ShowsTheSame(preflight, preflight') \/ AnswersSome(preflight, preflight')
<1> DEFINE r == runners[i]
           AnswersFor(reply) == r.process /\ InLine(r) => Answers(reply, Awaited(r))
<1>1. RunnerSound(r) /\ r.queue \in Seq(ProbeId)
  BY DEF PreflightInv, Owned, RunnerSound, Runner
<1> SUFFICES \E reply : Accepts(reply, r) /\ AnswersFor(reply) /\ Deliver(i, reply)
  BY DeliverAnswers
<1>a. 0 \in 0..Len(r.queue)
  BY <1>1
<1>2. CASE ProbeStarted(i)
  <2>1. Accepts(Silent(ProcessStarted(r)), r)
    BY <1>1, <1>2, QuietSlotsAccepted DEF ProbeStarted
  <2>2. AnswersFor(Silent(ProcessStarted(r)))
    <3> HIDE DEF r
    <3> QED BY <1>1, <1>a, <1>2, SignalsAnswer DEF ProbeStarted, r
  <2> QED BY <1>2, <2>1, <2>2 DEF ProbeStarted
<1>3. CASE ProbeFailsToStart(i)
  <2>1. PICK failing \in SyncFailures(r) : Deliver(i, ProcessFailsToStart(r, failing, ""))
    BY <1>3 DEF ProbeFailsToStart
  <2>2. r.os # "none" /\ failing \in 0..Len(r.queue)
    BY <1>3, <2>1 DEF ProbeFailsToStart, SyncFailures
  <2>3. Accepts(ProcessFailsToStart(r, failing, ""), r)
    <3> HIDE DEF r
    <3> QED BY <1>1, <2>2, FailsToStartAccepted
  <2>4. AnswersFor(ProcessFailsToStart(r, failing, ""))
    <3> HIDE DEF r
    <3> QED BY <1>1, <2>2, SignalsAnswer
  <2> QED BY <2>1, <2>3, <2>4
<1>4. CASE ProbeEnds(i)
  <2>1. PICK failing \in SyncFailures(r), exit \in {0, 1} :
           \/ Deliver(i, ProcessExits(r, exit, "", failing))
           \/ Deliver(i, ProcessCrashes(r, exit, "", failing))
    BY <1>4 DEF ProbeEnds
  <2>2. r.os # "none" /\ failing \in 0..Len(r.queue)
    BY <1>4, <2>1 DEF ProbeEnds, SyncFailures
  <2>3. /\ Accepts(ProcessExits(r, exit, "", failing), r)
        /\ Accepts(ProcessCrashes(r, exit, "", failing), r)
    <3> HIDE DEF r
    <3> QED BY <1>1, <2>2, ExitsAccepted, CrashesAccepted
  <2>4. /\ AnswersFor(ProcessExits(r, exit, "", failing))
        /\ AnswersFor(ProcessCrashes(r, exit, "", failing))
    <3> HIDE DEF r
    <3> QED BY <1>1, <2>2, SignalsAnswer
  <2> QED BY <2>1, <2>3, <2>4
<1>5. CASE ProbeTimeout(i)
  <2>1. Accepts(Silent(OnTimeout(r)), r)
    BY <1>1, <1>5, QuietSlotsAccepted DEF ProbeTimeout
  <2>2. AnswersFor(Silent(OnTimeout(r)))
    <3> HIDE DEF r
    <3> QED BY <1>1, <1>a, <1>5, SignalsAnswer DEF ProbeTimeout, r
  <2> QED BY <1>5, <2>1, <2>2 DEF ProbeTimeout
<1> QED BY <1>2, <1>3, <1>4, <1>5 DEF PreflightSignal

\* A run begins with the rows of its probes open (preflight_controller.py, run).
LEMMA RunWaits ==
  ASSUME PreflightInv, Run
  PROVE  Waits'
<1>1. /\ runners \in Seq(Runner) /\ Len(runners) \in Nat
      /\ preflight \in Controller /\ preflight.generation \in Nat
  BY DEF PreflightInv, PreflightTypeOK, Controller
<1> DEFINE run == preflight.generation + 1
           n == Len(runners) + 1
           planned(host) == [preflight EXCEPT !.generation = run, !.checks = Plan(host),
                                              !.required = RequiredProbes(host),
                                              !.manifest = FALSE]
           begun(host) == [planned(host) EXCEPT !.running = TRUE, !.status = "running",
                                                !.runner = n]
<1>2. ~preflight.running /\ run < Generations /\ Len(runners) < PreflightRuns
  BY DEF Run
<1>3. PICK host \in Hosts :
        \/ preflight' = Finish(planned(host), run)
        \/ \E failing \in 0..Len(ProbesOf(host)) :
              LET reply == Start(ProbesOf(host), run, failing, "")
              IN /\ runners' = Append(runners, reply.runner)
                 /\ preflight' = Told(begun(host), run, reply)
  BY DEF Run
<1> DEFINE p == planned(host)
           b == begun(host)
           probes == ProbesOf(host)
<1>4. /\ host \in Host /\ run \in 0..Generations /\ run \in Nat \ {0}
      /\ n \in 0..PreflightRuns
      /\ RequiredProbes(host) \in SUBSET PlannedProbe /\ Plan(host) \in Rows
  BY <1>1, <1>2, PreflightAssumption, PlanRows DEF RequiredProbes
<1>5. p \in Controller /\ p.generation = run /\ ~p.running /\ p.checks = Plan(host)
  BY <1>1, <1>2, <1>4 DEF Controller, Rows
<1>6. b \in Controller /\ b.generation = run /\ b.running /\ b.runner = n /\ b.checks = Plan(host)
  <2> HIDE DEF p
  <2>1. b = [p EXCEPT !.running = TRUE, !.status = "running", !.runner = n]
    BY DEF p
  <2> HIDE DEF b, n
  <2> QED BY <1>4, <1>5, <2>1 DEF Controller
<1> HIDE DEF p, b
<1>7. CASE preflight' = Finish(p, run)
  BY <1>5, <1>7, FinishTyped DEF Waits
<1>8. CASE \E failing \in 0..Len(probes) :
              LET reply == Start(probes, run, failing, "")
              IN /\ runners' = Append(runners, reply.runner)
                 /\ preflight' = Told(b, run, reply)
  <2>1. PICK failing \in 0..Len(probes) :
           LET reply == Start(probes, run, failing, "")
           IN /\ runners' = Append(runners, reply.runner)
              /\ preflight' = Told(b, run, reply)
    BY <1>8
  <2>2. /\ probes \in Seq(ProbeId)
        /\ \A j, k \in 1..Len(probes) : probes[j] = probes[k] => j = k
        /\ OpenRows(b) = {probes[j] : j \in 1..Len(probes)}
        /\ DOMAIN b.checks = CheckId
    BY <1>4, <1>6, ProbesOfTyped, PlanOpens DEF OpenRows
  <2> HIDE DEF probes
  <2> DEFINE reply == Start(probes, run, failing, "")
             r == reply.runner
             d == Told(b, run, reply)
  <2>3. Answers(reply, OpenRows(b))
    <3>1. Answers(reply, {probes[j] : j \in 1..Len(probes)})
      <4> HIDE DEF run
      <4> QED BY <1>4, <2>2, StartAnswers
    <3> HIDE DEF reply
    <3> QED BY <2>2, <3>1
  <2>4. r \in Runner
    <3>1. Begins(reply, run)
      <4> HIDE DEF run
      <4> QED BY <1>4, <2>2, StartContinues
    <3> HIDE DEF reply
    <3> QED BY <3>1 DEF Begins, RunnerSound
  <2>5. InLine(r)
    BY <2>3 DEF Answers
  <2>6. runners' = Append(runners, r) /\ preflight' = d
    BY <2>1
  <2> HIDE DEF reply, run
  <2>7. DOMAIN d.checks = CheckId /\ OpenRows(d) = Awaited(r)
    BY <1>6, <2>2, <2>3, ToldRows
  <2>8. d.running => d.runner = n
    BY <1>6, ToldTyped DEF SameRun
  <2> HIDE DEF d, r
  <2>9. Append(runners, r)[n] = r
    BY <1>1, <2>4
  <2> QED BY <2>5, <2>6, <2>7, <2>8, <2>9 DEF Waits
<1> QED BY <1>3, <1>7, <1>8 DEF p, b, probes

-----------------------------------------------------------------------------
(***************************************************************************)
(* The sandbox gate, its runners and its directories, for every set of     *)
(* expected checks, every output of the gate's process and every bound:    *)
(* what each action leaves on disk, and what a verdict rests on.           *)
(***************************************************************************)

\* The directories while the plan with this number is held (0: none).
DiskClean(d, plan, left) ==
    /\ d \in Disk
    /\ d.outside \subseteq {plan}
    /\ d.scratch \subseteq {plan} \cup left
    /\ d.own_files => d.agent_dir

\* What makes a verdict: see Diagnostics, VerdictIsProved.
Proves(e) ==
    /\ ~e.start_error /\ ~e.timed_out /\ e.exit_code = 0
    /\ \A i \in 1..Len(e.stdout.items) : e.stdout.items[i].passed = "true"
    /\ {e.stdout.items[i].id : i \in 1..Len(e.stdout.items)} = Expected
    /\ Len(e.stdout.items) = Cardinality(Expected)

\* The controller between two turns of the event loop: it holds a plan exactly
\* while it runs, and may raise its generation once more for the result.
GateSound(c, d, left) ==
    /\ c \in GateController
    /\ c.plan = c.runner
    /\ c.running <=> c.plan # 0
    /\ c.running => c.verdict = "pending" /\ c.generation + 1 < GateGenerations
    /\ DiskClean(d, c.plan, left)
    /\ c.verdict = "passed" => Proves(c.evidence)

\* What a signal may do to the controller: nothing, or conclude its run.
Concluded(c, d) ==
    \/ d = c
    \/ /\ c.running /\ ~d.running /\ d.verdict \in {"passed", "failed"}
       /\ d.generation < GateGenerations

GateInv ==
    /\ gateRunners \in Seq(Runner)
    /\ Len(gateRunners) <= GateRuns
    /\ raced \subseteq 1..GateRuns
    /\ Owned(gate, gateRunners)
    /\ \A i \in 1..Len(gateRunners) : gateRunners[i].queue = <<>>
    /\ GateSound(gate, disk, raced)

-----------------------------------------------------------------------------
\* rmdir takes the agent directory only when nothing is in it
\* (core/sandbox_gate.py, _remove_agent_directory).
LEMMA RemoveAgentDirKeeps ==
  ASSUME NEW d \in Disk, d.own_files => d.agent_dir, NEW created
  PROVE  LET e == RemoveAgentDir(d, created)
         IN  /\ e \in Disk /\ e.outside = d.outside /\ e.scratch = d.scratch
             /\ e.own_files = d.own_files
             /\ e.own_files => e.agent_dir
<1> DEFINE stays == d.agent_dir /\ ~(created /\ ~d.own_files /\ d.scratch = {})
           e == RemoveAgentDir(d, created)
<1>1. stays \in BOOLEAN /\ (d.own_files => stays)
  OBVIOUS
<1>2. e = [d EXCEPT !.agent_dir = stays]
  BY DEF RemoveAgentDir
<1> HIDE DEF stays, e
<1>3. e \in Disk
  BY <1>1, <1>2 DEF Disk
<1>4. /\ e.outside = d.outside /\ e.scratch = d.scratch /\ e.own_files = d.own_files
      /\ e.agent_dir = stays
  BY <1>2 DEF Disk
<1> QED BY <1>1, <1>3, <1>4 DEF e

\* The clean-up of a plan removes its two directories and no other.
LEMMA CleanupPathsClean ==
  ASSUME NEW d, NEW n, NEW left, DiskClean(d, n, left), NEW created
  PROVE  DiskClean(CleanupPaths(d, n, created), 0, left)
<1> DEFINE s == d.scratch \ {n}
           o == d.outside \ {n}
           c == [d EXCEPT !.scratch = s, !.outside = o]
<1>1. s \in SUBSET (1..GateRuns) /\ o \in SUBSET (1..GateRuns) /\ s \subseteq left /\ o = {}
  BY DEF DiskClean, Disk
<1>2. CleanupPaths(d, n, created) = RemoveAgentDir(c, created)
  BY DEF CleanupPaths
<1> HIDE DEF s, o
<1>3. c \in Disk
  BY <1>1 DEF DiskClean, Disk
<1>4. c.scratch = s /\ c.outside = o /\ c.own_files = d.own_files /\ c.agent_dir = d.agent_dir
  BY DEF DiskClean, Disk
<1> HIDE DEF c
<1>5. c.own_files => c.agent_dir
  BY <1>4 DEF DiskClean
<1> DEFINE e == RemoveAgentDir(c, created)
<1>6. /\ e \in Disk /\ e.outside = c.outside /\ e.scratch = c.scratch
      /\ e.own_files => e.agent_dir
  BY <1>3, <1>5, RemoveAgentDirKeeps
<1> HIDE DEF e
<1>7. DiskClean(e, 0, left)
  BY <1>1, <1>4, <1>6 DEF DiskClean
<1> QED BY <1>2, <1>7 DEF e

\* A directory that rmtree could not empty is one of a raced run.
LEMMA CleanupRacedClean ==
  ASSUME NEW d, NEW n, NEW left, DiskClean(d, n, left)
  PROVE  DiskClean(CleanupRaced(d, n), 0, left \cup {n})
<1> DEFINE o == d.outside \ {n}
           c == CleanupRaced(d, n)
<1>1. o \in SUBSET (1..GateRuns) /\ o = {}
  BY DEF DiskClean, Disk
<1>2. c = [d EXCEPT !.outside = o]
  BY DEF CleanupRaced
<1> HIDE DEF o, c
<1>3. c \in Disk
  BY <1>1, <1>2 DEF DiskClean, Disk
<1>4. /\ c.scratch = d.scratch /\ c.outside = o /\ c.own_files = d.own_files
      /\ c.agent_dir = d.agent_dir
  BY <1>2 DEF DiskClean, Disk
<1> QED BY <1>1, <1>3, <1>4 DEF DiskClean, c

\* prepare() makes the directories of its plan.
LEMMA PreparedClean ==
  ASSUME NEW d, NEW left, DiskClean(d, 0, left), NEW n, n \in 1..GateRuns
  PROVE  DiskClean(Prepared(d, n), n, left)
<1> DEFINE s == d.scratch \cup {n}
           o == d.outside \cup {n}
           c == Prepared(d, n)
<1>1. /\ s \in SUBSET (1..GateRuns) /\ o \in SUBSET (1..GateRuns)
      /\ s \subseteq {n} \cup left /\ o = {n}
  BY GateAssumption DEF DiskClean, Disk
<1>2. c = [d EXCEPT !.agent_dir = TRUE, !.scratch = s, !.outside = o]
  BY DEF Prepared
<1> HIDE DEF s, o, c
<1>3. c \in Disk
  BY <1>1, <1>2 DEF DiskClean, Disk
<1>4. c.scratch = s /\ c.outside = o /\ c.agent_dir
  BY <1>2 DEF DiskClean, Disk
<1> QED BY <1>1, <1>3, <1>4 DEF DiskClean, c

\* A prepare() that raises leaves nothing of its plan.
LEMMA PrepareFailedClean ==
  ASSUME NEW d, NEW left, DiskClean(d, 0, left), NEW n, n \in 1..GateRuns,
         NEW e \in PrepareFailed(d, n)
  PROVE  DiskClean(e, 0, left)
<1>1. CASE e = d
  BY <1>1
<1>2. CASE e # d
  <2>1. PICK s \in {{}, {n}}, o \in {{}, {n}} :
           e = CleanupPaths([d EXCEPT !.agent_dir = TRUE, !.scratch = @ \cup s,
                                      !.outside = @ \cup o], n, ~d.agent_dir)
    BY <1>2 DEF PrepareFailed
  <2> DEFINE ss == d.scratch \cup s
             oo == d.outside \cup o
             c == [d EXCEPT !.agent_dir = TRUE, !.scratch = ss, !.outside = oo]
  <2>2. /\ ss \in SUBSET (1..GateRuns) /\ oo \in SUBSET (1..GateRuns)
        /\ ss \subseteq {n} \cup left /\ oo \subseteq {n}
    BY GateAssumption DEF DiskClean, Disk
  <2> HIDE DEF ss, oo
  <2>3. c \in Disk
    BY <2>2 DEF DiskClean, Disk
  <2>4. c.scratch = ss /\ c.outside = oo /\ c.agent_dir
    BY DEF DiskClean, Disk
  <2>5. e = CleanupPaths(c, n, ~d.agent_dir)
    BY <2>1 DEF ss, oo
  <2> HIDE DEF c
  <2>6. DiskClean(c, n, left)
    BY <2>2, <2>3, <2>4 DEF DiskClean
  <2> QED BY <2>5, <2>6, CleanupPathsClean
<1> QED BY <1>1, <1>2

-----------------------------------------------------------------------------
\* A report in which every row passed rests on a process that ended with exit
\* code 0 and printed each expected check once, passed (core/sandbox_gate.py,
\* parse_result).
LEMMA PassIsProved ==
  ASSUME NEW e, e \in Results, Passed(ParseResult(e))
  PROVE  Proves(e)
<1> DEFINE items == e.stdout.items
           checks == ItemChecks(items)
<1>1. items \in Seq([id : STRING, passed : STRING]) /\ Len(items) \in Nat
  BY GateAssumption DEF Results
<1>2. ~Passed(ProcessFailure)
  BY DEF Passed, AllPass, ProcessFailure
<1>3. ASSUME NEW c, NEW row PROVE ~Passed(WithFailedRow(c, row))
  BY DEF Passed, AllPass, WithFailedRow
<1>4. ParseResult(e) # ProcessFailure
  BY <1>2
<1>5. \A row : ParseResult(e) # WithFailedRow(checks, row)
  BY <1>3
<1>6. /\ ~e.start_error /\ ~e.timed_out /\ ~Ambiguous(items) /\ ~Omitted(items)
      /\ e.exit_code \in {0, 2} /\ (e.exit_code = 0) = AllPass(checks)
      /\ ParseResult(e) = checks
  <2> HIDE DEF items, checks
  <2> QED BY <1>4, <1>5 DEF ParseResult, items, checks
<1>7. AllPass(checks)
  BY <1>6 DEF Passed
<1>8. e.exit_code = 0
  BY <1>6, <1>7
<1> HIDE DEF items
<1>9. ASSUME NEW i \in 1..Len(items)
      PROVE  items[i].id \in Expected /\ items[i].passed = "true"
  <2>1. items[i].id \in Expected /\ items[i].passed \in {"true", "false"}
    BY <1>6 DEF Ambiguous
  <2>2. checks[items[i].id] = "PASS"
    BY <1>7, <2>1 DEF AllPass, ItemChecks
  <2>3. PICK j \in 1..Len(items) : items[j].id = items[i].id /\ items[j].passed = "true"
    BY <2>1, <2>2 DEF ItemChecks
  <2>4. ~(\E k \in 1..(i - 1) : items[k].id = items[i].id)
        /\ ~(\E k \in 1..(j - 1) : items[k].id = items[j].id)
    BY <1>6 DEF Ambiguous
  <2>5. j = i
    <3>1. ~(j \in 1..(i - 1)) /\ ~(i \in 1..(j - 1))
      BY <2>3, <2>4
    <3> QED BY <1>1, <3>1
  <2> QED BY <2>1, <2>3, <2>5
<1>10. \A id \in Expected : \E i \in 1..Len(items) : items[i].id = id
  BY <1>6 DEF Omitted
<1>11. {items[i].id : i \in 1..Len(items)} = Expected
  BY <1>9, <1>10
<1>12. Len(items) = Cardinality(Expected)
  <2> DEFINE f == [i \in 1..Len(items) |-> items[i].id]
  <2>1. f \in Surjection(1..Len(items), Expected)
    BY <1>9, <1>10 DEF Surjection
  <2>2. \A i, j \in 1..Len(items) : f[i] = f[j] => i = j
    <3> SUFFICES ASSUME NEW i \in 1..Len(items), NEW j \in 1..Len(items), f[i] = f[j]
                 PROVE  i = j
      OBVIOUS
    <3>1. ~(i \in 1..(j - 1)) /\ ~(j \in 1..(i - 1))
      BY <1>6 DEF Ambiguous
    <3> QED BY <1>1, <3>1
  <2>3. f \in Bijection(1..Len(items), Expected)
    BY <2>1, <2>2 DEF Bijection, Injection, Surjection, IsInjective
  <2>4. ExistsBijection(1..Len(items), Expected)
    BY <2>3 DEF ExistsBijection
  <2> QED BY <1>1, <2>4, FS_CountingElements
<1> QED BY <1>6, <1>8, <1>9, <1>11, <1>12 DEF Proves, items

-----------------------------------------------------------------------------
\* What a reply carries for the owner of a runner of one probe.
Tells(reply) == reply.results = <<>> \/ reply.results[1][2] \in Results

\* No result is a result that stands for one (sandbox_gate_controller.py,
\* _on_runner_finished).
LEMMA StartErrorTyped ==
  StartError(Junk) \in Results
BY GateAssumption DEF StartError, Results, ExitCode, NoExit

\* A result that the controller waits for ends the run, and its directories
\* with it; any other changes nothing (sandbox_gate_controller.py, _on_result).
LEMMA OnResultSound ==
  ASSUME NEW c, NEW d, NEW left, GateSound(c, d, left), NEW run, NEW result \in Results
  PROVE  LET told == OnResult(c, d, run, result)
         IN  /\ GateSound(told.gate, told.disk, left)
             /\ Concluded(c, told.gate)
             /\ run # c.generation \/ c.plan = 0 => told.gate = c
             /\ run = c.generation /\ c.plan # 0
                  => /\ ~told.gate.running /\ told.gate.runner = 0
                     /\ told.gate.generation # run
<1>1. CASE run # c.generation \/ c.plan = 0
  BY <1>1 DEF OnResult, Concluded
<1>2. CASE ~(run # c.generation \/ c.plan = 0)
  <2> DEFINE verdict == IF Passed(ParseResult(result)) THEN "passed" ELSE "failed"
             g == [c EXCEPT !.verdict = verdict, !.manifest = TRUE, !.plan = 0, !.runner = 0,
                            !.running = FALSE, !.generation = @ + 1, !.evidence = result]
             e == CleanupPaths(d, c.plan, c.agent_dir_created)
             told == OnResult(c, d, run, result)
  <2>1. verdict \in {"passed", "failed"} /\ (verdict = "passed" => Proves(result))
    BY PassIsProved
  <2>2. told = [gate |-> g, disk |-> e]
    BY <1>2 DEF OnResult
  <2> HIDE DEF verdict, told, e
  <2>3. c.generation + 1 \in 0..GateGenerations /\ 0 \in 0..GateRuns
        /\ c.generation # c.generation + 1 /\ c.generation + 1 < GateGenerations
    BY <1>2, GateAssumption DEF GateSound, GateController
  <2>4. g \in GateController
    BY <2>1, <2>3 DEF GateSound, GateController
  <2>5. /\ g.plan = 0 /\ g.runner = 0 /\ g.running = FALSE /\ g.verdict = verdict
        /\ g.evidence = result /\ g.generation = c.generation + 1
    BY DEF GateSound, GateController
  <2> HIDE DEF g
  <2>6. DiskClean(e, 0, left)
    BY CleanupPathsClean DEF GateSound, e
  <2>7. GateSound(g, e, left)
    BY <2>1, <2>4, <2>5, <2>6 DEF GateSound
  <2>8. Concluded(c, g)
    BY <1>2, <2>1, <2>3, <2>5 DEF Concluded, GateSound
  <2> QED BY <1>2, <2>2, <2>3, <2>5, <2>7, <2>8 DEF told
<1> QED BY <1>1, <1>2

\* What a reply of the runner does to the controller.
LEMMA AnsweredSound ==
  ASSUME NEW c, NEW d, NEW left, GateSound(c, d, left), NEW run, NEW reply, Tells(reply)
  PROVE  LET told == Answered(c, d, run, reply)
         IN  /\ GateSound(told.gate, told.disk, left)
             /\ Concluded(c, told.gate)
             /\ reply.results = <<>> /\ ~reply.finished => told.gate = c
             /\ run # c.generation => told.gate = c
             /\ (reply.results # <<>> \/ reply.finished) /\ run = c.generation /\ c.plan # 0
                  => ~told.gate.running /\ told.gate.runner = 0
<1> DEFINE first == IF reply.results = <<>> THEN [gate |-> c, disk |-> d]
                    ELSE OnResult(c, d, run, reply.results[1][2])
           told == Answered(c, d, run, reply)
<1>1. told = IF reply.finished THEN OnResult(first.gate, first.disk, run, StartError(Junk))
             ELSE first
  BY DEF Answered, OnRunnerFinished
<1>2. /\ GateSound(first.gate, first.disk, left)
      /\ Concluded(c, first.gate)
      /\ reply.results = <<>> => first.gate = c
      /\ run # c.generation => first.gate = c
      /\ reply.results # <<>> /\ run = c.generation /\ c.plan # 0
           => /\ ~first.gate.running /\ first.gate.runner = 0
              /\ first.gate.generation # run
  <2>1. CASE reply.results = <<>>
    BY <2>1 DEF Concluded
  <2>2. CASE reply.results # <<>>
    <3>1. first = OnResult(c, d, run, reply.results[1][2]) /\ reply.results[1][2] \in Results
      BY <2>2 DEF Tells
    <3> HIDE DEF first
    <3> QED BY <2>2, <3>1, OnResultSound
  <2> QED BY <2>1, <2>2
<1> HIDE DEF first, told
<1>3. CASE ~reply.finished
  BY <1>1, <1>2, <1>3 DEF told
<1>4. CASE reply.finished
  <2> DEFINE second == OnResult(first.gate, first.disk, run, StartError(Junk))
  <2>1. told = second
    BY <1>1, <1>4
  <2>2. /\ GateSound(second.gate, second.disk, left)
        /\ Concluded(first.gate, second.gate)
        /\ run # first.gate.generation \/ first.gate.plan = 0 => second.gate = first.gate
        /\ run = first.gate.generation /\ first.gate.plan # 0
             => ~second.gate.running /\ second.gate.runner = 0
    BY <1>2, StartErrorTyped, OnResultSound
  <2> HIDE DEF second
  <2>3. Concluded(c, second.gate)
    BY <1>2, <2>2 DEF Concluded
  <2> QED BY <1>2, <1>4, <2>1, <2>2, <2>3 DEF told
<1> QED BY <1>3, <1>4

-----------------------------------------------------------------------------
\* What the end of the gate's process tells: a typed result or, after a cancel,
\* nothing (probe_runner.py, _on_error, _on_finished).
LEMMA EndsTell ==
  ASSUME NEW r, RunnerSound(r), r.os # "none", r.queue = <<>>, NEW payload \in Payloads,
         NEW exit \in ExitCode
  PROVE  /\ Tells(ProcessFailsToStart(r, 0, Junk))
         /\ Tells(ProcessExits(r, exit, payload, 0))
         /\ Tells(ProcessCrashes(r, exit, payload, 0))
<1> DEFINE e == [r EXCEPT !.os = "none"]
           failed == [StartError(Junk) EXCEPT !.timed_out = e.timed_out]
           ended == [start_error |-> FALSE, timed_out |-> e.timed_out,
                     exit_code |-> exit, stdout |-> payload]
           starts == ProcessFailsToStart(r, 0, Junk)
           exits == ProcessExits(r, exit, payload, 0)
           crashes == ProcessCrashes(r, exit, payload, 0)
<1>1. e.timed_out \in BOOLEAN
  BY DEF RunnerSound, Runner
<1>2. failed \in Results /\ ended \in Results
  <2> HIDE DEF e
  <2> DEFINE start == StartError(Junk)
  <2>1. start \in Results
    BY StartErrorTyped
  <2> HIDE DEF start
  <2>2. [start EXCEPT !.timed_out = e.timed_out] \in Results
    BY <1>1, <2>1 DEF Results
  <2>3. ended \in Results
    BY <1>1 DEF Results
  <2> QED BY <2>2, <2>3 DEF start
<1>3. crashes.results = exits.results \/ crashes.results = <<>> \o exits.results
  <2> HIDE DEF e
  <2>1. OnError(e, "Crashed", 0, payload) = Silent(e) /\ exits = OnFinished(e, exit, payload, 0)
    BY DEF OnError, ProcessExits, e
  <2>2. crashes = LET told == OnError(e, "Crashed", 0, payload)
                  IN Then(told, OnFinished(told.runner, exit, payload, 0))
    BY DEF ProcessCrashes, e
  <2>3. Silent(e).runner = e
    BY DEF Silent, Reply
  <2>4. crashes = Then(Silent(e), exits)
    BY <2>1, <2>2, <2>3
  <2> HIDE DEF crashes, exits
  <2> QED BY <2>4 DEF Then, Silent, Reply
<1>4. CASE r.process
  <2>1. Ending(e) /\ e.queue = <<>>
    BY <1>4, EndedRunner
  <2>2. starts = ReportAndContinue(e, failed, 0)
    <3> HIDE DEF e
    <3> QED BY <2>1 DEF ProcessFailsToStart, OnError, Ending, e
  <2>3. exits = ReportAndContinue(e, ended, 0)
    <3> HIDE DEF e
    <3> QED BY <2>1 DEF ProcessExits, OnFinished, Ending, e
  <2> HIDE DEF e, failed, ended, starts, exits, crashes
  <2>4. starts.results = << <<e.probe, failed>> >> /\ exits.results = << <<e.probe, ended>> >>
    BY <2>1, <2>2, <2>3, LastProbeTells
  <2>5. \A x : <<>> \o << <<e.probe, x>> >> = << <<e.probe, x>> >>
    OBVIOUS
  <2> QED BY <1>2, <1>3, <2>4, <2>5 DEF Tells, starts, exits, crashes
<1>5. CASE ~r.process
  <2>1. e.cancelled
    BY <1>5, EndedRunner
  <2>2. starts = Silent(e) /\ exits = Silent(e)
    <3> HIDE DEF e
    <3> QED BY <2>1 DEF ProcessFailsToStart, ProcessExits, OnError, OnFinished, e
  <2> HIDE DEF e, starts, exits, crashes
  <2>3. starts.results = <<>> /\ exits.results = <<>> /\ <<>> \o <<>> = <<>>
    BY <2>2 DEF Silent, Reply
  <2> QED BY <1>3, <2>3 DEF Tells, starts, exits, crashes
<1> QED BY <1>4, <1>5

\* A signal of a runner reaches the controller as long as the runner is the one
\* it holds, and then ends the run when no process is left.
LEMMA GateDeliverKeeps ==
  ASSUME GateInv, NEW i \in 1..Len(gateRunners), NEW reply, Accepts(reply, gateRunners[i]),
         Tells(reply), GateDeliver(i, reply)
  PROVE  GateInv' /\ Concluded(gate, gate')
<1> DEFINE r == reply.runner
           run == gateRunners[i].handler
           told == Answered(gate, disk, run, reply)
           d == told.gate
           new == [gateRunners EXCEPT ![i] = r]
<1>1. gateRunners' = new /\ gate' = d /\ disk' = told.disk /\ raced' = raced
  BY DEF GateDeliver
<1>2. /\ gateRunners \in Seq(Runner) /\ Len(gateRunners) <= GateRuns
      /\ raced \subseteq 1..GateRuns /\ Owned(gate, gateRunners)
      /\ \A j \in 1..Len(gateRunners) : gateRunners[j].queue = <<>>
      /\ GateSound(gate, disk, raced)
  BY DEF GateInv
<1>3. /\ GateSound(d, told.disk, raced)
      /\ Concluded(gate, d)
      /\ reply.results = <<>> /\ ~reply.finished => d = gate
      /\ run # gate.generation => d = gate
      /\ (reply.results # <<>> \/ reply.finished) /\ run = gate.generation /\ gate.plan # 0
           => ~d.running /\ d.runner = 0
  BY <1>2, AnsweredSound
<1>4. /\ RunnerSound(r) /\ r.queue = <<>>
      /\ reply.results # <<>> => reply.finished
      /\ gateRunners[i].process => /\ r.handler = run
                                   /\ reply.finished <=> ~r.process
      /\ ~gateRunners[i].process => ~r.process /\ reply.results = <<>> /\ ~reply.finished
  BY <1>2 DEF Accepts
<1>5. gateRunners[i].process => run = gate.generation /\ gate.plan # 0
  BY <1>2 DEF Owned, GateSound
<1> HIDE DEF r, run, told, d
<1>6. /\ new \in Seq(Runner)
      /\ Len(new) = Len(gateRunners)
      /\ Owned(d, new)
  <2>1. ~gateRunners[i].process => ~r.process /\ SameRun(gate, d)
    BY <1>3, <1>4 DEF SameRun
  <2>2. gateRunners[i].process /\ r.process => SameRun(gate, d)
    BY <1>3, <1>4 DEF SameRun
  <2>3. gateRunners[i].process /\ ~r.process => ~d.running /\ d.runner = 0
    BY <1>3, <1>4, <1>5
  <2>4. gateRunners[i].process => r.handler = gateRunners[i].handler
    BY <1>4 DEF run
  <2> QED BY <1>2, <1>4, <2>1, <2>2, <2>3, <2>4, OwnedAfterSlot
<1>7. \A j \in 1..Len(new) : new[j].queue = <<>>
  BY <1>2, <1>4, <1>6
<1> HIDE DEF new
<1> QED BY <1>1, <1>2, <1>3, <1>6, <1>7 DEF GateInv

-----------------------------------------------------------------------------
\* No run, no plan, no directory (sandbox_gate_controller.py, __init__).
LEMMA GateStarts == GateInit => GateInv
<1> SUFFICES ASSUME GateInit PROVE GateInv
  OBVIOUS
<1>1. gateRunners = <<>> /\ Len(gateRunners) = 0 /\ gateRunners \in Seq(Runner) /\ raced = {}
  BY DEF GateInit
<1>2. PICK own \in BOOLEAN, exists \in BOOLEAN :
        /\ own => exists
        /\ disk = [agent_dir |-> exists, own_files |-> own, scratch |-> {}, outside |-> {}]
  BY DEF GateInit
<1>3. DiskClean(disk, 0, raced)
  BY <1>1, <1>2 DEF DiskClean, Disk
<1>4. /\ gate.plan = 0 /\ gate.runner = 0 /\ gate.running = FALSE /\ gate.verdict = "not_run"
      /\ gate.evidence = StartError(Junk)
  BY DEF GateInit, NoResult
<1>5. gate \in GateController
  <2>1. 0 \in 0..GateGenerations /\ 0 \in 0..GateRuns
    BY GateAssumption
  <2> QED BY <2>1, StartErrorTyped DEF GateInit, GateController, NoResult
<1>6. Owned(gate, gateRunners)
  BY <1>1, <1>4 DEF Owned
<1>7. GateSound(gate, disk, raced)
  BY <1>3, <1>4, <1>5 DEF GateSound
<1> QED BY <1>1, <1>6, <1>7, GateAssumption DEF GateInv

\* The signals of the gate's processes and the timers (SandboxGate, GateSignal).
LEMMA GateSignalKeeps ==
  ASSUME GateInv, NEW i \in 1..Len(gateRunners), GateSignal(i)
  PROVE  GateInv' /\ Concluded(gate, gate')
<1> DEFINE r == gateRunners[i]
<1>1. RunnerSound(r) /\ r.queue = <<>> /\ 0 \in 0..Len(r.queue)
  BY DEF GateInv, Owned
<1> SUFFICES \E reply : Accepts(reply, r) /\ Tells(reply) /\ GateDeliver(i, reply)
  BY GateDeliverKeeps
<1>2. \A s : Tells(Silent(s))
  BY DEF Tells, Silent, Reply
<1>3. CASE GateStarted(i)
  <2>1. Accepts(Silent(ProcessStarted(r)), r)
    BY <1>1, <1>3, QuietSlotsAccepted DEF GateStarted
  <2> QED BY <1>2, <1>3, <2>1 DEF GateStarted
<1>4. CASE GateFailsToStart(i)
  <2>1. r.os # "none" /\ GateDeliver(i, ProcessFailsToStart(r, 0, Junk))
    BY <1>4 DEF GateFailsToStart
  <2>2. Accepts(ProcessFailsToStart(r, 0, Junk), r)
    <3> HIDE DEF r
    <3> QED BY <1>1, <2>1, FailsToStartAccepted
  <2>3. Tells(ProcessFailsToStart(r, 0, Junk))
    <3>1. Junk \in Payloads /\ 0 \in ExitCode
      BY GateAssumption DEF ExitCode, NoExit
    <3> HIDE DEF r
    <3> QED BY <1>1, <2>1, <3>1, EndsTell
  <2> QED BY <2>1, <2>2, <2>3
<1>5. CASE GateEnds(i)
  <2>1. PICK payload \in Payloads, exit \in {0, 1, 2} :
           \/ GateDeliver(i, ProcessExits(r, exit, payload, 0))
           \/ GateDeliver(i, ProcessCrashes(r, exit, payload, 0))
    BY <1>5 DEF GateEnds
  <2>2. r.os # "none" /\ exit \in ExitCode
    BY <1>5, <2>1 DEF GateEnds, ExitCode, NoExit
  <2>3. /\ Accepts(ProcessExits(r, exit, payload, 0), r)
        /\ Accepts(ProcessCrashes(r, exit, payload, 0), r)
        /\ Tells(ProcessExits(r, exit, payload, 0))
        /\ Tells(ProcessCrashes(r, exit, payload, 0))
    <3> HIDE DEF r
    <3> QED BY <1>1, <2>2, ExitsAccepted, CrashesAccepted, EndsTell
  <2> QED BY <2>1, <2>3
<1>6. CASE GateTimeout(i)
  <2>1. Accepts(Silent(OnTimeout(r)), r)
    BY <1>1, <1>6, QuietSlotsAccepted DEF GateTimeout
  <2> QED BY <1>2, <1>6, <2>1 DEF GateTimeout
<1> QED BY <1>3, <1>4, <1>5, <1>6 DEF GateSignal

\* Cancel removes the directories of the run, or a killed process may keep its
\* own (sandbox_gate_controller.py, cancel).
LEMMA StopGateKeeps ==
  ASSUME GateInv, gate.generation < GateGenerations, StopGate
  PROVE  GateInv'
<1>1. /\ gateRunners \in Seq(Runner) /\ Len(gateRunners) <= GateRuns
      /\ raced \subseteq 1..GateRuns /\ Owned(gate, gateRunners)
      /\ \A j \in 1..Len(gateRunners) : gateRunners[j].queue = <<>>
      /\ GateSound(gate, disk, raced)
  BY DEF GateInv
<1> DEFINE g == [gate EXCEPT !.generation = @ + 1, !.runner = 0, !.plan = 0,
                             !.running = FALSE, !.manifest = FALSE]
           new == IF gate.runner = 0 THEN gateRunners
                  ELSE [gateRunners EXCEPT ![gate.runner] = Cancel(@)]
<1>2. gate' = g /\ gateRunners' = new
  BY DEF StopGate
<1>3. /\ g \in GateController /\ g.running = FALSE /\ g.runner = 0 /\ g.plan = 0
      /\ g.verdict = gate.verdict /\ g.evidence = gate.evidence
  <2>1. gate.generation + 1 \in 0..GateGenerations /\ 0 \in 0..GateRuns
    BY <1>1, GateAssumption DEF GateSound, GateController
  <2> QED BY <1>1, <2>1 DEF GateSound, GateController
<1> HIDE DEF g
<1>4. new \in Seq(Runner) /\ Len(new) = Len(gateRunners) /\ Owned(g, new)
  BY <1>1, <1>3, OwnedAfterCancel
<1>5. \A j \in 1..Len(new) : new[j].queue = <<>>
  <2>1. CASE gate.runner = 0
    BY <1>1, <2>1
  <2>2. CASE gate.runner # 0
    <3> DEFINE k == gate.runner
               r == Cancel(gateRunners[k])
    <3>1. k \in 1..Len(gateRunners) /\ RunnerSound(gateRunners[k])
      BY <1>1, <2>2 DEF Owned
    <3>2. r.queue = <<>>
      BY <3>1, QuietSlots
    <3>3. new = [gateRunners EXCEPT ![k] = r]
      BY <2>2
    <3> HIDE DEF r, new
    <3> QED BY <1>1, <1>4, <3>1, <3>2, <3>3
  <2> QED BY <2>1, <2>2
<1> HIDE DEF new
<1>6. raced' \subseteq 1..GateRuns /\ DiskClean(disk', 0, raced')
  <2>1. CASE /\ disk' = IF gate.plan = 0 THEN disk
                        ELSE CleanupPaths(disk, gate.plan, gate.agent_dir_created)
             /\ UNCHANGED raced
    BY <1>1, <2>1, CleanupPathsClean DEF GateSound
  <2>2. CASE /\ gate.plan # 0 /\ disk' = CleanupRaced(disk, gate.plan)
             /\ raced' = raced \cup {gate.plan}
    <3>1. gate.plan \in 1..GateRuns
      BY <1>1, <2>2, GateAssumption DEF GateSound, GateController
    <3> QED BY <1>1, <2>2, <3>1, CleanupRacedClean DEF GateSound
  <2> QED BY <2>1, <2>2 DEF StopGate
<1>7. GateSound(g, disk', raced')
  BY <1>1, <1>3, <1>6 DEF GateSound
<1> QED BY <1>1, <1>2, <1>4, <1>5, <1>6, <1>7 DEF GateInv

\* The one probe of the gate: its process is alive, or it failed at once and
\* that is told (probe_runner.py, start).
LEMMA StartTells ==
  ASSUME NEW run \in Nat \ {0}, NEW failing \in {0, 1}
  PROVE  LET reply == Start(<<Confinement>>, run, failing, Junk)
         IN  /\ Begins(reply, run)
             /\ Tells(reply)
             /\ reply.results # <<>> => reply.finished
             /\ reply.runner.queue = <<>>
<1> DEFINE one == <<Confinement>>
           r == [NewRunner EXCEPT !.queue = one, !.handler = run]
           reply == Start(<<Confinement>>, run, failing, Junk)
           failed == [i \in 1..failing |-> <<r.queue[i], StartError(Junk)>>]
<1>1. one \in Seq(ProbeId) /\ Len(one) = 1 /\ failing \in 0..Len(one)
  BY GateAssumption
<1>2. Begins(reply, run)
  <2> HIDE DEF one
  <2>1. Begins(Start(one, run, failing, Junk), run)
    BY <1>1, StartContinues
  <2> QED BY <2>1 DEF one
<1>3. r \in Runner /\ r.queue = one /\ r.handler = run /\ ~r.cancelled
  <2>1. r \in Runner
    BY <1>1, NewRunnerSound
  <2> QED BY <2>1 DEF NewRunner
<1>4. reply = StartNext(r, failing, Junk)
  BY DEF Start
<1> HIDE DEF one, r, reply
<1>5. CASE failing = 0
  <2>1. failed = <<>>
    BY <1>5
  <2>2. reply = Reply(Begun(r, failing), IF r.handler = 0 THEN <<>> ELSE failed, FALSE)
    BY <1>1, <1>3, <1>4, <1>5 DEF StartNext
  <2> HIDE DEF failed
  <2>3. reply.results = <<>> /\ reply.runner = Begun(r, failing)
    BY <2>1, <2>2 DEF Reply
  <2>4. Begun(r, failing).queue = SubSeq(one, 2, Len(one))
    BY <1>3, <1>5 DEF Begun, Runner
  <2>5. SubSeq(one, 2, Len(one)) = <<>>
    BY <1>1
  <2> QED BY <1>2, <2>3, <2>4, <2>5 DEF Tells, reply
<1>6. CASE failing = 1
  <2>1. failed[1] = <<r.queue[1], StartError(Junk)>>
    BY <1>6
  <2>2. reply = Reply(Exhausted(r, failing), IF r.handler = 0 THEN <<>> ELSE failed, r.handler # 0)
    BY <1>1, <1>3, <1>4, <1>6 DEF StartNext
  <2> HIDE DEF failed
  <2>3. reply.results = failed /\ reply.runner = Exhausted(r, failing) /\ reply.finished
    BY <1>3, <2>2 DEF Reply
  <2>4. reply.results[1][2] = StartError(Junk)
    BY <2>1, <2>3
  <2>5. Exhausted(r, failing).queue = <<>>
    BY <1>3 DEF Exhausted, Disposed, Runner
  <2> QED BY <1>2, <2>3, <2>4, <2>5, StartErrorTyped DEF Tells, reply
<1> QED BY <1>5, <1>6

\* A run holds a plan, its directories and a new runner until its process ends
\* (sandbox_gate_controller.py, run).
LEMMA RunGateKeeps ==
  ASSUME GateInv, RunGate
  PROVE  GateInv' /\ gate'.generation < GateGenerations
<1>1. /\ gateRunners \in Seq(Runner) /\ Len(gateRunners) <= GateRuns /\ Len(gateRunners) \in Nat
      /\ raced \subseteq 1..GateRuns /\ Owned(gate, gateRunners)
      /\ \A j \in 1..Len(gateRunners) : gateRunners[j].queue = <<>>
      /\ GateSound(gate, disk, raced)
  BY DEF GateInv
<1>2. ~gate.running /\ gate.generation + 2 < GateGenerations /\ Len(gateRunners) < GateRuns
  BY DEF RunGate, CanRunGate
<1> DEFINE n == Len(gateRunners) + 1
           run == gate.generation + 1
           made == ~disk.agent_dir
           begun == [gate EXCEPT !.generation = run, !.manifest = FALSE, !.verdict = "pending",
                                 !.plan = n, !.runner = n, !.running = TRUE,
                                 !.agent_dir_created = made]
           kept == Prepared(disk, n)
<1>3. PICK failing \in {0, 1} :
        LET reply == Start(<<Confinement>>, run, failing, Junk)
            told  == Answered(begun, kept, run, reply)
        IN /\ gateRunners' = Append(gateRunners, reply.runner)
           /\ gate' = told.gate
           /\ disk' = told.disk
           /\ UNCHANGED raced
  BY DEF RunGate
<1>4. /\ run \in 0..GateGenerations /\ run \in Nat \ {0} /\ run + 1 < GateGenerations
      /\ n \in 1..GateRuns /\ n \in 0..GateRuns /\ n # 0 /\ made \in BOOLEAN
      /\ gate.plan = 0
  BY <1>1, <1>2, GateAssumption DEF GateSound, GateController
<1> HIDE DEF n, run, made
<1>5. /\ begun \in GateController /\ begun.generation = run /\ begun.running = TRUE
      /\ begun.runner = n /\ begun.plan = n /\ begun.verdict = "pending"
  BY <1>1, <1>4 DEF GateSound, GateController
<1>6. DiskClean(kept, n, raced)
  BY <1>1, <1>4, PreparedClean DEF GateSound
<1> HIDE DEF begun, kept
<1>7. GateSound(begun, kept, raced)
  BY <1>4, <1>5, <1>6 DEF GateSound
<1> DEFINE reply == Start(<<Confinement>>, run, failing, Junk)
           told == Answered(begun, kept, run, reply)
           new == Append(gateRunners, reply.runner)
<1>8. Begins(reply, run) /\ Tells(reply) /\ (reply.results # <<>> => reply.finished)
      /\ reply.runner.queue = <<>>
  BY <1>4, StartTells
<1>9. gateRunners' = new /\ gate' = told.gate /\ disk' = told.disk /\ raced' = raced
  BY <1>3
<1> HIDE DEF reply
<1>10. /\ GateSound(told.gate, told.disk, raced)
       /\ Concluded(begun, told.gate)
       /\ reply.results = <<>> /\ ~reply.finished => told.gate = begun
       /\ reply.finished => ~told.gate.running /\ told.gate.runner = 0
  BY <1>4, <1>5, <1>7, <1>8, AnsweredSound
<1> DEFINE d == told.gate
<1>11. GateSound(d, told.disk, raced) /\ d.generation < GateGenerations
  BY <1>4, <1>5, <1>10, GateAssumption DEF Concluded
<1> HIDE DEF d
<1>12. /\ reply.runner.process => d.running /\ d.runner = Len(gateRunners) + 1
                                  /\ reply.runner.handler = d.generation
       /\ ~reply.runner.process => ~d.running /\ d.runner = 0
  BY <1>5, <1>8, <1>10 DEF Begins, n, d
<1>13. new \in Seq(Runner) /\ Len(new) = Len(gateRunners) + 1 /\ Owned(d, new)
  BY <1>1, <1>2, <1>8, <1>12, OwnedAfterStart DEF Begins
<1>14. \A j \in 1..Len(new) : new[j].queue = <<>>
  <2>1. reply.runner \in Runner
    BY <1>8 DEF Begins, RunnerSound
  <2>2. ASSUME NEW j \in 1..Len(new)
        PROVE  new[j] = IF j \in 1..Len(gateRunners) THEN gateRunners[j] ELSE reply.runner
    BY <1>1, <2>1
  <2> HIDE DEF new
  <2> QED BY <1>1, <1>8, <2>2
<1> HIDE DEF new
<1>15. Len(new) <= GateRuns
  BY <1>1, <1>2, <1>13, GateAssumption
<1> QED BY <1>1, <1>9, <1>11, <1>13, <1>14, <1>15 DEF GateInv, d

\* A prepare() or a start that raises leaves no plan and no directory
\* (sandbox_gate_controller.py, run).
LEMMA RunGateRaisesKeeps ==
  ASSUME GateInv, RunGateRaises
  PROVE  GateInv' /\ gate'.generation < GateGenerations
<1>1. /\ gateRunners \in Seq(Runner) /\ Len(gateRunners) <= GateRuns /\ Len(gateRunners) \in Nat
      /\ raced \subseteq 1..GateRuns /\ Owned(gate, gateRunners)
      /\ \A j \in 1..Len(gateRunners) : gateRunners[j].queue = <<>>
      /\ GateSound(gate, disk, raced)
  BY DEF GateInv
<1>2. ~gate.running /\ gate.generation + 2 < GateGenerations /\ Len(gateRunners) < GateRuns
  BY DEF RunGateRaises, CanRunGate
<1> DEFINE n == Len(gateRunners) + 1
           g == [gate EXCEPT !.generation = @ + 1, !.manifest = FALSE, !.plan = 0,
                             !.runner = 0, !.verdict = "start_failed"]
<1>3. /\ \/ disk' \in PrepareFailed(disk, n) /\ gateRunners' = gateRunners
         \/ /\ disk' = CleanupPaths(Prepared(disk, n), n, ~disk.agent_dir)
            /\ gateRunners' = Append(gateRunners, NewRunner)
      /\ gate' = g /\ raced' = raced
  BY DEF RunGateRaises
<1>4. /\ gate.generation + 1 \in 0..GateGenerations /\ 0 \in 0..GateRuns
      /\ gate.generation + 1 < GateGenerations
      /\ n \in 1..GateRuns /\ gate.plan = 0
  BY <1>1, <1>2, GateAssumption DEF GateSound, GateController
<1>5. /\ g \in GateController /\ g.running = FALSE /\ g.runner = 0 /\ g.plan = 0
      /\ g.verdict = "start_failed" /\ g.generation = gate.generation + 1
  BY <1>1, <1>2, <1>4 DEF GateSound, GateController
<1> HIDE DEF g
<1>6. DiskClean(disk, 0, raced)
  BY <1>1, <1>4 DEF GateSound
<1>7. DiskClean(disk', 0, raced)
  <2>1. CASE disk' \in PrepareFailed(disk, n)
    BY <1>4, <1>6, <2>1, PrepareFailedClean
  <2>2. CASE disk' = CleanupPaths(Prepared(disk, n), n, ~disk.agent_dir)
    <3>1. DiskClean(Prepared(disk, n), n, raced)
      BY <1>4, <1>6, PreparedClean
    <3> QED BY <2>2, <3>1, CleanupPathsClean
  <2> QED BY <1>3, <2>1, <2>2
<1>8. GateSound(g, disk', raced)
  BY <1>5, <1>7 DEF GateSound
<1>9. CASE gateRunners' = gateRunners
  <2>1. Owned(g, gateRunners)
    BY <1>1, <1>2, <1>5 DEF Owned
  <2> QED BY <1>1, <1>3, <1>4, <1>5, <1>8, <1>9, <2>1 DEF GateInv
<1>10. CASE gateRunners' = Append(gateRunners, NewRunner)
  <2>1. RunnerSound(NewRunner) /\ ~NewRunner.process /\ NewRunner.queue = <<>>
        /\ NewRunner \in Runner
    <3>1. <<>> \in Seq(ProbeId)
      OBVIOUS
    <3>2. NewRunner.queue = <<>>
      BY DEF NewRunner
    <3> QED BY <3>1, <3>2, NewRunnerSound DEF RunnerSound
  <2> DEFINE new == Append(gateRunners, NewRunner)
  <2>2. new \in Seq(Runner) /\ Len(new) = Len(gateRunners) + 1 /\ Owned(g, new)
    BY <1>1, <1>2, <1>5, <2>1, OwnedAfterStart
  <2>3. \A j \in 1..Len(new) : new[j].queue = <<>>
    <3>1. ASSUME NEW j \in 1..Len(new)
          PROVE  new[j] = IF j \in 1..Len(gateRunners) THEN gateRunners[j] ELSE NewRunner
      BY <1>1, <2>1
    <3> HIDE DEF new
    <3> QED BY <1>1, <2>1, <3>1
  <2> HIDE DEF new
  <2>4. Len(new) <= GateRuns
    BY <1>1, <1>2, <2>2, GateAssumption
  <2> QED BY <1>1, <1>3, <1>4, <1>5, <1>8, <1>10, <2>2, <2>3, <2>4 DEF GateInv, new
<1> QED BY <1>3, <1>9, <1>10

\* The files of Pi only make the agent directory one that stays (external).
LEMMA PiWritesFilesKeeps ==
  ASSUME GateInv, PiWritesFiles
  PROVE  GateInv' /\ gate' = gate
<1> DEFINE d == [disk EXCEPT !.agent_dir = TRUE, !.own_files = TRUE]
<1>1. disk' = d /\ gateRunners' = gateRunners /\ gate' = gate /\ raced' = raced
  BY DEF PiWritesFiles
<1>2. DiskClean(disk, gate.plan, raced)
  BY DEF GateInv, GateSound
<1>3. DiskClean(d, gate.plan, raced)
  BY <1>2 DEF DiskClean, Disk
<1> HIDE DEF d
<1>4. GateSound(gate, d, raced)
  BY <1>3 DEF GateInv, GateSound
<1> QED BY <1>1, <1>4 DEF GateInv

\* The user's part of the gate (SandboxGate, GateUser).
LEMMA GateUserKeeps ==
  ASSUME GateInv, GateUser
  PROVE  GateInv' /\ gate'.generation < GateGenerations
<1>1. CASE RunGate
  BY <1>1, RunGateKeeps
<1>2. CASE RunGateRaises
  BY <1>2, RunGateRaisesKeeps
<1>3. CASE CancelGate
  <2>1. gate \in GateController
    BY DEF GateInv, GateSound
  <2>2. gate.generation \in Nat
    BY <2>1 DEF GateController
  <2>3. StopGate /\ gate.generation + 1 < GateGenerations
    BY <1>3 DEF CancelGate
  <2>4. gate.generation < GateGenerations
    BY <2>2, <2>3, GateAssumption
  <2>5. GateInv'
    BY <2>3, <2>4, StopGateKeeps
  <2>6. gate'.generation = gate.generation + 1
    BY <2>1, <2>3 DEF StopGate, GateController
  <2> QED BY <2>3, <2>5, <2>6
<1> QED BY <1>1, <1>2, <1>3 DEF GateUser
=============================================================================
