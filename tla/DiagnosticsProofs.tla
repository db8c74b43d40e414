------------------------- MODULE DiagnosticsProofs -------------------------
(***************************************************************************)
(* What holds of preflight and of the sandbox gate in every reachable      *)
(* state, for every set of hosts, of expected checks and of outputs of the *)
(* probes and for every bound.  The invariant is the agreement of each     *)
(* controller with its runners (Owned, GateSound); the window can only be  *)
(* closed once, so that the cancel of lastWindowClosed never meets the     *)
(* bound of a counter.                                                     *)
(***************************************************************************)
EXTENDS Diagnostics, DiagnosticsControllersProofs

\* Room for the generation that CloseWindow takes.
HasRoom ==
    /\ closed \in BOOLEAN
    /\ ~closed => /\ preflight.generation < Generations
                  /\ gate.generation < GateGenerations

IInv == PreflightInv /\ GateInv /\ HasRoom

-----------------------------------------------------------------------------
\* The inductive invariant holds when main.py has made the controllers.
LEMMA Starts == Init => IInv
<1> SUFFICES ASSUME Init PROVE IInv
  OBVIOUS
<1>1. PreflightInv /\ GateInv
  BY PreflightStarts, GateStarts DEF Init
<1>2. preflight.generation = 0 /\ gate.generation = 0 /\ closed = FALSE
  BY DEF Init, PreflightInit, GateInit
<1>3. HasRoom
  <2>1. 0 < Generations /\ 0 < GateGenerations
    BY PreflightAssumption, GateAssumption
  <2> QED BY <1>2, <2>1, Zenon DEF HasRoom
<1> QED BY <1>1, <1>3 DEF IInv

\* What preflight and the gate keep to themselves.
LEMMA PreflightUntouched ==
  ASSUME PreflightInv, UNCHANGED preflightVars
  PROVE  PreflightInv'
BY DEF PreflightInv, PreflightTypeOK, Owned, RunnerSound, preflightVars

LEMMA GateUntouched ==
  ASSUME GateInv, UNCHANGED gateVars
  PROVE  GateInv'
BY DEF GateInv, gateVars

\* A step of preflight (preflight_controller.py).
LEMMA PreflightStepKeeps ==
  ASSUME IInv, PreflightStep
  PROVE  IInv'
<1>1. GateInv' /\ gate' = gate /\ closed' = closed
  BY GateUntouched DEF IInv, PreflightStep, gateVars
<1>2. CASE ~closed /\ PreflightUser
  BY <1>1, <1>2, PreflightUserKeeps DEF IInv, HasRoom
<1>3. CASE \E i \in 1..Len(runners) : PreflightSignal(i)
  BY <1>1, <1>3, PreflightSignalKeeps DEF IInv, HasRoom
<1> QED BY <1>2, <1>3 DEF PreflightStep

\* A step of the gate (sandbox_gate_controller.py).
LEMMA GateStepKeeps ==
  ASSUME IInv, GateStep
  PROVE  IInv'
<1>1. PreflightInv' /\ preflight' = preflight /\ closed' = closed
  BY PreflightUntouched DEF IInv, GateStep, preflightVars
<1>2. CASE ~closed /\ GateUser
  BY <1>1, <1>2, GateUserKeeps DEF IInv, HasRoom
<1>3. CASE ~closed /\ PiWritesFiles
  BY <1>1, <1>3, PiWritesFilesKeeps DEF IInv, HasRoom
<1>4. CASE \E i \in 1..Len(gateRunners) : GateSignal(i)
  BY <1>1, <1>4, GateSignalKeeps DEF IInv, HasRoom, Concluded
<1> QED BY <1>2, <1>3, <1>4 DEF GateStep

\* The end of the application (main.py, lastWindowClosed).
LEMMA CloseWindowKeeps ==
  ASSUME IInv, CloseWindow
  PROVE  IInv'
<1>1. /\ ~closed /\ closed' = TRUE
      /\ preflight.generation < Generations /\ gate.generation < GateGenerations
  BY DEF IInv, HasRoom, CloseWindow
<1>2. PreflightInv'
  BY <1>1, StopPreflightKeeps DEF IInv, CloseWindow
<1>3. GateInv'
  BY <1>1, StopGateKeeps DEF IInv, CloseWindow
<1> QED BY <1>1, <1>2, <1>3 DEF IInv, HasRoom

\* Nothing changes once both are quiet.
LEMMA UntouchedKeeps ==
  ASSUME IInv, UNCHANGED vars
  PROVE  IInv'
<1>1. UNCHANGED preflightVars /\ UNCHANGED gateVars /\ closed' = closed
  BY DEF vars, preflightVars, gateVars
<1> QED BY <1>1, PreflightUntouched, GateUntouched DEF IInv, HasRoom, preflightVars, gateVars

\* The controllers agree with their runners, and the gate with its directories
\* and its verdict, in every reachable state.
THEOREM Invariance == Spec => []IInv
<1>1. Init => IInv
  BY Starts
<1>2. IInv /\ [Next]_vars => IInv'
  <2> SUFFICES ASSUME IInv, [Next]_vars
               PROVE  IInv'
    OBVIOUS
  <2>1. CASE PreflightStep
    BY <2>1, PreflightStepKeeps
  <2>2. CASE GateStep
    BY <2>2, GateStepKeeps
  <2>3. CASE CloseWindow
    BY <2>3, CloseWindowKeeps
  <2>4. CASE Quiet \/ UNCHANGED vars
    BY <2>4, UntouchedKeeps DEF Quiet
  <2> QED BY <2>1, <2>2, <2>3, <2>4 DEF Next
<1> QED
  BY <1>1, <1>2, PTL DEF Spec

-----------------------------------------------------------------------------
\* Every reachable state has its type: neither controller, no runner and no
\* directory leaves its domain.
THEOREM TypeCorrect == Spec => []TypeOK
<1>1. IInv => TypeOK
  BY DEF IInv, PreflightInv, GateInv, GateSound, DiskClean, HasRoom, TypeOK, GateTypeOK
<1> QED BY <1>1, Invariance, PTL

\* A run that PreflightController or SandboxGateController shows as running has
\* a live process that will be reported to it.
THEOREM RunsDriven == Spec => []RunsAreDriven
<1>1. ASSUME NEW c, NEW rs, Owned(c, rs)
      PROVE  Driven(c, rs)
  BY <1>1 DEF Owned, RunnerSound, Driven
<1>2. IInv => RunsAreDriven
  BY <1>1 DEF IInv, PreflightInv, GateInv, RunsAreDriven
<1> QED BY <1>2, Invariance, PTL

\* QtProbeRunner loses no process: what is alive is its run's or was killed.
THEOREM NoOrphans == Spec => []NoOrphanProbe
<1>1. ASSUME NEW c, NEW rs, Owned(c, rs)
      PROVE  Accounted(c, rs)
  BY <1>1 DEF Owned, RunnerSound, Accounted
<1>2. IInv => NoOrphanProbe
  BY <1>1 DEF IInv, PreflightInv, GateInv, NoOrphanProbe
<1> QED BY <1>2, Invariance, PTL

\* QtProbeRunner's timer never strikes the probe after the one it was armed for.
THEOREM TimerOfLive == Spec => []TimerOfLiveProbe
<1>1. ASSUME NEW c, NEW rs, Owned(c, rs), c.running, rs[c.runner].timer
      PROVE  rs[c.runner].os = "running"
  BY <1>1 DEF Owned, RunnerSound
<1>2. IInv => TimerOfLiveProbe
  BY <1>1 DEF IInv, PreflightInv, GateInv, TimerOfLiveProbe
<1> QED BY <1>2, Invariance, PTL

\* The directories of the gate do not outlive its run, except the one that a
\* killed process wrote in while it was removed (core/sandbox_gate.py, cleanup).
THEOREM CleansUp == Spec => []GateCleansUp
<1>1. IInv => GateCleansUp
  BY DEF IInv, GateInv, GateSound, DiskClean, GateCleansUp
<1> QED BY <1>1, Invariance, PTL

\* The gate passes on complete evidence only (core/sandbox_gate.py, parse_result).
THEOREM VerdictProved == Spec => []VerdictIsProved
<1>1. IInv => VerdictIsProved
  BY DEF IInv, GateInv, GateSound, Proves, VerdictIsProved
<1> QED BY <1>1, Invariance, PTL

-----------------------------------------------------------------------------
(* The gate implements the contract of a diagnostic run.                    *)

\* What a step may do to the gate: nothing, or start a run when none is in
\* progress, or conclude the one that is, or stop it (sandbox_gate_controller.py).
StepOfGate ==
    \/ ~gate.running
    \/ Concluded(gate, gate')
    \/ ~gate'.running /\ gate'.verdict = gate.verdict

\* Every action of Diagnostics is one of the four for the gate.
LEMMA GateSteps ==
  ASSUME IInv, [Next]_vars
  PROVE  StepOfGate
<1>1. CASE gate' = gate
  BY <1>1 DEF StepOfGate, Concluded
<1>2. CASE RunGate \/ RunGateRaises
  BY <1>2 DEF RunGate, RunGateRaises, CanRunGate, StepOfGate
<1>3. CASE StopGate
  <2>1. gate \in GateController
    BY DEF IInv, GateInv, GateSound
  <2>2. gate'.running = FALSE /\ gate'.verdict = gate.verdict
    BY <1>3, <2>1 DEF StopGate, GateController
  <2> QED BY <2>2 DEF StepOfGate
<1>4. CASE \E i \in 1..Len(gateRunners) : GateSignal(i)
  BY <1>4, GateSignalKeeps DEF IInv, StepOfGate
<1>5. CASE PreflightStep \/ Quiet \/ UNCHANGED vars
  BY <1>1, <1>5 DEF PreflightStep, Quiet, vars, gateVars
<1>6. CASE GateStep
  BY <1>1, <1>2, <1>3, <1>4, <1>6, PiWritesFilesKeeps
  DEF GateStep, GateUser, CancelGate, IInv
<1> QED BY <1>3, <1>5, <1>6 DEF Next, CloseWindow

\* A step of the gate is a step of the contract, or changes nothing it shows.
LEMMA GateRefines ==
  ASSUME GateInv, GateInv', StepOfGate
  PROVE  [GatePromise!Begin \/ GatePromise!AnswerRows \/ GatePromise!Abandon]_(GatePromise!contractVars)
<1> DEFINE verdicts == {"not_run", "pending", "passed", "failed", "start_failed"}
<1>1. /\ gate.running \in BOOLEAN /\ gate'.running \in BOOLEAN
      /\ gate.verdict \in verdicts /\ gate'.verdict \in verdicts
      /\ gate.running => gate.verdict = "pending"
  BY DEF GateInv, GateSound, GateController
<1>2. CASE ~gate.running
  <2>1. GatePromise!Begin
    BY <1>1, <1>2 DEF GatePromise!Begin, GatePromise!Ended
  <2> QED BY <2>1
<1>3. CASE gate' = gate
  BY <1>3 DEF GatePromise!contractVars
<1>4. CASE gate.running /\ ~gate'.running /\ gate'.verdict \in {"passed", "failed"}
  <2> DEFINE all == {Confinement}
             shown == [row \in all |-> gate'.verdict]
  <2>a. all \in (SUBSET all) \ {{}} /\ {} = all \ all
    OBVIOUS
  <2>b. /\ shown \in [all -> verdicts]
        /\ \A row \in all : shown[row] # "pending"
        /\ \A row \in all \ all : shown[row] = [r \in all |-> gate.verdict][row]
    BY <1>4
  <2>c. \E answered \in (SUBSET all) \ {{}} :
          /\ {} = all \ answered
          /\ shown \in [all -> verdicts]
          /\ \A row \in answered : shown[row] # "pending"
          /\ \A row \in all \ answered : shown[row] = [r \in all |-> gate.verdict][row]
    BY <2>a, <2>b
  <2>1. GatePromise!AnswerRows
    BY <1>1, <1>4, <2>c DEF GatePromise!AnswerRows, GatePromise!Ended
  <2> QED BY <2>1
<1>5. CASE gate.running /\ ~gate'.running /\ gate'.verdict = gate.verdict
  <2>1. GatePromise!Abandon
    BY <1>1, <1>5 DEF GatePromise!Abandon
  <2> QED BY <2>1
<1> QED BY <1>2, <1>3, <1>4, <1>5 DEF StepOfGate, Concluded

\* SandboxGateController keeps the contract: a run is answered once, by its own
\* process or by the lack of one, and its verdict stands until the next run.
THEOREM GateImplements == Spec => GateKeepsContract
<1>1. Init => GatePromise!Init
  <2> SUFFICES ASSUME Init PROVE GatePromise!Init
    OBVIOUS
  <2>1. gate.running = FALSE /\ gate.verdict = "not_run"
    BY DEF Init, GateInit
  <2> QED BY <2>1 DEF GatePromise!Init
<1>2. IInv /\ IInv' /\ [Next]_vars
        => [GatePromise!Begin \/ GatePromise!AnswerRows \/ GatePromise!Abandon]_(GatePromise!contractVars)
  <2> SUFFICES ASSUME IInv, IInv', [Next]_vars
               PROVE  [GatePromise!Begin \/ GatePromise!AnswerRows \/ GatePromise!Abandon]_(GatePromise!contractVars)
    OBVIOUS
  <2> QED BY GateSteps, GateRefines DEF IInv
<1> QED
  BY <1>1, <1>2, Invariance, PTL DEF Spec, GateKeepsContract, GatePromise!Spec
-----------------------------------------------------------------------------
(* Preflight implements the contract of a diagnostic run.                   *)

\* What a step may do to preflight: nothing that shows, or start a run when
\* none is in progress, or answer rows of the one that is, or stop it
\* (preflight_controller.py).
StepOfPreflight ==
    \/ ~preflight.running
    \/ ShowsTheSame(preflight, preflight')
    \/ AnswersSome(preflight, preflight')
    \/ ~preflight'.running /\ preflight'.status = "cancelled" /\ preflight'.checks = preflight.checks

\* Every action of Diagnostics is one of the four for preflight, and leaves its
\* rows and its runner in agreement.
LEMMA PreflightSteps ==
  ASSUME IInv, Waits, [Next]_vars
  PROVE  StepOfPreflight /\ Waits'
<1>1. CASE UNCHANGED preflightVars
  BY <1>1 DEF StepOfPreflight, ShowsTheSame, Waits, OpenRows, preflightVars
<1>2. CASE Run
  <2>1. Waits'
    BY <1>2, RunWaits DEF IInv
  <2> QED BY <1>2, <2>1 DEF Run, StepOfPreflight
<1>3. preflight \in Controller
  BY DEF IInv, PreflightInv, PreflightTypeOK
<1>4. CASE RunRaises
  <2>1. \E checks, required, generation :
          preflight' = [preflight EXCEPT !.generation = generation, !.checks = checks,
                                         !.required = required, !.manifest = FALSE,
                                         !.runner = 0, !.status = "start_failed"]
    BY <1>4 DEF RunRaises
  <2>2. ~preflight.running /\ ~preflight'.running
    BY <1>3, <1>4, <2>1 DEF RunRaises, Controller
  <2> QED BY <2>2 DEF StepOfPreflight, Waits
<1>5. CASE StopPreflight
  <2>1. /\ preflight'.running = FALSE /\ preflight'.status = "cancelled"
        /\ preflight'.checks = preflight.checks
    BY <1>3, <1>5 DEF StopPreflight, Controller
  <2> QED BY <2>1 DEF StepOfPreflight, Waits
<1>6. CASE \E i \in 1..Len(runners) : PreflightSignal(i)
  BY <1>6, PreflightSignalAnswers DEF IInv, StepOfPreflight
<1>7. CASE PreflightStep
  BY <1>2, <1>4, <1>5, <1>6, <1>7 DEF PreflightStep, PreflightUser, CancelPreflight
<1> QED BY <1>1, <1>5, <1>7 DEF Next, GateStep, CloseWindow, Quiet, vars, preflightVars

\* A row of preflight is open exactly while its runner awaits it, in every
\* reachable state (preflight_controller.py, _on_probe_result).
THEOREM RowsAwaited == Spec => []Waits
<1>1. Init => Waits
  BY DEF Init, PreflightInit, Waits
<1>2. IInv /\ Waits /\ [Next]_vars => Waits'
  BY PreflightSteps
<1> QED
  BY <1>1, <1>2, Invariance, PTL DEF Spec

\* What the contract sees of preflight: typed rows, of which some are open
\* exactly while a run is in progress.
ViewSound ==
    /\ PreflightRows \in [CheckId -> Status]
    /\ PreflightOpen \in SUBSET CheckId
    /\ preflight.running => PreflightOpen = OpenRows(preflight) /\ PreflightOpen # {}
    /\ ~preflight.running => PreflightOpen = {}

\* See ViewSound: a run in progress has a runner that awaits a row.
LEMMA PreflightView ==
  ASSUME PreflightInv, Waits
  PROVE  ViewSound
<1>1. preflight.checks \in Rows /\ "PENDING" \in Status
  BY DEF PreflightInv, PreflightTypeOK, Controller, Rows, Status
<1>2. PreflightRows \in [CheckId -> Status]
  BY <1>1 DEF PreflightRows, Rows
<1>3. ASSUME preflight.running
      PROVE  PreflightOpen = OpenRows(preflight) /\ PreflightOpen # {}
  <2>1. PreflightOpen = OpenRows(preflight)
    BY <1>3 DEF Waits, PreflightOpen, OpenRows, CheckId
  <2>2. runners[preflight.runner].process
    BY <1>3 DEF PreflightInv, Owned
  <2>3. OpenRows(preflight) # {}
    BY <1>3, <2>2 DEF Waits, Awaited
  <2> QED BY <2>1, <2>3
<1>4. PreflightOpen \in SUBSET CheckId
  BY DEF PreflightOpen, CheckId
<1>5. ~preflight.running => PreflightOpen = {}
  BY DEF PreflightOpen
<1> QED BY <1>2, <1>3, <1>4, <1>5 DEF ViewSound

\* A step of preflight is a step of the contract, or changes nothing it shows.
LEMMA PreflightRefines ==
  ASSUME Waits, ViewSound, ViewSound', StepOfPreflight
  PROVE  [PreflightPromise!Begin \/ PreflightPromise!AnswerRows
            \/ PreflightPromise!Abandon]_(PreflightPromise!contractVars)
<1>1. /\ PreflightRows \in [CheckId -> Status]
      /\ preflight.running => PreflightOpen = OpenRows(preflight) /\ PreflightOpen # {}
      /\ ~preflight.running => PreflightOpen = {}
  BY DEF ViewSound
<1>2. /\ PreflightRows' \in [CheckId -> Status]
      /\ PreflightOpen' \in SUBSET CheckId
      /\ preflight'.running => PreflightOpen' = OpenRows(preflight') /\ PreflightOpen' # {}
      /\ ~preflight'.running => PreflightOpen' = {}
  BY DEF ViewSound
<1>3. CASE ~preflight.running
  <2>1. PreflightPromise!Begin
    BY <1>2, <1>3 DEF PreflightPromise!Begin, PreflightPromise!Ended
  <2> QED BY <2>1
<1>4. CASE ShowsTheSame(preflight, preflight')
  BY <1>4 DEF ShowsTheSame, PreflightPromise!contractVars, PreflightOpen, PreflightRows
<1>5. CASE preflight.running /\ AnswersSome(preflight, preflight')
  <2>1. PICK told \in SUBSET OpenRows(preflight) :
          /\ \A id \in told : preflight'.checks[id] # "PENDING"
          /\ \A id \in CheckId \ told : preflight'.checks[id] = preflight.checks[id]
          /\ OpenRows(preflight') = OpenRows(preflight) \ told
          /\ IF told = OpenRows(preflight)
             THEN ~preflight'.running /\ preflight'.status \notin {"cancelled", "start_failed"}
             ELSE preflight'.running /\ preflight'.status = preflight.status
    BY <1>5 DEF AnswersSome
  <2>2. /\ DOMAIN preflight.checks = CheckId /\ DOMAIN preflight'.checks = CheckId
        /\ OpenRows(preflight) \subseteq CheckId
    BY <1>5 DEF AnswersSome, Waits, OpenRows, CheckId
  <2>3. /\ \A id \in told : PreflightRows'[id] # "PENDING"
        /\ \A id \in CheckId \ told : PreflightRows'[id] = PreflightRows[id]
    BY <2>1, <2>2 DEF PreflightRows
  <2>4. PreflightOpen' = PreflightOpen \ told
    <3>1. CASE preflight'.running
      BY <1>1, <1>2, <1>5, <2>1, <3>1
    <3>2. CASE ~preflight'.running
      BY <1>1, <1>2, <1>5, <2>1, <3>2
    <3> QED BY <3>1, <3>2
  <2>5. CASE told = {}
    <3>1. preflight'.running /\ PreflightOpen' = PreflightOpen
      BY <1>1, <1>5, <2>1, <2>4, <2>5
    <3>2. PreflightRows' = PreflightRows
      BY <1>1, <1>2, <2>3, <2>5
    <3> QED BY <1>5, <3>1, <3>2 DEF PreflightPromise!contractVars
  <2>6. CASE told # {}
    <3>1. told \in (SUBSET PreflightOpen) \ {{}}
      BY <1>1, <1>5, <2>1, <2>6
    <3>2. IF PreflightOpen' = {}
          THEN ~preflight'.running /\ preflight'.status \notin {"cancelled", "start_failed"}
          ELSE preflight'.running
      BY <1>1, <1>2, <1>5, <2>1
    <3>3. PreflightPromise!AnswerRows
      BY <1>2, <1>5, <2>3, <2>4, <3>1, <3>2
      DEF PreflightPromise!AnswerRows, PreflightPromise!Ended
    <3> QED BY <3>3
  <2> QED BY <2>5, <2>6
<1>6. CASE /\ ~preflight'.running /\ preflight'.status = "cancelled"
           /\ preflight'.checks = preflight.checks
  <2>1. PreflightPromise!Abandon
    BY <1>2, <1>6 DEF PreflightPromise!Abandon, PreflightRows
  <2> QED BY <2>1
<1> QED BY <1>3, <1>4, <1>5, <1>6 DEF StepOfPreflight

\* PreflightController keeps the contract: each open row of a run is answered
\* once, the run is over with the last one and not before, and no row changes
\* after it, whatever its runner, and the runners of earlier runs, still report.
THEOREM PreflightImplements == Spec => PreflightKeepsContract
<1>1. Init => PreflightPromise!Init
  <2> SUFFICES ASSUME Init PROVE PreflightPromise!Init
    OBVIOUS
  <2>1. PreflightInv /\ Waits
    BY PreflightStarts DEF Init, PreflightInit, Waits
  <2>2. PreflightRows \in [CheckId -> Status]
    BY <2>1, PreflightView DEF ViewSound
  <2>3. preflight.running = FALSE /\ preflight.status = "not_run"
    BY DEF Init, PreflightInit
  <2> QED BY <2>2, <2>3 DEF PreflightPromise!Init, PreflightOpen
<1>a. IInv /\ Waits => ViewSound
  BY PreflightView DEF IInv
<1>2. IInv /\ Waits /\ ViewSound /\ ViewSound' /\ [Next]_vars
        => [PreflightPromise!Begin \/ PreflightPromise!AnswerRows
              \/ PreflightPromise!Abandon]_(PreflightPromise!contractVars)
  <2> SUFFICES ASSUME IInv, Waits, ViewSound, ViewSound', [Next]_vars
               PROVE  [PreflightPromise!Begin \/ PreflightPromise!AnswerRows
                         \/ PreflightPromise!Abandon]_(PreflightPromise!contractVars)
    OBVIOUS
  <2> QED BY PreflightSteps, PreflightRefines
<1> QED
  BY <1>1, <1>a, <1>2, Invariance, RowsAwaited, PTL DEF Spec, PreflightKeepsContract, PreflightPromise!Spec
=============================================================================
