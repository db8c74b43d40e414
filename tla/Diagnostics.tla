---------------------------- MODULE Diagnostics ----------------------------
(***************************************************************************)
(* Preflight and sandbox gate side by side, as main.py wires them, with    *)
(* the end of the application: lastWindowClosed cancels both.              *)
(***************************************************************************)
EXTENDS Preflight, SandboxGate

(* Bound: whether one behaviour uses both.  They share no state, only the   *)
(* end of the application, so that interleaving them multiplies the states  *)
(* and shows nothing new.                                                   *)
CONSTANT Overlap

ASSUME OverlapAssumption == Overlap \in BOOLEAN

VARIABLE closed

vars == <<runners, preflight, gateRunners, gate, disk, raced, closed>>

Init == PreflightInit /\ GateInit /\ closed = FALSE

PreflightStep ==
    /\ \/ ~closed /\ (Overlap \/ gate.generation = 0) /\ PreflightUser
       \/ \E i \in 1..Len(runners) : PreflightSignal(i)
    /\ UNCHANGED <<gateVars, closed>>

GateStep ==
    /\ \/ ~closed /\ (Overlap \/ preflight.generation = 0) /\ (GateUser \/ PiWritesFiles)
       \/ \E i \in 1..Len(gateRunners) : GateSignal(i)
    /\ UNCHANGED <<preflightVars, closed>>

(* sandbox_gate_controller.cancel, then preflight_controller.cancel.        *)
CloseWindow ==
    /\ ~closed
    /\ closed' = TRUE
    /\ StopGate
    /\ StopPreflight

(* The event loop ends once nothing is left to signal.                      *)
Quiet ==
    /\ closed
    /\ \A i \in 1..Len(runners) : runners[i].os = "none" /\ ~runners[i].timer
    /\ \A i \in 1..Len(gateRunners) : gateRunners[i].os = "none" /\ ~gateRunners[i].timer
    /\ UNCHANGED vars

Next == PreflightStep \/ GateStep \/ CloseWindow \/ Quiet

Spec == Init /\ [][Next]_vars

(* The operating system reports the outcome of a spawn and the end of a     *)
(* killed process; an armed timer fires.                                    *)
PreflightFair(i) ==
    LET Signal(A) == i <= Len(runners) /\ A /\ UNCHANGED <<gateVars, closed>>
    IN /\ WF_vars(Signal(ProbeStarted(i) \/ ProbeFailsToStart(i)))
       /\ WF_vars(Signal(ProbeTimeout(i)))
       /\ WF_vars(Signal(runners[i].killed /\ ProbeEnds(i)))

GateFair(i) ==
    LET Signal(A) == i <= Len(gateRunners) /\ A /\ UNCHANGED <<preflightVars, closed>>
    IN /\ WF_vars(Signal(GateStarted(i) \/ GateFailsToStart(i)))
       /\ WF_vars(Signal(GateTimeout(i)))
       /\ WF_vars(Signal(gateRunners[i].killed /\ GateEnds(i)))

FairSpec ==
    /\ Spec
    /\ \A i \in 1..PreflightRuns : PreflightFair(i)
    /\ \A i \in 1..GateRuns : GateFair(i)

-----------------------------------------------------------------------------
TypeOK == PreflightTypeOK /\ GateTypeOK /\ closed \in BOOLEAN

(* A run that shows as running is driven by a process that is alive and     *)
(* will be reported to it (PreflightController.running, QtProbeRunner).     *)
Driven(c, rs) ==
    c.running =>
        /\ c.runner \in 1..Len(rs)
        /\ rs[c.runner].process
        /\ rs[c.runner].os # "none"
        /\ rs[c.runner].handler = c.generation

RunsAreDriven == Driven(preflight, runners) /\ Driven(gate, gateRunners)

(* Every process alive belongs to the run in progress or was sent SIGKILL:  *)
(* neither a crash, a timeout, a cancel nor a new run loses one.            *)
Accounted(c, rs) ==
    \A i \in 1..Len(rs) :
        rs[i].os # "none" => rs[i].killed \/ (c.running /\ c.runner = i /\ rs[i].process)

NoOrphanProbe == Accounted(preflight, runners) /\ Accounted(gate, gateRunners)

(* A timeout strikes a probe that has started, never the next one in the    *)
(* queue: the timer of a runner its owner holds is armed only while the     *)
(* process it was started for runs.                                         *)
TimerOfLiveProbe ==
    /\ preflight.running /\ runners[preflight.runner].timer
            => runners[preflight.runner].os = "running"
    /\ gate.running /\ gateRunners[gate.runner].timer
            => gateRunners[gate.runner].os = "running"

(* "Temporary scratch data will be removed after the run."  The directories *)
(* of the gate exist only while it runs; only a run cancelled while its     *)
(* process was writing can leave the inner one behind; and cleaning up      *)
(* never takes Pi's files away, wherever they came from.                    *)
GateCleansUp ==
    /\ disk.outside \subseteq {gate.plan}
    /\ disk.scratch \subseteq {gate.plan} \cup raced
    /\ gate.plan # 0 => gate.running
    /\ disk.own_files => disk.agent_dir

(* The gate passes only on the evidence of one process that ended by itself *)
(* with exit code 0 and reported each expected check exactly once, passed.  *)
VerdictIsProved ==
    gate.verdict = "passed" =>
        LET e == gate.evidence
            items == e.stdout.items
        IN /\ ~e.start_error /\ ~e.timed_out /\ e.exit_code = 0
           /\ \A i \in 1..Len(items) : items[i].passed = "true"
           /\ {items[i].id : i \in 1..Len(items)} = Expected
           /\ Len(items) = Cardinality(Expected)

PreflightOpen ==
    IF preflight.running
    THEN {id \in PlannedProbe \cap DOMAIN preflight.checks : preflight.checks[id] = "PENDING"}
    ELSE {}

PreflightRows ==
    [id \in CheckId |-> IF id \in DOMAIN preflight.checks THEN preflight.checks[id] ELSE "PENDING"]

PreflightPromise == INSTANCE ProbeContract WITH
    Row <- CheckId, Answer <- Status, Open <- "PENDING", rows <- PreflightRows, open <- PreflightOpen,
    phase <- IF preflight.running THEN "running"
             ELSE IF preflight.status \in {"cancelled", "start_failed"} THEN "abandoned"
             ELSE "idle"

(* The preflight controller keeps the contract of ProbeContract.            *)
PreflightKeepsContract == PreflightPromise!Spec

GatePromise == INSTANCE ProbeContract WITH
    Row <- {Confinement},
    Answer <- {"not_run", "pending", "passed", "failed", "start_failed"},
    Open <- "pending",
    rows <- [row \in {Confinement} |-> gate.verdict],
    open <- IF gate.running THEN {Confinement} ELSE {},
    phase <- IF gate.running THEN "running"
             ELSE IF gate.verdict = "pending" THEN "abandoned"
             ELSE "idle"

(* The sandbox gate controller keeps the contract of ProbeContract.         *)
GateKeepsContract == GatePromise!Spec

(* A run ends, by its result, its timeout or a cancel, without the user     *)
(* doing anything.                                                          *)
RunsEnd == (preflight.running ~> ~preflight.running) /\ (gate.running ~> ~gate.running)
=============================================================================
