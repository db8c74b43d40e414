----------------------------- MODULE Preflight -----------------------------
(***************************************************************************)
(* PreflightController (controllers/preflight_controller.py) and the       *)
(* planner and classifier it calls (core/preflight.py).  A run inspects    *)
(* the host, shows one row per check and runs a version probe for each     *)
(* executable it found; the rows of the probes stay PENDING until their    *)
(* result arrives.                                                         *)
(***************************************************************************)
EXTENDS ProbeRunner

CONSTANTS
    Hosts,          \* the hosts (records, see Host) a run may find
    PreflightRuns,  \* bound: runners made
    Generations     \* bound: values of the generation counter

Status == {"PENDING", "PASS", "WARN", "FAIL"}

StaticCheck == {"host-os", "python", "workspace", "sandbox-enabled", "runtime-root",
                "models-config", "network-policy", "confinement-runtime"}

PlannedProbe == {"bubblewrap", "pi", "node"}

CheckId == StaticCheck \cup PlannedProbe

(* What the planner tests.  `node` is where the Node executable is found;   *)
(* `policy` is whether validate_sandbox_paths accepts settings and          *)
(* workspace; `models` is the outcome of the models.json inspection.        *)
Host ==
    [linux : BOOLEAN, workspace : {"none", "missing", "dir"}, sandbox_enabled : BOOLEAN,
     bubblewrap : BOOLEAN, pi : BOOLEAN, runtime_root : BOOLEAN, policy : BOOLEAN,
     node : {"none", "unavailable", "hidden", "visible"},
     models : {"not_inspected", "no_profiles", "changed", "usable"}]

ASSUME PreflightAssumption ==
    /\ Hosts \subseteq Host
    /\ PlannedProbe \subseteq ProbeId
    /\ PreflightRuns \in Nat
    /\ Generations \in Nat \ {0}

PassOrFail(condition) == IF condition THEN "PASS" ELSE "FAIL"

NodeUsable(host) ==
    host.node = "visible" \/ (host.node = "hidden" /\ ~host.sandbox_enabled)

ProbeAvailable(host, id) ==
    CASE id = "bubblewrap" -> host.bubblewrap
      [] id = "pi" -> host.pi
      [] id = "node" -> NodeUsable(host)

Required(host, id) == id = "bubblewrap" => host.sandbox_enabled

RequiredProbes(host) == {id \in PlannedProbe : Required(host, id)}

ProbeFor(host, id) == IF ProbeAvailable(host, id) THEN <<id>> ELSE <<>>

ProbesOf(host) ==
    ProbeFor(host, "bubblewrap") \o ProbeFor(host, "pi") \o ProbeFor(host, "node")

PolicyTested(host) == host.runtime_root /\ host.sandbox_enabled /\ host.workspace = "dir"

ModelsCheck(models) ==
    CASE models \in {"not_inspected", "no_profiles"} -> "FAIL"
      [] models = "changed" -> "WARN"
      [] models = "usable" -> "PASS"

Bad_OwnStatus(required) == IF required THEN "FAIL" ELSE "SKIP"

Bad(required) == IF required THEN "FAIL" ELSE "WARN"

Plan(host) ==
    [id \in CheckId |->
        CASE id = "host-os" -> PassOrFail(host.linux)
          [] id = "python" -> "PASS"
          [] id = "workspace" -> PassOrFail(host.workspace = "dir")
          [] id = "sandbox-enabled" -> PassOrFail(host.sandbox_enabled)
          [] id = "runtime-root" ->
                PassOrFail(host.runtime_root /\ (PolicyTested(host) => host.policy))
          [] id = "models-config" -> ModelsCheck(host.models)
          [] id = "network-policy" -> "WARN"
          [] id = "confinement-runtime" -> "PENDING"
          [] id \in PlannedProbe ->
                IF ProbeAvailable(host, id) THEN "PENDING" ELSE Bad(Required(host, id))]

ClassifyProbeResult(required, result) ==
    IF ~result.start_error /\ ~result.timed_out /\ result.exit_code = 0
    THEN "PASS" ELSE Bad(required)

-----------------------------------------------------------------------------
(* `runners` are all QtProbeRunners made, in order: a cancelled one may     *)
(* still receive the signals of its process.  `preflight.runner` is the     *)
(* index of the one the controller holds, 0 for None; `required` are the    *)
(* required probes of the plan, which the callbacks close over, and         *)
(* `status` stands for status_text.                                         *)
VARIABLES runners, preflight

preflightVars == <<runners, preflight>>

Controller ==
    [running : BOOLEAN, generation : 0..Generations, runner : 0..PreflightRuns,
     checks : [CheckId -> Status] \cup [{} -> Status], required : SUBSET PlannedProbe,
     manifest : BOOLEAN,
     status : {"not_run", "running", "cancelled", "start_failed",
               "blocking", "gate_pending", "warnings", "passed"}]

PreflightTypeOK ==
    /\ runners \in Seq(Runner)
    /\ Len(runners) <= PreflightRuns
    /\ preflight \in Controller

PreflightInit ==
    /\ runners = <<>>
    /\ preflight = [running |-> FALSE, generation |-> 0, runner |-> 0,
                    checks |-> [id \in {} |-> "PENDING"], required |-> {},
                    manifest |-> FALSE, status |-> "not_run"]

HasCheck(checks, status) == \E id \in DOMAIN checks : checks[id] = status

FinalStatus(checks) ==
    IF HasCheck(checks, "FAIL") THEN "blocking"
    ELSE IF HasCheck(checks, "PENDING") THEN "gate_pending"
    ELSE IF HasCheck(checks, "WARN") THEN "warnings"
    ELSE "passed"

Finish_KeepsRunning(c, run) ==
    IF run # c.generation THEN c
    ELSE [c EXCEPT !.manifest = TRUE, !.status = FinalStatus(c.checks)]

Finish(c, run) ==
    IF run # c.generation THEN c
    ELSE [c EXCEPT !.runner = 0, !.running = FALSE, !.manifest = TRUE,
                   !.status = FinalStatus(c.checks)]

(* The results a runner handed over in one turn of the event loop.          *)
OnProbeResults(c, run, results) ==
    LET resultOf(id) == CHOOSE i \in 1..Len(results) : results[i][1] = id
        told == {results[i][1] : i \in 1..Len(results)}
    IN IF run # c.generation THEN c
       ELSE [c EXCEPT !.checks =
                [id \in DOMAIN c.checks |->
                    IF id \in told
                    THEN ClassifyProbeResult(id \in c.required, results[resultOf(id)][2])
                    ELSE c.checks[id]]]

Told(c, run, reply) ==
    LET shown == OnProbeResults(c, run, reply.results)
    IN IF reply.finished THEN Finish(shown, run) ELSE shown

Run ==
    /\ ~preflight.running
    /\ preflight.generation + 1 < Generations
    /\ Len(runners) < PreflightRuns
    /\ \E host \in Hosts :
        LET run     == preflight.generation + 1
            planned == [preflight EXCEPT !.generation = run, !.checks = Plan(host),
                                         !.required = RequiredProbes(host),
                                         !.manifest = FALSE]
            begun   == [planned EXCEPT !.running = TRUE, !.status = "running",
                                       !.runner = Len(runners) + 1]
        IN \/ /\ ProbesOf(host) = <<>>
              /\ preflight' = Finish(planned, run)
              /\ UNCHANGED runners
           \/ /\ ProbesOf(host) # <<>>
              /\ \E failing \in 0..Len(ProbesOf(host)) :
                    LET reply == Start(ProbesOf(host), run, failing, "")
                    IN /\ runners' = Append(runners, reply.runner)
                       /\ preflight' = Told(begun, run, reply)

(* runner.start() raises before it started a process.                       *)
RunRaises ==
    /\ ~preflight.running
    /\ preflight.generation + 2 < Generations
    /\ Len(runners) < PreflightRuns
    /\ \E host \in Hosts :
        /\ ProbesOf(host) # <<>>
        /\ preflight' = [preflight EXCEPT !.generation = @ + 2, !.checks = Plan(host),
                                          !.required = RequiredProbes(host),
                                          !.manifest = FALSE, !.runner = 0, !.status = "start_failed"]
    /\ runners' = Append(runners, NewRunner)

StopPreflight ==
    /\ runners' = IF preflight.runner = 0 THEN runners
                  ELSE [runners EXCEPT ![preflight.runner] = Cancel(@)]
    /\ preflight' = [preflight EXCEPT !.generation = @ + 1, !.runner = 0, !.running = FALSE,
                                      !.status = "cancelled"]

CancelPreflight == preflight.generation + 1 < Generations /\ StopPreflight

(* A signal of runner i: its reply goes to the controller under the number  *)
(* of the run its callbacks were made for.                                  *)
Deliver(i, reply) ==
    /\ runners' = [runners EXCEPT ![i] = reply.runner]
    /\ preflight' = Told(preflight, runners[i].handler, reply)

ProbeStarted(i) ==
    /\ runners[i].os = "starting"
    /\ Deliver(i, Silent(ProcessStarted(runners[i])))

ProbeFailsToStart(i) ==
    /\ runners[i].os = "starting"
    /\ \E failing \in SyncFailures(runners[i]) :
        Deliver(i, ProcessFailsToStart(runners[i], failing, ""))

ProbeEnds(i) ==
    /\ runners[i].os = "running"
    /\ \E failing \in SyncFailures(runners[i]), exit \in {0, 1} :
        \/ Deliver(i, ProcessExits(runners[i], exit, "", failing))
        \/ exit # 0 /\ Deliver(i, ProcessCrashes(runners[i], exit, "", failing))

ProbeTimeout(i) ==
    /\ runners[i].timer
    /\ Deliver(i, Silent(OnTimeout(runners[i])))

PreflightUser == Run \/ RunRaises \/ CancelPreflight

PreflightSignal(i) ==
    ProbeStarted(i) \/ ProbeFailsToStart(i) \/ ProbeEnds(i) \/ ProbeTimeout(i)
=============================================================================
