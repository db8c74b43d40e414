---------------------------- MODULE SandboxGate ----------------------------
(***************************************************************************)
(* SandboxGateController (controllers/sandbox_gate_controller.py) and the  *)
(* SandboxGateService it calls (core/sandbox_gate.py).  A run prepares a   *)
(* scratch directory inside the workspace and one outside, starts one      *)
(* Bubblewrap process that tries to escape, parses what it prints and      *)
(* removes both directories.                                               *)
(***************************************************************************)
EXTENDS ProbeRunner, FiniteSets

CONSTANTS
    Expected,          \* ids of _EXPECTED_CHECKS
    Payloads,          \* what the process may print
    GateRuns,          \* bound: runners made
    GateGenerations,   \* bound: values of the generation counter
    GateDisturbances   \* what may go wrong on the host

Confinement == "sandbox-confinement"

(* What stdout parses to; `valid` is whether it is one JSON object with     *)
(* schema 1 and a list of checks.  An item is an id (maybe unknown) and     *)
(* `passed` (maybe not a Boolean).                                          *)
Junk == [valid |-> FALSE, items |-> <<>>]

ASSUME GateAssumption ==
    /\ Confinement \in ProbeId
    /\ Junk \in Payloads
    /\ \A p \in Payloads : p.items \in Seq([id : STRING, passed : STRING])
    /\ GateRuns \in Nat
    /\ GateGenerations \in Nat \ {0}

-----------------------------------------------------------------------------
(* parse_result as the statuses of the rows of its report.                  *)

Ambiguous(items) ==
    \E i \in 1..Len(items) :
        \/ items[i].id \notin Expected
        \/ items[i].passed \notin {"true", "false"}
        \/ \E j \in 1..(i - 1) : items[j].id = items[i].id

Omitted(items) == \E id \in Expected : \A i \in 1..Len(items) : items[i].id # id

ProcessFailure == [id \in {"sandbox-gate-process"} |-> "FAIL"]

ItemChecks(items) ==
    [id \in Expected |->
        IF \E i \in 1..Len(items) : items[i].id = id /\ items[i].passed = "true"
        THEN "PASS" ELSE "FAIL"]

AllPass(checks) == \A id \in DOMAIN checks : checks[id] = "PASS"

WithFailedRow(checks, row) ==
    [id \in (DOMAIN checks) \cup {row} |-> IF id = row THEN "FAIL" ELSE checks[id]]

ParseResult_TimeoutIgnored(result) ==
    LET items  == result.stdout.items
        checks == ItemChecks(items)
    IN IF \/ result.start_error
          \/ ~result.stdout.valid
          \/ Ambiguous(items)
          \/ Omitted(items)
       THEN ProcessFailure
       ELSE IF result.exit_code \notin {0, 2}
       THEN WithFailedRow(checks, "sandbox-process-exit")
       ELSE IF (result.exit_code = 0) # AllPass(checks)
       THEN WithFailedRow(checks, "sandbox-process-consistency")
       ELSE checks

ParseResult(result) ==
    LET items  == result.stdout.items
        checks == ItemChecks(items)
    IN IF \/ result.start_error
          \/ result.timed_out
          \/ ~result.stdout.valid
          \/ Ambiguous(items)
          \/ Omitted(items)
       THEN ProcessFailure
       ELSE IF result.exit_code \notin {0, 2}
       THEN WithFailedRow(checks, "sandbox-process-exit")
       ELSE IF (result.exit_code = 0) # AllPass(checks)
       THEN WithFailedRow(checks, "sandbox-process-consistency")
       ELSE checks

Passed(checks) == DOMAIN checks # {} /\ AllPass(checks)

-----------------------------------------------------------------------------
(* `disk` is the workspace's agent directory and the gate's directories,    *)
(* named by the runner they were made for.  `own_files` are files of Pi in  *)
(* the agent directory.  gate.plan is the runner whose plan the controller  *)
(* holds, 0 for None.  `raced` are the runs cancelled while their process   *)
(* was alive and able to create a file during the removal, gate.evidence   *)
(* the result the verdict rests on; both are kept for the properties only.  *)
VARIABLES gateRunners, gate, disk, raced

gateVars == <<gateRunners, gate, disk, raced>>

Results ==
    [start_error : BOOLEAN, timed_out : BOOLEAN, exit_code : ExitCode, stdout : Payloads]

NoResult == StartError(Junk)

GateController ==
    [running : BOOLEAN, generation : 0..GateGenerations, runner : 0..GateRuns,
     plan : 0..GateRuns, agent_dir_created : BOOLEAN,
     verdict : {"not_run", "pending", "passed", "failed", "start_failed"},
     manifest : BOOLEAN, evidence : Results]

Disk ==
    [agent_dir : BOOLEAN, own_files : BOOLEAN,
     scratch : SUBSET (1..GateRuns), outside : SUBSET (1..GateRuns)]

GateTypeOK ==
    /\ gateRunners \in Seq(Runner)
    /\ Len(gateRunners) <= GateRuns
    /\ gate \in GateController
    /\ disk \in Disk
    /\ raced \subseteq 1..GateRuns

GateInit ==
    /\ gateRunners = <<>>
    /\ gate = [running |-> FALSE, generation |-> 0, runner |-> 0, plan |-> 0,
               agent_dir_created |-> FALSE, verdict |-> "not_run", manifest |-> FALSE,
               evidence |-> NoResult]
    /\ \E own \in BOOLEAN, exists \in BOOLEAN :
        /\ own => exists
        /\ disk = [agent_dir |-> exists, own_files |-> own, scratch |-> {}, outside |-> {}]
    /\ raced = {}

(* rmdir removes the agent directory only when it is empty.                 *)
RemoveAgentDir(d, created) ==
    [d EXCEPT !.agent_dir = @ /\ ~(created /\ ~d.own_files /\ d.scratch = {})]

CleanupPaths(d, n, created) ==
    RemoveAgentDir([d EXCEPT !.scratch = @ \ {n}, !.outside = @ \ {n}], created)

(* shutil.rmtree(ignore_errors=True) leaves the directory when the process  *)
(* of the gate, killed but not dead yet, creates a file in it meanwhile.    *)
CleanupRaced(d, n) == [d EXCEPT !.outside = @ \ {n}]

Prepared(d, n) ==
    [d EXCEPT !.agent_dir = TRUE, !.scratch = @ \cup {n}, !.outside = @ \cup {n}]

PrepareFailed_NoCleanup(d, n) ==
    {d} \cup {[d EXCEPT !.agent_dir = TRUE, !.scratch = @ \cup s, !.outside = @ \cup o] :
                s \in {{}, {n}}, o \in {{}, {n}}}

(* prepare() raised: before the agent directory was made, or inside its try *)
(* block, after 0, 1 or 2 directories.                                      *)
PrepareFailed(d, n) ==
    {d} \cup {CleanupPaths([d EXCEPT !.agent_dir = TRUE, !.scratch = @ \cup s,
                                     !.outside = @ \cup o], n, ~d.agent_dir) :
                s \in {{}, {n}}, o \in {{}, {n}}}

OnResult_StillRunning(c, d, run, result) ==
    IF run # c.generation \/ c.plan = 0
    THEN [gate |-> c, disk |-> d]
    ELSE LET passed == Passed(ParseResult(result))
         IN [gate |-> [c EXCEPT !.verdict = IF passed THEN "passed" ELSE "failed",
                                !.manifest = TRUE, !.plan = 0, !.runner = 0,
                                !.generation = @ + 1, !.evidence = result],
             disk |-> CleanupPaths(d, c.plan, c.agent_dir_created)]

(* One result; _on_result takes it once, since it raises the generation.    *)
OnResult(c, d, run, result) ==
    IF run # c.generation \/ c.plan = 0
    THEN [gate |-> c, disk |-> d]
    ELSE LET passed == Passed(ParseResult(result))
         IN [gate |-> [c EXCEPT !.verdict = IF passed THEN "passed" ELSE "failed",
                                !.manifest = TRUE, !.plan = 0, !.runner = 0,
                                !.running = FALSE, !.generation = @ + 1,
                                !.evidence = result],
             disk |-> CleanupPaths(d, c.plan, c.agent_dir_created)]

OnRunnerFinished(c, d, run) ==
    OnResult(c, d, run, StartError(Junk))

Answered(c, d, run, reply) ==
    LET told == IF reply.results = <<>> THEN [gate |-> c, disk |-> d]
                ELSE OnResult(c, d, run, reply.results[1][2])
    IN IF reply.finished THEN OnRunnerFinished(told.gate, told.disk, run) ELSE told

-----------------------------------------------------------------------------
(* canRun also asks for a valid policy and for a disconnected or failed     *)
(* connection: both are the environment's here.                             *)
CanRunGate ==
    ~gate.running /\ gate.generation + 2 < GateGenerations /\ Len(gateRunners) < GateRuns

RunGate ==
    /\ CanRunGate
    /\ LET n     == Len(gateRunners) + 1
           run   == gate.generation + 1
           begun == [gate EXCEPT !.generation = run, !.manifest = FALSE,
                                 !.verdict = "pending", !.plan = n, !.runner = n,
                                 !.running = TRUE, !.agent_dir_created = ~disk.agent_dir]
       IN \E failing \in {0, 1} :
            LET reply == Start(<<Confinement>>, run, failing, Junk)
                told  == Answered(begun, Prepared(disk, n), run, reply)
            IN /\ gateRunners' = Append(gateRunners, reply.runner)
               /\ gate' = told.gate
               /\ disk' = told.disk
    /\ UNCHANGED raced

RunGateRaises ==
    /\ CanRunGate
    /\ LET n == Len(gateRunners) + 1
       IN \/ /\ "prepare" \in GateDisturbances
             /\ disk' \in PrepareFailed(disk, n)
             /\ UNCHANGED gateRunners
          \/ /\ "start" \in GateDisturbances
             /\ disk' = CleanupPaths(Prepared(disk, n), n, ~disk.agent_dir)
             /\ gateRunners' = Append(gateRunners, NewRunner)
    /\ gate' = [gate EXCEPT !.generation = @ + 1, !.manifest = FALSE, !.plan = 0,
                            !.runner = 0, !.verdict = "start_failed"]
    /\ UNCHANGED raced

StopGate ==
    /\ gateRunners' = IF gate.runner = 0 THEN gateRunners
                      ELSE [gateRunners EXCEPT ![gate.runner] = Cancel(@)]
    /\ gate' = [gate EXCEPT !.generation = @ + 1, !.runner = 0, !.plan = 0,
                            !.running = FALSE, !.manifest = FALSE]
    /\ \/ /\ disk' = IF gate.plan = 0 THEN disk
                     ELSE CleanupPaths(disk, gate.plan, gate.agent_dir_created)
          /\ UNCHANGED raced
       \/ /\ "race" \in GateDisturbances
          /\ gate.plan # 0
          /\ gateRunners[gate.runner].os = "running"
          /\ disk' = CleanupRaced(disk, gate.plan)
          /\ raced' = raced \cup {gate.plan}

CancelGate == gate.generation + 1 < GateGenerations /\ StopGate

GateDeliver(i, reply) ==
    LET told == Answered(gate, disk, gateRunners[i].handler, reply)
    IN /\ gateRunners' = [gateRunners EXCEPT ![i] = reply.runner]
       /\ gate' = told.gate
       /\ disk' = told.disk
       /\ UNCHANGED raced

GateStarted(i) ==
    /\ gateRunners[i].os = "starting"
    /\ GateDeliver(i, Silent(ProcessStarted(gateRunners[i])))

GateFailsToStart(i) ==
    /\ gateRunners[i].os = "starting"
    /\ GateDeliver(i, ProcessFailsToStart(gateRunners[i], 0, Junk))

GateEnds(i) ==
    /\ gateRunners[i].os = "running"
    /\ \E payload \in Payloads, exit \in {0, 1, 2} :
        \/ GateDeliver(i, ProcessExits(gateRunners[i], exit, payload, 0))
        \/ exit = 1 /\ GateDeliver(i, ProcessCrashes(gateRunners[i], exit, payload, 0))

GateTimeout(i) ==
    /\ gateRunners[i].timer
    /\ GateDeliver(i, Silent(OnTimeout(gateRunners[i])))

(* Connect is not blocked by a running gate: prepare_runtime_paths makes    *)
(* the agent directory and Pi's files in it.                                *)
PiWritesFiles ==
    /\ ~disk.own_files
    /\ disk' = [disk EXCEPT !.agent_dir = TRUE, !.own_files = TRUE]
    /\ UNCHANGED <<gateRunners, gate, raced>>

GateUser == RunGate \/ RunGateRaises \/ CancelGate

GateSignal(i) == GateStarted(i) \/ GateFailsToStart(i) \/ GateEnds(i) \/ GateTimeout(i)
=============================================================================
