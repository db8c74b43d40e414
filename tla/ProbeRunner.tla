---------------------------- MODULE ProbeRunner ----------------------------
(***************************************************************************)
(* QtProbeRunner (ui/native/probe_runner.py): runs a queue of commands one *)
(* after the other, each in a QProcess with a timeout, and reports each to *)
(* its owner.  Every slot is an operator from a runner to a Reply: the     *)
(* runner afterwards, the results it handed to its result handler, in      *)
(* order, and whether it called its finished handler.                      *)
(*                                                                         *)
(* A runner belongs to one run of one owner.  `handler` is the number of   *)
(* the run its callbacks were made for, 0 once cancel() replaced them.     *)
(* `process` and `probe` are the attributes; `os` is the operating         *)
(* system's process, which outlives the attribute after cancel().          *)
(***************************************************************************)
EXTENDS Naturals, Sequences

CONSTANT ProbeId

NoProbe == "none"

ASSUME ProbeAssumption == NoProbe \notin ProbeId

(* What a probe's owner is told: CommandProbeResult without its texts.  An  *)
(* exit code of NoExit is None; `stdout` is what the owner can parse.       *)
NoExit == 256

ExitCode == 0..NoExit

StartError(stdout) ==
    [start_error |-> TRUE, timed_out |-> FALSE, exit_code |-> NoExit, stdout |-> stdout]

Runner ==
    [queue : Seq(ProbeId), probe : ProbeId \cup {NoProbe}, process : BOOLEAN,
     timer : BOOLEAN, timed_out : BOOLEAN, reported : BOOLEAN, cancelled : BOOLEAN,
     handler : Nat, os : {"none", "starting", "running"}, killed : BOOLEAN]

NewRunner ==
    [queue |-> <<>>, probe |-> NoProbe, process |-> FALSE,
     timer |-> FALSE, timed_out |-> FALSE, reported |-> FALSE, cancelled |-> FALSE,
     handler |-> 0, os |-> "none", killed |-> FALSE]

Reply(r, results, finished) == [runner |-> r, results |-> results, finished |-> finished]

Silent(r) == Reply(r, <<>>, FALSE)

(* One slot after another in the same turn of the event loop.               *)
Then(a, b) == Reply(b.runner, a.results \o b.results, a.finished \/ b.finished)

(* QProcess.start() may report FailedToStart before it returns; the slot    *)
(* then continues with the next probe inside the call.  `failing` is how    *)
(* many probes in a row end that way.                                       *)
SyncFailures(r) == 0..Len(r.queue)

Disposed(r) == [r EXCEPT !.process = FALSE, !.probe = NoProbe]

Exhausted(r, failing) ==
    [Disposed(r) EXCEPT !.queue = <<>>, !.timed_out = @ /\ failing = 0,
                        !.reported = @ \/ failing > 0]

Begun(r, failing) ==
    [r EXCEPT !.queue = SubSeq(@, failing + 2, Len(@)), !.probe = r.queue[failing + 1],
              !.process = TRUE, !.timed_out = FALSE, !.reported = FALSE,
              !.os = "starting", !.killed = FALSE]

StartNext(r, failing, stdout) ==
    LET failed == [i \in 1..failing |-> <<r.queue[i], StartError(stdout)>>]
        told   == IF r.handler = 0 THEN <<>> ELSE failed
    IN IF r.cancelled THEN Silent(Disposed(r))
       ELSE IF failing = Len(r.queue)
       THEN Reply(Exhausted(r, failing), told, r.handler # 0)
       ELSE Reply(Begun(r, failing), told, FALSE)

Start(probes, run, failing, stdout) ==
    StartNext([NewRunner EXCEPT !.queue = probes, !.handler = run], failing, stdout)

Reported(r) == [r EXCEPT !.reported = TRUE, !.timer = FALSE]

Report(r, result) == IF r.handler = 0 THEN <<>> ELSE << <<r.probe, result>> >>

ReportCurrent_TimerRuns(r, result) ==
    IF r.probe = NoProbe \/ r.reported \/ r.cancelled THEN Silent(r)
    ELSE Reply([r EXCEPT !.reported = TRUE], Report(r, result), FALSE)

ReportCurrent(r, result) ==
    IF r.probe = NoProbe \/ r.reported \/ r.cancelled THEN Silent(r)
    ELSE Reply(Reported(r), Report(r, result), FALSE)

DisposeAndContinue_PopsAgain(r, failing, stdout) ==
    LET rest == IF r.queue = <<>> THEN <<>> ELSE Tail(r.queue)
    IN StartNext([Disposed(r) EXCEPT !.queue = rest],
                 IF failing > Len(rest) THEN Len(rest) ELSE failing, stdout)

DisposeAndContinue(r, failing, stdout) ==
    StartNext(Disposed(r), failing, stdout)

ReportAndContinue(r, result, failing) ==
    LET told == ReportCurrent(r, result)
    IN Then(told, DisposeAndContinue(told.runner, failing, result.stdout))

OnStarted(r) == [r EXCEPT !.timer = TRUE]

OnTimeout_NoKill(r) ==
    IF ~r.process \/ r.cancelled
    THEN [r EXCEPT !.timer = FALSE]
    ELSE [r EXCEPT !.timer = FALSE, !.timed_out = TRUE]

OnTimeout(r) ==
    IF ~r.process \/ r.cancelled
    THEN [r EXCEPT !.timer = FALSE]
    ELSE [r EXCEPT !.timer = FALSE, !.timed_out = TRUE, !.killed = @ \/ r.os # "none"]

OnError_CrashToo(r, error, failing, stdout) ==
    IF r.reported \/ r.cancelled \/ ~r.process
    THEN Silent(r)
    ELSE ReportAndContinue(r, [StartError(stdout) EXCEPT !.timed_out = r.timed_out], failing)

OnError(r, error, failing, stdout) ==
    IF r.reported \/ r.cancelled \/ error # "FailedToStart" \/ ~r.process
    THEN Silent(r)
    ELSE ReportAndContinue(r, [StartError(stdout) EXCEPT !.timed_out = r.timed_out], failing)

OnFinished(r, exit, stdout, failing) ==
    IF r.reported \/ r.cancelled
    THEN Silent(r)
    ELSE ReportAndContinue(r, [start_error |-> FALSE, timed_out |-> r.timed_out,
                               exit_code |-> exit, stdout |-> stdout], failing)

Cancel(r) ==
    [r EXCEPT !.queue = <<>>, !.timer = FALSE, !.cancelled = TRUE, !.reported = TRUE,
              !.handler = 0, !.process = FALSE, !.probe = NoProbe,
              !.killed = @ \/ (r.process /\ r.os # "none")]

-----------------------------------------------------------------------------
(* Signals of the operating system's process.  They reach the runner that   *)
(* made it whether or not the owner still holds that runner.                *)

ProcessStarted(r) == OnStarted([r EXCEPT !.os = "running"])

ProcessFailsToStart(r, failing, stdout) ==
    OnError([r EXCEPT !.os = "none"], "FailedToStart", failing, stdout)

ProcessExits(r, exit, stdout, failing) ==
    OnFinished([r EXCEPT !.os = "none"], exit, stdout, failing)

(* A crash is announced twice: errorOccurred(Crashed), then finished.       *)
ProcessCrashes(r, exit, stdout, failing) ==
    LET told == OnError([r EXCEPT !.os = "none"], "Crashed", failing, stdout)
    IN Then(told, OnFinished(told.runner, exit, stdout, failing))
=============================================================================
