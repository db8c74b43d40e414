----------------------------- MODULE LoadRunner -----------------------------
(***************************************************************************)
(* QtDirectoryScanRunner (ui/native/workspace_scan_runner.py) and          *)
(* QtDocumentLoadRunner (ui/native/workspace_document_runner.py), which    *)
(* differ in the function a task calls only.  Tasks run on a pool of       *)
(* threads; a finished task posts a queued signal to the GUI thread, which *)
(* calls the callback of its request.                                      *)
(*                                                                         *)
(* The runner is a record and its slots are operators on it.  A request id *)
(* is a number: the code's "generation:counter" never repeats a counter.   *)
(* What a task has loaded is the `result` its thread chose; the task's own *)
(* `root` and `path` travel with it.                                       *)
(***************************************************************************)
EXTENDS Naturals, Sequences, FiniteSets, Functions

CONSTANTS
    NoWorkspace,   \* the root of a controller before a workspace is chosen
    MaxThreads,    \* threads of the pool (2 in the code)
    LoadFaults     \* {} or {"raise"}: the function of a task may raise

ASSUME LoadAssumption == MaxThreads \in Nat \ {0} /\ LoadFaults \subseteq {"raise"}

(* queued: in the pool; running: its function runs; unstopped: the thread   *)
(* found the token clear and is about to emit; posted: the signal is queued *)
(* to the GUI thread; dead: the function raised, only the callback is left. *)
Stage == {"queued", "running", "unstopped", "posted", "dead"}

OnThread(task) == task.stage \in {"running", "unstopped"}

(* `callback`: its entries in _callbacks and _cancel_tokens, which are kept *)
(* in step; `token`: the Event shared with the thread.                      *)
NewTask(root, path, nothing) ==
    [root |-> root, path |-> path, stage |-> "queued", callback |-> TRUE,
     token |-> FALSE, result |-> nothing]

(* `tasks` holds every task that is queued, on a thread or posted, and      *)
(* those that died with their callback registered.                          *)
NewRunner == [next |-> 1, tasks |-> <<>>, posted |-> <<>>, closed |-> FALSE]

(* Mutant: the counter stays, and a second request has the id of the first. *)
Submit_CounterKept(r, root, path, nothing) ==
    [r EXCEPT !.tasks = [i \in DOMAIN @ \cup {r.next} |->
                            IF i = r.next THEN NewTask(root, path, nothing) ELSE @[i]]]

(* The caller has tested `closed`, where submit() raises.                   *)
Submit(r, root, path, nothing) ==
    [r EXCEPT !.next = @ + 1,
              !.tasks = [i \in DOMAIN @ \cup {r.next} |->
                            IF i = r.next THEN NewTask(root, path, nothing) ELSE @[i]]]

(* The pool drops what it has not begun; a dead task was its callback.      *)
CancelAll(r) ==
    LET left == {i \in DOMAIN r.tasks : r.tasks[i].stage \notin {"queued", "dead"}}
    IN  [r EXCEPT !.tasks = [i \in left |->
            [r.tasks[i] EXCEPT !.token = @ \/ r.tasks[i].callback, !.callback = FALSE]]]

Shutdown(r) == CancelAll([r EXCEPT !.closed = TRUE])

-----------------------------------------------------------------------------
(* Steps of the pool and its threads.                                       *)

(* QThreadPool starts tasks in the order of their submission.               *)
MayBegin(r, i) ==
    /\ r.tasks[i].stage = "queued"
    /\ \A j \in DOMAIN r.tasks : r.tasks[j].stage = "queued" => i <= j
    /\ Cardinality({j \in DOMAIN r.tasks : OnThread(r.tasks[j])}) < MaxThreads

Begin(r, i) == [r EXCEPT !.tasks[i].stage = "running"]

Without(r, i) == [r EXCEPT !.tasks = Restrict(@, DOMAIN @ \ {i})]

(* The function returned; `if not cancelled.is_set()`.                      *)
Loaded(r, i, result) ==
    IF r.tasks[i].token THEN Without(r, i)
    ELSE [r EXCEPT !.tasks[i].stage = "unstopped", !.tasks[i].result = result]

Raised(r, i) ==
    IF r.tasks[i].callback THEN [r EXCEPT !.tasks[i].stage = "dead"] ELSE Without(r, i)

(* The emit, in a step of its own: the token may have been set since.       *)
Posted(r, i) == [r EXCEPT !.tasks[i].stage = "posted", !.posted = Append(@, i)]

(* _deliver of the signal posted first; its owner then calls the callback,  *)
(* if CallsBack.                                                            *)
Delivered(r) == Without([r EXCEPT !.posted = Tail(@)], Head(r.posted))

CallsBack(r) == r.tasks[Head(r.posted)].callback /\ ~r.closed
=============================================================================
