-------------------------- MODULE WorkspaceProofs --------------------------
(***************************************************************************)
(* What holds of the browser and the preview in every reachable state, for *)
(* every set of workspaces and of directory contents, any number of        *)
(* threads and every bound.  The invariant is the agreement of each        *)
(* controller with the tasks of its runner: a request it waits for is a    *)
(* task that was not cancelled, for the root and the path it shows.        *)
(***************************************************************************)
EXTENDS Workspace, FiniteSetTheorems, WellFoundedInduction, TLAPS

-----------------------------------------------------------------------------
(* The runner (ui/native/workspace_scan_runner.py and its twin).            *)

TaskShape(root, path, stage, callback, token, result) ==
    [root |-> root, path |-> path, stage |-> stage, callback |-> callback, token |-> token,
     result |-> result]

\* A set of tasks that the progress of a task does not leave.
Closed(T) ==
    \A t \in T, stage \in Stage, callback \in BOOLEAN, token \in BOOLEAN :
        TaskShape(t.root, t.path, stage, callback, token, t.result) \in T

\* A task has the fields that NewTask gives it.
Shaped(T) ==
    \A t \in T :
        /\ t = TaskShape(t.root, t.path, t.stage, t.callback, t.token, t.result)
        /\ t.stage \in Stage /\ t.callback \in BOOLEAN /\ t.token \in BOOLEAN

RunnerShape(next, tasks, posted, off) ==
    [next |-> next, tasks |-> tasks, posted |-> posted, closed |-> off]

LoadSound(r, T) ==
    /\ r = RunnerShape(r.next, r.tasks, r.posted, r.closed)
    /\ r.next \in Nat \ {0} /\ r.closed \in BOOLEAN
    /\ r.tasks \in [DOMAIN r.tasks -> T]
    /\ \A i \in DOMAIN r.tasks : i \in Nat \ {0} /\ i < r.next
    /\ r.posted \in Seq(Nat \ {0})

\* Request i will be answered to its owner, with what was found under path.
Awaited(r, i, root, path) ==
    /\ i \in DOMAIN r.tasks
    /\ r.tasks[i].callback /\ ~r.tasks[i].token
    /\ r.tasks[i].root = root /\ r.tasks[i].path = path

\* Nothing that s awaits is lost in r.
AwaitsStill(s, r) == \A i, root, path : Awaited(s, i, root, path) => Awaited(r, i, root, path)

\* A runner with some fields changed.
LEMMA RunnerFields ==
  ASSUME NEW r, r = RunnerShape(r.next, r.tasks, r.posted, r.closed), NEW x, NEW y
  PROVE  /\ [r EXCEPT !.next = x, !.tasks = y] = RunnerShape(x, y, r.posted, r.closed)
         /\ [r EXCEPT !.tasks = y, !.posted = x] = RunnerShape(r.next, y, x, r.closed)
         /\ [r EXCEPT !.tasks = y] = RunnerShape(r.next, y, r.posted, r.closed)
         /\ [r EXCEPT !.posted = x] = RunnerShape(r.next, r.tasks, x, r.closed)
         /\ [r EXCEPT !.closed = x] = RunnerShape(r.next, r.tasks, r.posted, x)
<1> DEFINE p == [r EXCEPT !.next = x]
           q == [r EXCEPT !.tasks = y]
<1>1. [r EXCEPT !.next = x, !.tasks = y] = [p EXCEPT !.tasks = y]
  OBVIOUS
<1>2. [r EXCEPT !.tasks = y, !.posted = x] = [q EXCEPT !.posted = x]
  OBVIOUS
<1>3. p = RunnerShape(x, r.tasks, r.posted, r.closed)
  BY DEF RunnerShape
<1>4. q = RunnerShape(r.next, y, r.posted, r.closed)
  BY DEF RunnerShape
<1> HIDE DEF p, q
<1>5. [p EXCEPT !.tasks = y] = RunnerShape(x, y, r.posted, r.closed)
  BY <1>3 DEF RunnerShape
<1>6. [q EXCEPT !.posted = x] = RunnerShape(r.next, y, x, r.closed)
  BY <1>4 DEF RunnerShape
<1>7. [r EXCEPT !.posted = x] = RunnerShape(r.next, r.tasks, x, r.closed)
  BY DEF RunnerShape
<1>8. [r EXCEPT !.closed = x] = RunnerShape(r.next, r.tasks, r.posted, x)
  BY DEF RunnerShape
<1> QED BY <1>1, <1>2, <1>4, <1>5, <1>6, <1>7, <1>8 DEF q

\* Task i of r is on another stage in s, with what it loaded; or it is gone; or
\* nothing happened to any task but a cancel.
Changed(r, s, i, stage, result, posted) ==
    /\ s.posted = posted /\ DOMAIN s.tasks = DOMAIN r.tasks
    /\ s.tasks[i].stage = stage /\ s.tasks[i].result = result
    /\ \A j \in DOMAIN r.tasks \ {i} : s.tasks[j] = r.tasks[j]

Dropped(r, s, i, posted) ==
    /\ s.posted = posted /\ DOMAIN s.tasks = DOMAIN r.tasks \ {i}
    /\ \A j \in DOMAIN s.tasks : s.tasks[j] = r.tasks[j]

Cancelled(r, s) ==
    /\ s.posted = r.posted /\ DOMAIN s.tasks \subseteq DOMAIN r.tasks
    /\ \A j \in DOMAIN s.tasks :
          s.tasks[j].stage = r.tasks[j].stage /\ s.tasks[j].result = r.tasks[j].result

\* What the progress of a task does for the owner of the runner: nothing.
Progress(r, s, T) ==
    LoadSound(s, T) /\ s.next = r.next /\ s.closed = r.closed /\ AwaitsStill(r, s)

\* A runner that was just made.
LEMMA NewRunnerSound ==
  ASSUME NEW T
  PROVE  LoadSound(NewRunner, T)
<1>1. NewRunner = RunnerShape(1, <<>>, <<>>, FALSE)
  BY DEF NewRunner, RunnerShape
<1>2. DOMAIN <<>> = {}
  OBVIOUS
<1> QED BY <1>1, <1>2 DEF LoadSound, RunnerShape

\* submit(): the request is awaited, and so are those before it.
LEMMA SubmitSound ==
  ASSUME NEW T, NEW r, LoadSound(r, T), NEW root, NEW path, NEW nothing,
         NewTask(root, path, nothing) \in T
  PROVE  LET s == Submit(r, root, path, nothing)
         IN  /\ LoadSound(s, T) /\ s.next = r.next + 1 /\ s.closed = r.closed
             /\ Awaited(s, r.next, root, path)
             /\ AwaitsStill(r, s)
             /\ s.posted = r.posted /\ DOMAIN s.tasks = DOMAIN r.tasks \cup {r.next}
             /\ s.tasks[r.next].stage = "queued"
             /\ \A i \in DOMAIN r.tasks : s.tasks[i] = r.tasks[i]
<1> DEFINE n == r.next
           new == NewTask(root, path, nothing)
           tasks == [i \in DOMAIN r.tasks \cup {n} |-> IF i = n THEN new ELSE r.tasks[i]]
           s == Submit(r, root, path, nothing)
<1>1. s = RunnerShape(n + 1, tasks, r.posted, r.closed)
  <2>1. s = [r EXCEPT !.next = n + 1, !.tasks = tasks]
    BY DEF Submit
  <2> HIDE DEF s, n, tasks
  <2> QED BY <2>1, RunnerFields DEF LoadSound
<1>2. /\ new.callback = TRUE /\ new.token = FALSE /\ new.root = root /\ new.path = path
      /\ new.stage = "queued"
  BY DEF NewTask
<1>3. n \in Nat \ {0} /\ n + 1 \in Nat \ {0} /\ n \notin DOMAIN r.tasks
  BY DEF LoadSound
<1>4. /\ DOMAIN tasks = DOMAIN r.tasks \cup {n}
      /\ tasks[n] = new
      /\ \A i \in DOMAIN r.tasks : tasks[i] = r.tasks[i]
      /\ tasks \in [DOMAIN tasks -> T]
  <2> HIDE DEF new
  <2> QED BY <1>3 DEF LoadSound, new
<1> HIDE DEF tasks, new, s
<1>5. s.next = n + 1 /\ s.tasks = tasks /\ s.posted = r.posted /\ s.closed = r.closed
      /\ s = RunnerShape(s.next, s.tasks, s.posted, s.closed)
  BY <1>1 DEF RunnerShape
<1>6. \A i \in DOMAIN tasks : i \in Nat \ {0} /\ i < n + 1
  BY <1>3, <1>4 DEF LoadSound
<1>7. LoadSound(s, T)
  BY <1>3, <1>4, <1>5, <1>6 DEF LoadSound
<1>8. Awaited(s, n, root, path)
  BY <1>2, <1>4, <1>5 DEF Awaited
<1>9. AwaitsStill(r, s)
  BY <1>4, <1>5 DEF Awaited, AwaitsStill
<1> QED BY <1>2, <1>4, <1>5, <1>7, <1>8, <1>9 DEF s

\* cancel_all() and shutdown() leave no callback.
LEMMA CancelAllSound ==
  ASSUME NEW T, Closed(T), Shaped(T), NEW r, LoadSound(r, T)
  PROVE  LET s == CancelAll(r)
         IN  LoadSound(s, T) /\ s.next = r.next /\ s.closed = r.closed /\ Cancelled(r, s)
<1> DEFINE left == {i \in DOMAIN r.tasks : r.tasks[i].stage \notin {"queued", "dead"}}
           stopped(i) == [r.tasks[i] EXCEPT !.token = @ \/ r.tasks[i].callback, !.callback = FALSE]
           tasks == [i \in left |-> stopped(i)]
           s == CancelAll(r)
<1>1. s = RunnerShape(r.next, tasks, r.posted, r.closed)
  <2>1. s = [r EXCEPT !.tasks = tasks]
    BY DEF CancelAll
  <2> HIDE DEF s, tasks
  <2> QED BY <2>1, RunnerFields DEF LoadSound
<1>2. ASSUME NEW i \in left
      PROVE  stopped(i) \in T /\ stopped(i).stage = r.tasks[i].stage
             /\ stopped(i).result = r.tasks[i].result
  <2> DEFINE t == r.tasks[i]
             token == t.token \/ t.callback
             gone == FALSE
  <2>1. t \in T
    BY DEF LoadSound
  <2>2. token \in BOOLEAN /\ gone \in BOOLEAN
    BY <2>1 DEF Shaped
  <2>a. t = TaskShape(t.root, t.path, t.stage, t.callback, t.token, t.result)
    BY <2>1 DEF Shaped
  <2> DEFINE p == [t EXCEPT !.token = token]
  <2>3. stopped(i) = [p EXCEPT !.callback = gone]
    OBVIOUS
  <2> HIDE DEF t, token, gone, stopped, left
  <2>b. p = TaskShape(t.root, t.path, t.stage, t.callback, token, t.result)
    BY <2>a DEF TaskShape
  <2> HIDE DEF p
  <2>4. [p EXCEPT !.callback = gone] = TaskShape(t.root, t.path, t.stage, gone, token, t.result)
    BY <2>b DEF TaskShape
  <2>5. t.stage \in Stage
    BY <2>1 DEF Shaped
  <2>6. stopped(i).stage = t.stage /\ stopped(i).result = t.result
    BY <2>3, <2>4 DEF TaskShape
  <2>7. stopped(i) \in T
    BY <2>1, <2>2, <2>3, <2>4, <2>5 DEF Closed
  <2> QED BY <2>6, <2>7 DEF t
<1>3. DOMAIN tasks = left /\ left \subseteq DOMAIN r.tasks /\ tasks \in [left -> T]
  <2> HIDE DEF stopped, left
  <2>1. tasks \in [left -> T]
    BY <1>2
  <2> QED BY <2>1 DEF left
<1>a. \A i \in left : tasks[i].stage = r.tasks[i].stage /\ tasks[i].result = r.tasks[i].result
  <2> HIDE DEF stopped, left
  <2> QED BY <1>2
<1> HIDE DEF tasks, left, s
<1>4. s.next = r.next /\ s.tasks = tasks /\ s.posted = r.posted /\ s.closed = r.closed
      /\ s = RunnerShape(s.next, s.tasks, s.posted, s.closed)
  BY <1>1 DEF RunnerShape
<1>5. Cancelled(r, s)
  BY <1>3, <1>4, <1>a DEF Cancelled
<1> QED BY <1>3, <1>4, <1>5 DEF LoadSound, s

\* See CancelAllSound.
LEMMA ShutdownSound ==
  ASSUME NEW T, Closed(T), Shaped(T), NEW r, LoadSound(r, T)
  PROVE  LET s == Shutdown(r)
         IN  LoadSound(s, T) /\ s.next = r.next /\ s.closed = TRUE /\ Cancelled(r, s)
<1> DEFINE yes == TRUE
           off == [r EXCEPT !.closed = yes]
           s == CancelAll(off)
<1>1. yes \in BOOLEAN /\ yes /\ Shutdown(r) = s
  BY DEF Shutdown
<1> HIDE DEF yes
<1>2. off = RunnerShape(r.next, r.tasks, r.posted, yes)
  BY RunnerFields DEF LoadSound
<1> HIDE DEF off
<1>3. LoadSound(off, T) /\ off.next = r.next /\ off.closed = yes
      /\ off.tasks = r.tasks /\ off.posted = r.posted
  BY <1>1, <1>2 DEF LoadSound, RunnerShape
<1>4. LoadSound(s, T) /\ s.next = off.next /\ s.closed = off.closed /\ Cancelled(off, s)
  BY <1>3, CancelAllSound
<1>5. Cancelled(r, s)
  BY <1>3, <1>4 DEF Cancelled
<1> HIDE DEF s
<1> QED BY <1>1, <1>3, <1>4, <1>5 DEF yes

\* A runner with one task changed.
LEMMA TaskChanges ==
  ASSUME NEW T, Shaped(T), NEW r, LoadSound(r, T), NEW i \in DOMAIN r.tasks, NEW t \in T,
         t.root = r.tasks[i].root, t.path = r.tasks[i].path,
         t.callback = r.tasks[i].callback, t.token = r.tasks[i].token,
         NEW posted \in Seq(Nat \ {0}), NEW s,
         s = RunnerShape(r.next, [r.tasks EXCEPT ![i] = t], posted, r.closed)
  PROVE  Progress(r, s, T) /\ Changed(r, s, i, t.stage, t.result, posted)
<1> DEFINE tasks == [r.tasks EXCEPT ![i] = t]
<1>1. /\ DOMAIN tasks = DOMAIN r.tasks /\ tasks[i] = t /\ tasks \in [DOMAIN tasks -> T]
      /\ \A j \in DOMAIN tasks : j # i => tasks[j] = r.tasks[j]
  BY DEF LoadSound
<1>2. s.next = r.next /\ s.tasks = tasks /\ s.posted = posted /\ s.closed = r.closed
      /\ s = RunnerShape(s.next, s.tasks, s.posted, s.closed)
  BY DEF RunnerShape
<1> HIDE DEF tasks
<1>3. AwaitsStill(r, s)
  BY <1>1, <1>2 DEF AwaitsStill, Awaited
<1>4. Changed(r, s, i, t.stage, t.result, posted)
  BY <1>1, <1>2 DEF Changed
<1> QED BY <1>1, <1>2, <1>3, <1>4 DEF LoadSound, Progress

\* The end of a task nobody waits for.
LEMMA WithoutSound ==
  ASSUME NEW T, Shaped(T), NEW r, LoadSound(r, T), NEW i
  PROVE  LET s == Without(r, i)
         IN  /\ LoadSound(s, T) /\ s.next = r.next /\ s.closed = r.closed
             /\ Dropped(r, s, i, r.posted)
             /\ \A j, root, path : j # i /\ Awaited(r, j, root, path) => Awaited(s, j, root, path)
             /\ (\A root, path : ~Awaited(r, i, root, path)) => AwaitsStill(r, s)
<1> DEFINE s == Without(r, i)
           tasks == Restrict(r.tasks, DOMAIN r.tasks \ {i})
<1>1. s = RunnerShape(r.next, tasks, r.posted, r.closed)
  <2>1. s = [r EXCEPT !.tasks = tasks]
    BY DEF Without
  <2> HIDE DEF s, tasks
  <2> QED BY <2>1, RunnerFields DEF LoadSound
<1>2. /\ DOMAIN tasks = DOMAIN r.tasks \ {i}
      /\ \A j \in DOMAIN tasks : tasks[j] = r.tasks[j]
      /\ tasks \in [DOMAIN tasks -> T]
  BY DEF Restrict, LoadSound
<1> HIDE DEF tasks, s
<1>3. s.next = r.next /\ s.tasks = tasks /\ s.posted = r.posted /\ s.closed = r.closed
      /\ s = RunnerShape(s.next, s.tasks, s.posted, s.closed)
  BY <1>1 DEF RunnerShape
<1>4. \A j, root, path : j # i /\ Awaited(r, j, root, path) => Awaited(s, j, root, path)
  BY <1>2, <1>3 DEF Awaited
<1>5. LoadSound(s, T)
  BY <1>2, <1>3 DEF LoadSound
<1>6. (\A root, path : ~Awaited(r, i, root, path)) => AwaitsStill(r, s)
  BY <1>4 DEF AwaitsStill
<1>7. Dropped(r, s, i, r.posted)
  BY <1>2, <1>3 DEF Dropped
<1> QED BY <1>3, <1>4, <1>5, <1>6, <1>7 DEF s

\* A task on another stage.
LEMMA StageTask ==
  ASSUME NEW T, Closed(T), Shaped(T), NEW t \in T, NEW stage \in Stage, NEW u,
         u = [t EXCEPT !.stage = stage]
  PROVE  /\ u \in T /\ u.stage = stage /\ u.result = t.result
         /\ u.root = t.root /\ u.path = t.path /\ u.callback = t.callback /\ u.token = t.token
<1>1. t = TaskShape(t.root, t.path, t.stage, t.callback, t.token, t.result)
      /\ t.callback \in BOOLEAN /\ t.token \in BOOLEAN
  BY DEF Shaped
<1>2. u = TaskShape(t.root, t.path, stage, t.callback, t.token, t.result)
  BY <1>1 DEF TaskShape
<1>3. u \in T
  BY <1>1, <1>2 DEF Closed
<1> QED BY <1>2, <1>3 DEF TaskShape

\* The same, of a task of a runner: Begin and, while somebody waits, Raised.
LEMMA StageSound ==
  ASSUME NEW T, Closed(T), Shaped(T), NEW r, LoadSound(r, T), NEW i \in DOMAIN r.tasks,
         NEW stage \in Stage
  PROVE  LET s == [r EXCEPT !.tasks[i].stage = stage]
         IN  Progress(r, s, T) /\ Changed(r, s, i, stage, r.tasks[i].result, r.posted)
<1> DEFINE t == r.tasks[i]
           u == [t EXCEPT !.stage = stage]
           tasks == [r.tasks EXCEPT ![i] = u]
           s == [r EXCEPT !.tasks = tasks]
<1>1. /\ t \in T /\ r.posted \in Seq(Nat \ {0})
      /\ r = RunnerShape(r.next, r.tasks, r.posted, r.closed)
  BY DEF LoadSound
<1>2. s = [r EXCEPT !.tasks[i].stage = stage]
  OBVIOUS
<1>3. /\ u \in T /\ u.stage = stage /\ u.result = t.result
      /\ u.root = t.root /\ u.path = t.path /\ u.callback = t.callback /\ u.token = t.token
  <2> HIDE DEF t
  <2> QED BY <1>1, StageTask
<1>4. s = RunnerShape(r.next, tasks, r.posted, r.closed)
  <2> HIDE DEF tasks
  <2> QED BY <1>1 DEF RunnerShape
<1> HIDE DEF u, s
<1>5. Progress(r, s, T) /\ Changed(r, s, i, u.stage, u.result, r.posted)
  BY <1>1, <1>3, <1>4, TaskChanges
<1> QED BY <1>2, <1>3, <1>5

\* The emit, in the thread.
LEMMA PostedSound ==
  ASSUME NEW T, Closed(T), Shaped(T), NEW r, LoadSound(r, T), NEW i \in DOMAIN r.tasks
  PROVE  /\ Progress(r, Posted(r, i), T)
         /\ Changed(r, Posted(r, i), i, "posted", r.tasks[i].result, Append(r.posted, i))
<1> DEFINE t == r.tasks[i]
           stage == "posted"
           u == [t EXCEPT !.stage = stage]
           tasks == [r.tasks EXCEPT ![i] = u]
           posted == Append(r.posted, i)
           p == [r EXCEPT !.tasks = tasks]
           s == [p EXCEPT !.posted = posted]
<1>1. /\ t \in T /\ r.posted \in Seq(Nat \ {0}) /\ i \in Nat \ {0}
      /\ r = RunnerShape(r.next, r.tasks, r.posted, r.closed)
      /\ stage \in Stage
  BY DEF LoadSound, Stage
<1>2. Posted(r, i) = s
  BY DEF Posted
<1> HIDE DEF stage
<1>3. /\ u \in T /\ u.stage = stage /\ u.result = t.result
      /\ u.root = t.root /\ u.path = t.path /\ u.callback = t.callback /\ u.token = t.token
  <2> HIDE DEF t
  <2> QED BY <1>1, StageTask
<1>4. p = RunnerShape(r.next, tasks, r.posted, r.closed)
  <2> HIDE DEF tasks
  <2> QED BY <1>1 DEF RunnerShape
<1>5. posted \in Seq(Nat \ {0})
  BY <1>1
<1> HIDE DEF p, posted
<1>6. s = RunnerShape(r.next, tasks, posted, r.closed)
  <2> HIDE DEF tasks
  <2> QED BY <1>4 DEF RunnerShape
<1> HIDE DEF u, s
<1>7. Progress(r, s, T) /\ Changed(r, s, i, u.stage, u.result, posted)
  BY <1>3, <1>5, <1>6, TaskChanges
<1> QED BY <1>2, <1>3, <1>7 DEF posted, stage

\* The function of a task returned; a task that was cancelled ends here.
LEMMA LoadedSound ==
  ASSUME NEW T, Closed(T), Shaped(T), NEW r, LoadSound(r, T), NEW i \in DOMAIN r.tasks,
         NEW result,
         LET t == r.tasks[i] IN TaskShape(t.root, t.path, "unstopped", t.callback, t.token, result) \in T
  PROVE  LET s == Loaded(r, i, result)
         IN  /\ Progress(r, s, T)
             /\ IF r.tasks[i].token THEN Dropped(r, s, i, r.posted)
                                    ELSE Changed(r, s, i, "unstopped", result, r.posted)
<1> DEFINE t == r.tasks[i]
           stage == "unstopped"
           o == [t EXCEPT !.stage = stage]
           u == [o EXCEPT !.result = result]
           tasks == [r.tasks EXCEPT ![i] = u]
           s == [r EXCEPT !.tasks = tasks]
<1>1. CASE t.token
  <2>1. \A root, path : ~Awaited(r, i, root, path)
    BY <1>1 DEF Awaited
  <2>2. Loaded(r, i, result) = Without(r, i)
    BY <1>1 DEF Loaded
  <2> HIDE DEF t
  <2> QED BY <1>1, <2>1, <2>2, WithoutSound DEF Progress, t
<1>2. CASE ~t.token
  <2>1. /\ t \in T /\ r.posted \in Seq(Nat \ {0})
        /\ r = RunnerShape(r.next, r.tasks, r.posted, r.closed)
    BY DEF LoadSound
  <2>2. Loaded(r, i, result) = s
    BY <1>2 DEF Loaded
  <2>3. t = TaskShape(t.root, t.path, t.stage, t.callback, t.token, t.result)
    BY <2>1 DEF Shaped
  <2>a. TaskShape(t.root, t.path, stage, t.callback, t.token, result) \in T
    OBVIOUS
  <2> HIDE DEF stage
  <2>4. o = TaskShape(t.root, t.path, stage, t.callback, t.token, t.result)
    <3> HIDE DEF t
    <3> QED BY <2>3 DEF TaskShape
  <2> HIDE DEF o
  <2>5. u = TaskShape(t.root, t.path, stage, t.callback, t.token, result)
    <3> HIDE DEF t
    <3> QED BY <2>4 DEF TaskShape
  <2>6. /\ u \in T /\ u.stage = stage /\ u.result = result
        /\ u.root = t.root /\ u.path = t.path /\ u.callback = t.callback /\ u.token = t.token
    <3>1. u \in T
      BY <2>a, <2>5
    <3> HIDE DEF t, u
    <3> QED BY <2>5, <3>1 DEF TaskShape
  <2>7. s = RunnerShape(r.next, tasks, r.posted, r.closed)
    <3> HIDE DEF tasks
    <3> QED BY <2>1 DEF RunnerShape
  <2> HIDE DEF u, s
  <2>8. Progress(r, s, T) /\ Changed(r, s, i, u.stage, u.result, r.posted)
    BY <2>1, <2>6, <2>7, TaskChanges
  <2> QED BY <1>2, <2>2, <2>6, <2>8 DEF stage
<1> QED BY <1>1, <1>2

\* The function of a task raised: its callback, if it has one, stays.
LEMMA RaisedSound ==
  ASSUME NEW T, Closed(T), Shaped(T), NEW r, LoadSound(r, T), NEW i \in DOMAIN r.tasks
  PROVE  LET s == Raised(r, i)
         IN  /\ Progress(r, s, T)
             /\ \/ Dropped(r, s, i, r.posted)
                \/ Changed(r, s, i, "dead", r.tasks[i].result, r.posted)
<1>1. CASE ~r.tasks[i].callback
  <2>1. \A root, path : ~Awaited(r, i, root, path)
    BY <1>1 DEF Awaited
  <2>2. Raised(r, i) = Without(r, i)
    BY <1>1 DEF Raised
  <2> QED BY <2>1, <2>2, WithoutSound DEF Progress
<1>2. CASE r.tasks[i].callback
  <2> DEFINE stage == "dead"
  <2>1. Raised(r, i) = [r EXCEPT !.tasks[i].stage = stage] /\ stage \in Stage
    BY <1>2 DEF Raised, Stage
  <2> HIDE DEF stage
  <2>2. LET s == [r EXCEPT !.tasks[i].stage = stage]
        IN  Progress(r, s, T) /\ Changed(r, s, i, stage, r.tasks[i].result, r.posted)
    BY <2>1, StageSound
  <2> QED BY <2>1, <2>2 DEF stage
<1> QED BY <1>1, <1>2

\* A thread takes a task up.
LEMMA BeginSound ==
  ASSUME NEW T, Closed(T), Shaped(T), NEW r, LoadSound(r, T), NEW i \in DOMAIN r.tasks
  PROVE  /\ Progress(r, Begin(r, i), T)
         /\ Changed(r, Begin(r, i), i, "running", r.tasks[i].result, r.posted)
<1> DEFINE stage == "running"
<1>1. Begin(r, i) = [r EXCEPT !.tasks[i].stage = stage] /\ stage \in Stage
  BY DEF Begin, Stage
<1> HIDE DEF stage
<1>2. LET s == [r EXCEPT !.tasks[i].stage = stage]
      IN  Progress(r, s, T) /\ Changed(r, s, i, stage, r.tasks[i].result, r.posted)
  BY <1>1, StageSound
<1> QED BY <1>1, <1>2 DEF stage

\* The delivery of the signal posted first ends its task and no other.
LEMMA DeliveredSound ==
  ASSUME NEW T, Shaped(T), NEW r, LoadSound(r, T), r.posted # <<>>
  PROVE  LET s == Delivered(r)
         IN  /\ LoadSound(s, T) /\ s.next = r.next /\ s.closed = r.closed
             /\ Head(r.posted) \in Nat \ {0}
             /\ Dropped(r, s, Head(r.posted), Tail(r.posted))
             /\ \A j, root, path : j # Head(r.posted) /\ Awaited(r, j, root, path)
                    => Awaited(s, j, root, path)
<1> DEFINE posted == Tail(r.posted)
           p == [r EXCEPT !.posted = posted]
           i == Head(r.posted)
           s == Without(p, i)
<1>1. posted \in Seq(Nat \ {0}) /\ i \in Nat \ {0}
  BY DEF LoadSound
<1>2. Delivered(r) = s
  BY DEF Delivered
<1> HIDE DEF posted, i
<1>3. p = RunnerShape(r.next, r.tasks, posted, r.closed)
  BY DEF LoadSound, RunnerShape
<1> HIDE DEF p
<1>4. p.next = r.next /\ p.tasks = r.tasks /\ p.posted = posted /\ p.closed = r.closed
      /\ p = RunnerShape(p.next, p.tasks, p.posted, p.closed)
  BY <1>3 DEF RunnerShape
<1>5. LoadSound(p, T)
  BY <1>1, <1>4 DEF LoadSound
<1>6. \A j, root, path : Awaited(r, j, root, path) => Awaited(p, j, root, path)
  BY <1>4 DEF Awaited
<1>7. /\ LoadSound(s, T) /\ s.next = p.next /\ s.closed = p.closed
      /\ Dropped(p, s, i, p.posted)
      /\ \A j, root, path : j # i /\ Awaited(p, j, root, path) => Awaited(s, j, root, path)
  BY <1>5, WithoutSound
<1> HIDE DEF s
<1>8. Dropped(r, s, i, posted)
  BY <1>4, <1>7 DEF Dropped
<1> QED BY <1>1, <1>2, <1>4, <1>6, <1>7, <1>8 DEF i, posted

\* A signal that is queued is of a task that posted it, and what a thread is
\* about to emit, or has emitted, is an answer: a load that was cancelled ends
\* with its task.
Answers(r) ==
    /\ \A n \in DOMAIN r.posted :
          /\ r.posted[n] < r.next
          /\ r.posted[n] \in DOMAIN r.tasks => r.tasks[r.posted[n]].stage = "posted"
    /\ \A i \in DOMAIN r.tasks :
          r.tasks[i].stage \in {"unstopped", "posted"} => r.tasks[i].result.status # "cancelled"

LEMMA AnswersNew == Answers(NewRunner)
<1>1. DOMAIN NewRunner.posted = {} /\ DOMAIN NewRunner.tasks = {}
  BY DEF NewRunner
<1> QED BY <1>1 DEF Answers

\* A task that is only queued.
LEMMA AnswersSubmit ==
  ASSUME NEW T, NEW r, LoadSound(r, T), Answers(r), NEW s, s.next = r.next + 1,
         s.posted = r.posted, DOMAIN s.tasks = DOMAIN r.tasks \cup {r.next},
         s.tasks[r.next].stage = "queued", \A i \in DOMAIN r.tasks : s.tasks[i] = r.tasks[i]
  PROVE  Answers(s)
<1>1. r.next \in Nat /\ \A n \in DOMAIN r.posted : r.posted[n] \in Nat
  BY DEF LoadSound
<1>2. ASSUME NEW n \in DOMAIN s.posted
      PROVE  /\ s.posted[n] < s.next
             /\ s.posted[n] \in DOMAIN s.tasks => s.tasks[s.posted[n]].stage = "posted"
  BY <1>1 DEF Answers
<1> QED BY <1>2 DEF Answers

\* cancel_all, shutdown.
LEMMA AnswersCancelled ==
  ASSUME NEW r, Answers(r), NEW s, s.next = r.next, Cancelled(r, s)
  PROVE  Answers(s)
BY DEF Answers, Cancelled

\* A task that ends; the signal delivered, if it was one.
LEMMA AnswersDropped ==
  ASSUME NEW T, NEW r, LoadSound(r, T), Answers(r), NEW s, s.next = r.next, NEW i,
         \/ Dropped(r, s, i, r.posted)
         \/ r.posted # <<>> /\ Dropped(r, s, i, Tail(r.posted))
  PROVE  Answers(s)
<1>1. r.posted \in Seq(Nat \ {0})
  BY DEF LoadSound
<1>2. \A n \in DOMAIN s.posted : \E m \in DOMAIN r.posted : s.posted[n] = r.posted[m]
  <2>1. CASE s.posted = r.posted
    BY <2>1
  <2>2. CASE r.posted # <<>> /\ s.posted = Tail(r.posted)
    <3>1. \A n \in DOMAIN Tail(r.posted) :
             n + 1 \in DOMAIN r.posted /\ Tail(r.posted)[n] = r.posted[n + 1]
      BY <1>1, <2>2
    <3> QED BY <2>2, <3>1
  <2> QED BY <2>1, <2>2 DEF Dropped
<1>3. DOMAIN s.tasks \subseteq DOMAIN r.tasks /\ \A j \in DOMAIN s.tasks : s.tasks[j] = r.tasks[j]
  BY DEF Dropped
<1> QED BY <1>2, <1>3 DEF Answers

\* A task on its next stage.
LEMMA AnswersChanged ==
  ASSUME NEW T, NEW r, LoadSound(r, T), Answers(r), NEW i \in DOMAIN r.tasks, NEW s,
         s.next = r.next, r.tasks[i].stage # "posted", NEW stage, NEW result, NEW posted,
         Changed(r, s, i, stage, result, posted),
         stage \in {"unstopped", "posted"} => result.status # "cancelled",
         posted = r.posted \/ (stage = "posted" /\ posted = Append(r.posted, i))
  PROVE  Answers(s)
<1>1. r.posted \in Seq(Nat \ {0}) /\ i < r.next
  BY DEF LoadSound
<1>2. \A n \in DOMAIN s.posted : \/ \E m \in DOMAIN r.posted : s.posted[n] = r.posted[m]
                                 \/ s.posted[n] = i /\ stage = "posted"
  <2>1. CASE posted = r.posted
    BY <2>1 DEF Changed
  <2>2. CASE stage = "posted" /\ posted = Append(r.posted, i)
    <3>1. \A n \in DOMAIN Append(r.posted, i) :
             \/ n \in DOMAIN r.posted /\ Append(r.posted, i)[n] = r.posted[n]
             \/ Append(r.posted, i)[n] = i
      BY <1>1
    <3> QED BY <2>2, <3>1 DEF Changed
  <2> QED BY <2>1, <2>2
<1>3. ASSUME NEW n \in DOMAIN s.posted
      PROVE  /\ s.posted[n] < s.next
             /\ s.posted[n] \in DOMAIN s.tasks => s.tasks[s.posted[n]].stage = "posted"
  <2>1. CASE \E m \in DOMAIN r.posted : s.posted[n] = r.posted[m]
    BY <2>1 DEF Answers, Changed
  <2>2. CASE s.posted[n] = i /\ stage = "posted"
    BY <1>1, <2>2 DEF Changed
  <2> QED BY <1>2, <2>1, <2>2
<1>4. \A j \in DOMAIN s.tasks :
         s.tasks[j].stage \in {"unstopped", "posted"} => s.tasks[j].result.status # "cancelled"
  BY DEF Answers, Changed
<1> QED BY <1>3, <1>4 DEF Answers

-----------------------------------------------------------------------------
(* The preview (controllers/workspace_document_controller.py).              *)

\* What a preview may show: a regular text file within the limit.
Shown(file) == file.kind = "regular" /\ file.bytes = "text" /\ file.size <= PreviewLimit

LoadResult == [status : DocumentStatus, file : File]

LoadTasks ==
    {t \in TaskOf(Seq(Names), LoadResult) : t.result.status = "ready" => Shown(t.result.file)}

PreviewShape(root, state, selected, text, pending, loads) ==
    [root |-> root, state |-> state, selected |-> selected, text |-> text, pending |-> pending,
     loads |-> loads]

TextOf(d) ==
    IF d.state = "ready"
    THEN d.text.root = d.root /\ d.text.path = d.selected /\ Shown(d.text.file)
    ELSE d.text = NoText

\* The preview of workspace w: it waits for its own request, of the root and
\* the path it has selected, and shows what such a request found.
PreviewSound(d, w) ==
    /\ d = PreviewShape(d.root, d.state, d.selected, d.text, d.pending, d.loads)
    /\ d.root = w /\ w \in Roots
    /\ LoadSound(d.loads, LoadTasks)
    /\ d.state \in {"idle", "loading", "ready", "unsupported", "error"}
    /\ d.selected \in Seq(Names) \cup {NoPath}
    /\ d.pending \in Nat
    /\ d.pending # 0 => Awaited(d.loads, d.pending, w, d.selected)
    /\ d.loads.closed => d.pending = 0
    /\ TextOf(d)

\* It says that it is loading exactly while it waits.
PreviewWaits(d) ==
    /\ Answers(d.loads)
    /\ ~d.loads.closed => (d.state = "loading" <=> d.pending # 0)

\* See Closed, Shaped: a loading task keeps its root, its path and its result.
LEMMA LoadTasksClosed == Closed(LoadTasks) /\ Shaped(LoadTasks)
<1>1. ASSUME NEW t \in LoadTasks
      PROVE  /\ t = TaskShape(t.root, t.path, t.stage, t.callback, t.token, t.result)
             /\ t.root \in Workspaces /\ t.path \in Seq(Names) /\ t.stage \in Stage
             /\ t.callback \in BOOLEAN /\ t.token \in BOOLEAN /\ t.result \in LoadResult
             /\ t.result.status = "ready" => Shown(t.result.file)
  BY DEF LoadTasks, TaskOf, TaskShape
<1>2. ASSUME NEW root \in Workspaces, NEW path \in Seq(Names), NEW stage \in Stage,
             NEW callback \in BOOLEAN, NEW token \in BOOLEAN, NEW result \in LoadResult,
             result.status = "ready" => Shown(result.file)
      PROVE  TaskShape(root, path, stage, callback, token, result) \in LoadTasks
  <2> DEFINE t == TaskShape(root, path, stage, callback, token, result)
  <2>1. t \in TaskOf(Seq(Names), LoadResult)
    BY DEF TaskShape, TaskOf
  <2>2. t.result = result
    BY DEF TaskShape
  <2> HIDE DEF t
  <2>3. t \in LoadTasks
    BY <1>2, <2>1, <2>2 DEF LoadTasks
  <2> QED BY <2>3 DEF t
<1>3. Shaped(LoadTasks)
  BY <1>1 DEF Shaped
<1>4. Closed(LoadTasks)
  BY <1>1, <1>2 DEF Closed
<1> QED BY <1>3, <1>4

\* load_document_preview answers "ready" for a regular text file within the
\* limit only, whatever took its place between its three looks.
LEMMA ResultsShown ==
  ASSUME NEW result \in PreviewResults
  PROVE  result \in LoadResult /\ (result.status = "ready" => Shown(result.file))
<1>0. PreviewLimit \in Nat
  BY PreviewAssumption
<1>1. ASSUME NEW status \in DocumentStatus, status # "ready"
      PROVE  /\ Answer(status) \in LoadResult
             /\ Answer(status).status # "ready"
  BY <1>0, <1>1 DEF Answer, LoadResult, NoFile, File, Sizes
<1>2. ASSUME NEW before \in File, NEW opened \in File, NEW final \in File
      PROVE  LET answer == LoadDocumentPreview(before, opened, final)
             IN  answer \in LoadResult /\ (answer.status = "ready" => Shown(answer.file))
  <2> DEFINE status ==
               IF before.kind = "missing" THEN "error"
               ELSE IF before.kind # "regular" \/ before.size > PreviewLimit THEN "unsupported"
               ELSE IF opened.kind = "missing" THEN "error"
               ELSE IF opened.kind # "regular" \/ opened.size > PreviewLimit THEN "unsupported"
               ELSE ClassifyPayload(ReadLimited(final), final.bytes)
             size == ReadLimited(final)
             file == [kind |-> opened.kind, size |-> size,
                      bytes |-> IF size = 0 THEN "text" ELSE final.bytes]
             answer == LoadDocumentPreview(before, opened, final)
  <2>1. answer = IF status # "ready" THEN Answer(status) ELSE [status |-> status, file |-> file]
    BY DEF LoadDocumentPreview
  <2>2. size \in Sizes /\ size \in Nat
    BY <1>0 DEF ReadLimited, File, Sizes
  <2>3. status \in DocumentStatus
    BY DEF DocumentStatus, ClassifyPayload
  <2>4. ASSUME status = "ready"
        PROVE  opened.kind = "regular" /\ size <= PreviewLimit /\ (size = 0 \/ final.bytes = "text")
    BY <1>0, <2>2, <2>4 DEF ClassifyPayload
  <2>5. file \in File
    BY <2>2 DEF File
  <2>6. status = "ready" => Shown(file)
    <3> HIDE DEF status, size
    <3> QED BY <2>4 DEF Shown
  <2>7. CASE status # "ready"
    <3> HIDE DEF status, answer
    <3> QED BY <1>1, <2>1, <2>3, <2>7 DEF answer
  <2>8. CASE status = "ready"
    <3> HIDE DEF status, file, answer
    <3>1. answer \in LoadResult /\ answer.file = file
      BY <2>1, <2>3, <2>5, <2>8 DEF LoadResult
    <3> QED BY <2>6, <2>8, <3>1 DEF answer
  <2> QED BY <2>7, <2>8
<1>3. "error" \in DocumentStatus /\ "cancelled" \in DocumentStatus
  BY DEF DocumentStatus
<1>4. CASE \E before, opened, final \in File : result = LoadDocumentPreview(before, opened, final)
  BY <1>2, <1>4
<1>5. CASE result \in {Answer("error"), Answer("cancelled")}
  BY <1>1, <1>3, <1>5
<1> QED BY <1>4, <1>5 DEF PreviewResults, NotLoaded

\* The fields of a preview that waits for nothing.
LEMMA IdlePreview ==
  ASSUME NEW w \in Roots, NEW state \in {"idle", "error", "unsupported", "loading", "ready"},
         NEW selected \in Seq(Names) \cup {NoPath}, NEW text, NEW loads, LoadSound(loads, LoadTasks),
         IF state = "ready"
         THEN text.root = w /\ text.path = selected /\ Shown(text.file)
         ELSE text = NoText
  PROVE  PreviewSound(PreviewShape(w, state, selected, text, 0, loads), w)
<1> DEFINE d == PreviewShape(w, state, selected, text, 0, loads)
<1>1. /\ d.root = w /\ d.state = state /\ d.selected = selected /\ d.text = text
      /\ d.pending = 0 /\ d.loads = loads
      /\ d = PreviewShape(d.root, d.state, d.selected, d.text, d.pending, d.loads)
  BY DEF PreviewShape
<1> HIDE DEF d
<1> QED BY <1>1 DEF PreviewSound, TextOf, d

\* cancel(): the row of the preview stays, its request does not.
LEMMA CancelPreviewShape ==
  ASSUME NEW d, d = PreviewShape(d.root, d.state, d.selected, d.text, d.pending, d.loads)
  PROVE  CancelPreview(d)
           = PreviewShape(d.root, d.state, d.selected, d.text, 0, CancelAll(d.loads))
<1> DEFINE cancelled == CancelAll(d.loads)
           p == [d EXCEPT !.pending = 0]
           q == [p EXCEPT !.loads = cancelled]
<1>1. CancelPreview(d) = q
  BY DEF CancelPreview
<1> HIDE DEF cancelled
<1>2. p = PreviewShape(d.root, d.state, d.selected, d.text, 0, d.loads)
  BY DEF PreviewShape
<1> HIDE DEF p
<1>3. q = PreviewShape(d.root, d.state, d.selected, d.text, 0, cancelled)
  BY <1>2 DEF PreviewShape
<1> QED BY <1>1, <1>3 DEF cancelled

\* _clear_state.
LEMMA ClearStateShape ==
  ASSUME NEW d, d = PreviewShape(d.root, d.state, d.selected, d.text, d.pending, d.loads)
  PROVE  ClearState(d) = PreviewShape(d.root, "idle", NoPath, NoText, 0, CancelAll(d.loads))
<1> DEFINE cancelled == CancelAll(d.loads)
           idle == "idle"
           none == NoText
           c == CancelPreview(d)
           p == [c EXCEPT !.selected = NoPath]
           q == [p EXCEPT !.text = none]
           r == [q EXCEPT !.state = idle]
<1>1. ClearState(d) = r
  BY DEF ClearState
<1>2. c = PreviewShape(d.root, d.state, d.selected, d.text, 0, cancelled)
  BY CancelPreviewShape
<1> HIDE DEF cancelled, idle, none, c
<1>3. p = PreviewShape(d.root, d.state, NoPath, d.text, 0, cancelled)
  BY <1>2 DEF PreviewShape
<1> HIDE DEF p
<1>4. q = PreviewShape(d.root, d.state, NoPath, none, 0, cancelled)
  BY <1>3 DEF PreviewShape
<1> HIDE DEF q
<1>5. r = PreviewShape(d.root, idle, NoPath, none, 0, cancelled)
  BY <1>4 DEF PreviewShape
<1> QED BY <1>1, <1>5 DEF cancelled, idle, none

\* Nothing is selected, of whatever workspace (clear, _sync_workspace).
LEMMA ClearStateSound ==
  ASSUME NEW d, d = PreviewShape(d.root, d.state, d.selected, d.text, d.pending, d.loads),
         d.root \in Roots, LoadSound(d.loads, LoadTasks)
  PROVE  /\ PreviewSound(ClearState(d), d.root)
         /\ ClearState(d).loads.next = d.loads.next /\ ClearState(d).loads.closed = d.loads.closed
         /\ Answers(d.loads) => PreviewWaits(ClearState(d))
<1> DEFINE l == CancelAll(d.loads)
           c == PreviewShape(d.root, "idle", NoPath, NoText, 0, l)
<1>1. /\ LoadSound(l, LoadTasks) /\ l.next = d.loads.next /\ l.closed = d.loads.closed
      /\ Cancelled(d.loads, l)
  BY CancelAllSound, LoadTasksClosed
<1>2. c.loads = l /\ c.state = "idle" /\ c.pending = 0
  BY DEF PreviewShape
<1>a. Answers(d.loads) => Answers(l)
  BY <1>1, AnswersCancelled
<1> HIDE DEF l
<1>3. PreviewSound(c, d.root)
  BY <1>1, IdlePreview
<1>4. ClearState(d) = c
  BY ClearStateShape DEF l
<1> HIDE DEF c
<1> QED BY <1>1, <1>2, <1>3, <1>4, <1>a DEF PreviewWaits

\* The preview follows the workspace (_on_agent_state_changed).
LEMMA SyncPreviewSound ==
  ASSUME NEW w \in Roots, NEW v \in Roots, NEW d, PreviewSound(d, v)
  PROVE  LET e == SyncPreview(d, w)
         IN  /\ PreviewSound(e, w)
             /\ e.loads.next = d.loads.next /\ e.loads.closed = d.loads.closed
             /\ PreviewWaits(d) => PreviewWaits(e)
<1>1. CASE w = d.root
  BY <1>1 DEF SyncPreview, PreviewSound
<1>2. CASE w # d.root
  <2> DEFINE e == [d EXCEPT !.root = w]
  <2>1. e = PreviewShape(w, d.state, d.selected, d.text, d.pending, d.loads)
    BY DEF PreviewSound, PreviewShape
  <2>2. SyncPreview(d, w) = ClearState(e)
    BY <1>2 DEF SyncPreview
  <2> HIDE DEF e
  <2>3. e = PreviewShape(e.root, e.state, e.selected, e.text, e.pending, e.loads)
        /\ e.root = w /\ e.loads = d.loads
    BY <2>1 DEF PreviewShape
  <2>4. LoadSound(d.loads, LoadTasks)
    BY DEF PreviewSound
  <2>5. /\ PreviewSound(ClearState(e), e.root)
        /\ ClearState(e).loads.next = e.loads.next /\ ClearState(e).loads.closed = e.loads.closed
        /\ Answers(e.loads) => PreviewWaits(ClearState(e))
    BY <2>3, <2>4, ClearStateSound
  <2>6. PreviewWaits(d) => Answers(e.loads)
    BY <2>3 DEF PreviewWaits
  <2> QED BY <2>2, <2>3, <2>5, <2>6
<1> QED BY <1>1, <1>2

\* A new preview, as main.py makes it.
LEMMA NewPreviewSound ==
  /\ PreviewSound(NewPreview, NoWorkspace)
  /\ NewPreview.loads.next = 1 /\ NewPreview.loads.closed = FALSE
  /\ PreviewWaits(NewPreview)
<1> DEFINE loads == NewRunner
           text == NoText
           d == PreviewShape(NoWorkspace, "idle", NoPath, text, 0, loads)
<1>1. LoadSound(loads, LoadTasks) /\ loads.next = 1 /\ loads.closed = FALSE /\ Answers(loads)
  BY NewRunnerSound, AnswersNew DEF NewRunner
<1>2. NewPreview = d
  BY DEF NewPreview, PreviewShape
<1>3. text = NoText
  OBVIOUS
<1> HIDE DEF loads, text
<1>4. d.loads = loads /\ d.state = "idle" /\ d.pending = 0
  BY DEF PreviewShape
<1>5. PreviewSound(d, NoWorkspace)
  BY <1>1, <1>3, IdlePreview DEF Roots
<1> HIDE DEF d
<1> QED BY <1>1, <1>2, <1>4, <1>5 DEF PreviewWaits

\* A request for path: the preview waits for it and shows nothing meanwhile
\* (_start_load).
LEMMA StartLoadSound ==
  ASSUME NEW w \in Workspaces, NEW d, PreviewSound(d, w), NEW path \in Seq(Names)
  PROVE  LET e == StartLoad(d, path)
         IN  /\ PreviewSound(e, w)
             /\ e.loads.next \in {d.loads.next, d.loads.next + 1}
             /\ e.loads.closed = d.loads.closed
             /\ PreviewWaits(d) => PreviewWaits(e)
<1> DEFINE l == CancelAll(d.loads)
           n == d.loads.next
           none == NoText
           loading == "loading"
           failed == "error"
           m == Submit(l, w, path, NotLoaded)
           e == StartLoad(d, path)
<1>1. /\ d = PreviewShape(w, d.state, d.selected, d.text, d.pending, d.loads)
      /\ LoadSound(d.loads, LoadTasks) /\ w \in Roots /\ d.root = w
  BY DEF PreviewSound
<1>2. /\ LoadSound(l, LoadTasks) /\ l.next = n /\ l.closed = d.loads.closed /\ n \in Nat \ {0}
      /\ Cancelled(d.loads, l)
  BY <1>1, CancelAllSound, LoadTasksClosed DEF LoadSound
<1>b. PreviewWaits(d) => Answers(l)
  BY <1>2, AnswersCancelled DEF PreviewWaits
<1>3. NewTask(w, path, NotLoaded) \in LoadTasks
  <2> DEFINE t == NewTask(w, path, NotLoaded)
  <2>1. NotLoaded \in LoadResult /\ NotLoaded.status = "cancelled"
    BY PreviewAssumption
    DEF NotLoaded, Answer, LoadResult, DocumentStatus, NoFile, File, Sizes
  <2>2. t.result = NotLoaded /\ t \in TaskOf(Seq(Names), LoadResult)
    BY <2>1 DEF NewTask, TaskOf, Stage
  <2> HIDE DEF t
  <2> QED BY <2>1, <2>2 DEF LoadTasks, t
<1> DEFINE a == [d EXCEPT !.loads = l]
           b == [a EXCEPT !.pending = n]
           c == [b EXCEPT !.selected = path]
           f == [c EXCEPT !.text = none]
           g == [f EXCEPT !.state = loading]
           h == [g EXCEPT !.pending = 0]
           u == [h EXCEPT !.state = failed]
           x == Submit(g.loads, w, path, NotLoaded)
           v == [g EXCEPT !.loads = x]
<1>4. e = IF d.loads.closed THEN u ELSE v
  BY <1>1 DEF StartLoad
<1>5. loading = "loading" /\ failed = "error" /\ none = NoText
  OBVIOUS
<1> HIDE DEF l, n, none, loading, failed, e, u, v
<1>6. a = PreviewShape(w, d.state, d.selected, d.text, d.pending, l)
  BY <1>1 DEF PreviewShape
<1> HIDE DEF a
<1>7. b = PreviewShape(w, d.state, d.selected, d.text, n, l)
  BY <1>6 DEF PreviewShape
<1> HIDE DEF b
<1>8. c = PreviewShape(w, d.state, path, d.text, n, l)
  BY <1>7 DEF PreviewShape
<1> HIDE DEF c
<1>9. f = PreviewShape(w, d.state, path, none, n, l)
  BY <1>8 DEF PreviewShape
<1> HIDE DEF f
<1>10. g = PreviewShape(w, loading, path, none, n, l)
  BY <1>9 DEF PreviewShape
<1> HIDE DEF g
<1>11. h = PreviewShape(w, loading, path, none, 0, l)
  BY <1>10 DEF PreviewShape
<1>12. g.loads = l
  BY <1>10 DEF PreviewShape
<1> HIDE DEF h
<1>13. u = PreviewShape(w, failed, path, none, 0, l)
  BY <1>11 DEF PreviewShape, u
<1>14. x = m
  BY <1>12
<1> HIDE DEF x, m
<1>15. v = PreviewShape(w, loading, path, none, n, m)
  BY <1>10, <1>14 DEF PreviewShape, v
<1>16. CASE d.loads.closed
  <2>1. PreviewSound(PreviewShape(w, failed, path, none, 0, l), w)
    BY <1>1, <1>2, <1>5, IdlePreview
  <2>2. PreviewShape(w, failed, path, none, 0, l).loads = l
    BY DEF PreviewShape
  <2>3. PreviewWaits(d) => PreviewWaits(PreviewShape(w, failed, path, none, 0, l))
    BY <1>2, <1>16, <1>b, <2>2 DEF PreviewWaits
  <2> QED BY <1>2, <1>4, <1>13, <1>16, <2>1, <2>2, <2>3 DEF e, n
<1>17. CASE ~d.loads.closed
  <2>1. /\ LoadSound(m, LoadTasks) /\ m.next = n + 1 /\ m.closed = l.closed
        /\ Awaited(m, n, w, path)
        /\ m.posted = l.posted /\ DOMAIN m.tasks = DOMAIN l.tasks \cup {n}
        /\ m.tasks[n].stage = "queued"
        /\ \A i \in DOMAIN l.tasks : m.tasks[i] = l.tasks[i]
    BY <1>2, <1>3, SubmitSound DEF m
  <2>a. PreviewWaits(d) => Answers(m)
    BY <1>2, <1>b, <2>1, AnswersSubmit
  <2>2. /\ v.root = w /\ v.state = loading /\ v.selected = path /\ v.text = none
        /\ v.pending = n /\ v.loads = m
        /\ v = PreviewShape(v.root, v.state, v.selected, v.text, v.pending, v.loads)
    BY <1>15 DEF PreviewShape
  <2>3. PreviewSound(v, w)
    BY <1>1, <1>2, <1>5, <1>17, <2>1, <2>2 DEF PreviewSound, TextOf
  <2>4. PreviewWaits(d) => PreviewWaits(v)
    BY <1>2, <1>5, <2>2, <2>a DEF PreviewWaits
  <2> QED BY <1>2, <1>4, <1>17, <2>1, <2>2, <2>3, <2>4 DEF e, n
<1> QED BY <1>16, <1>17

\* open_path, from the tree.
LEMMA OpenPathSound ==
  ASSUME NEW w \in Roots, NEW d, PreviewSound(d, w), NEW path \in Seq(Names)
  PROVE  LET e == OpenPath(d, path, w)
         IN  /\ PreviewSound(e, w)
             /\ e.loads.next \in {d.loads.next, d.loads.next + 1}
             /\ e.loads.closed = d.loads.closed
             /\ PreviewWaits(d) => PreviewWaits(e)
<1>1. SyncPreview(d, w) = d /\ d.root = w
  BY DEF SyncPreview, PreviewSound
<1>2. CASE w = NoWorkspace
  BY <1>1, <1>2 DEF OpenPath
<1>3. CASE w # NoWorkspace
  <2>1. w \in Workspaces /\ OpenPath(d, path, w) = StartLoad(d, path)
    BY <1>1, <1>3 DEF OpenPath, Roots
  <2> QED BY <2>1, StartLoadSound
<1> QED BY <1>2, <1>3

\* reload.
LEMMA ReloadSound ==
  ASSUME NEW w \in Roots, NEW d, PreviewSound(d, w), CanReload(d)
  PROVE  LET e == Reload(d)
         IN  /\ PreviewSound(e, w)
             /\ e.loads.next \in {d.loads.next, d.loads.next + 1}
             /\ e.loads.closed = d.loads.closed
             /\ PreviewWaits(d) => PreviewWaits(e)
<1>1. w \in Workspaces /\ d.selected \in Seq(Names)
  BY DEF CanReload, PreviewSound, Roots
<1> QED BY <1>1, StartLoadSound DEF Reload

\* cancel() and shutdown() of the runner, when the last window is closed.
LEMMA ClosePreviewSound ==
  ASSUME NEW w \in Roots, NEW d, PreviewSound(d, w), NEW e,
         e = [CancelPreview(d) EXCEPT !.loads = Shutdown(@)]
  PROVE  /\ PreviewSound(e, w) /\ e.loads.next = d.loads.next /\ e.loads.closed = TRUE
         /\ PreviewWaits(d) => PreviewWaits(e)
<1> DEFINE c == CancelPreview(d)
           l == CancelAll(d.loads)
           m == Shutdown(l)
           f == [c EXCEPT !.loads = m]
<1>1. /\ d = PreviewShape(d.root, d.state, d.selected, d.text, d.pending, d.loads)
      /\ LoadSound(d.loads, LoadTasks) /\ d.root = w
      /\ d.state \in {"idle", "error", "unsupported", "loading", "ready"}
      /\ d.selected \in Seq(Names) \cup {NoPath}
      /\ IF d.state = "ready"
         THEN d.text.root = w /\ d.text.path = d.selected /\ Shown(d.text.file)
         ELSE d.text = NoText
  BY DEF PreviewSound, TextOf
<1>2. LoadSound(l, LoadTasks) /\ l.next = d.loads.next /\ Cancelled(d.loads, l)
  BY <1>1, CancelAllSound, LoadTasksClosed
<1>3. c = PreviewShape(w, d.state, d.selected, d.text, 0, l)
  BY <1>1, CancelPreviewShape
<1>4. e = [c EXCEPT !.loads = Shutdown(c.loads)]
  OBVIOUS
<1> HIDE DEF c, l
<1>5. c.loads = l
  BY <1>3 DEF PreviewShape
<1>6. e = f
  BY <1>4, <1>5
<1>7. LoadSound(m, LoadTasks) /\ m.next = l.next /\ m.closed = TRUE /\ Cancelled(l, m)
  BY <1>2, ShutdownSound, LoadTasksClosed
<1>a. PreviewWaits(d) => Answers(m)
  BY <1>2, <1>7, AnswersCancelled DEF PreviewWaits
<1> HIDE DEF m
<1>8. f = PreviewShape(w, d.state, d.selected, d.text, 0, m)
  BY <1>3 DEF PreviewShape
<1> HIDE DEF f
<1>9. PreviewSound(f, w)
  <2> DEFINE state == d.state
             selected == d.selected
             text == d.text
  <2>1. /\ state \in {"idle", "error", "unsupported", "loading", "ready"}
        /\ selected \in Seq(Names) \cup {NoPath}
        /\ IF state = "ready"
           THEN text.root = w /\ text.path = selected /\ Shown(text.file)
           ELSE text = NoText
    BY <1>1
  <2>2. f = PreviewShape(w, state, selected, text, 0, m)
    BY <1>8
  <2> HIDE DEF state, selected, text
  <2>3. PreviewSound(PreviewShape(w, state, selected, text, 0, m), w)
    BY <1>7, <2>1, IdlePreview
  <2> QED BY <2>2, <2>3
<1>10. f.loads = m
  BY <1>8 DEF PreviewShape
<1> QED BY <1>2, <1>6, <1>7, <1>9, <1>10, <1>a DEF PreviewWaits

\* The threads take nothing from a preview.
LEMMA PreviewProgress ==
  ASSUME NEW w, NEW d, PreviewSound(d, w), NEW loads, Progress(d.loads, loads, LoadTasks), NEW e,
         e = PreviewShape(d.root, d.state, d.selected, d.text, d.pending, loads)
  PROVE  /\ PreviewSound(e, w)
         /\ e.loads.next = d.loads.next /\ e.loads.closed = d.loads.closed
         /\ PreviewWaits(d) /\ Answers(loads) => PreviewWaits(e)
<1>1. d = PreviewShape(d.root, d.state, d.selected, d.text, d.pending, d.loads)
  BY DEF PreviewSound
<1>2. e = PreviewShape(d.root, d.state, d.selected, d.text, d.pending, loads)
  OBVIOUS
<1>3. /\ e.root = d.root /\ e.state = d.state /\ e.selected = d.selected /\ e.text = d.text
      /\ e.pending = d.pending /\ e.loads = loads
      /\ e = PreviewShape(e.root, e.state, e.selected, e.text, e.pending, e.loads)
  BY <1>2 DEF PreviewShape
<1>4. PreviewSound(e, w)
  BY <1>3 DEF PreviewSound, TextOf, Progress, AwaitsStill
<1> QED BY <1>3, <1>4 DEF PreviewWaits, Progress

\* The answer of a load reaches the preview that waits for it, and is dropped
\* otherwise (_on_load_result).
LEMMA DeliverLoadSound ==
  ASSUME NEW w, NEW d, PreviewSound(d, w), d.loads.posted # <<>>
  PROVE  LET e == DeliverLoad(d)
         IN  /\ PreviewSound(e, w)
             /\ e.loads.next = d.loads.next /\ e.loads.closed = d.loads.closed
             /\ PreviewWaits(d) => PreviewWaits(e)
<1> DEFINE id == Head(d.loads.posted)
           task == d.loads.tasks[id]
           l == Delivered(d.loads)
           c == [d EXCEPT !.loads = l]
           e == DeliverLoad(d)
<1>1. /\ d = PreviewShape(d.root, d.state, d.selected, d.text, d.pending, d.loads)
      /\ LoadSound(d.loads, LoadTasks) /\ d.root = w /\ w \in Roots
      /\ d.pending # 0 => Awaited(d.loads, d.pending, w, d.selected)
      /\ d.loads.closed => d.pending = 0
  BY DEF PreviewSound
<1>2. /\ LoadSound(l, LoadTasks) /\ l.next = d.loads.next /\ l.closed = d.loads.closed
      /\ id \in Nat \ {0} /\ Dropped(d.loads, l, id, Tail(d.loads.posted))
      /\ \A j, root, path : j # id /\ Awaited(d.loads, j, root, path) => Awaited(l, j, root, path)
  BY <1>1, DeliveredSound, LoadTasksClosed
<1>a. PreviewWaits(d) => Answers(l)
  BY <1>1, <1>2, AnswersDropped DEF PreviewWaits
<1>3. e = IF CallsBack(d.loads) THEN OnLoadResult(c, id, task) ELSE c
  BY DEF DeliverLoad
<1> HIDE DEF l
<1>4. c = PreviewShape(w, d.state, d.selected, d.text, d.pending, l)
  BY <1>1 DEF PreviewShape
<1> HIDE DEF c
<1>5. /\ c.root = w /\ c.state = d.state /\ c.selected = d.selected /\ c.text = d.text
      /\ c.pending = d.pending /\ c.loads = l
      /\ c = PreviewShape(c.root, c.state, c.selected, c.text, c.pending, c.loads)
  BY <1>4 DEF PreviewShape
<1>6. d.pending # id => PreviewSound(c, w)
  BY <1>1, <1>2, <1>5 DEF PreviewSound, TextOf
<1>7. CASE d.pending # id
  <2>1. e = c
    BY <1>3, <1>5, <1>7, Zenon DEF OnLoadResult
  <2>2. PreviewWaits(d) => PreviewWaits(c)
    BY <1>2, <1>5, <1>a DEF PreviewWaits
  <2> QED BY <1>2, <1>5, <1>6, <1>7, <2>1, <2>2 DEF e
<1>8. CASE d.pending = id
  <2>1. /\ Awaited(d.loads, id, w, d.selected) /\ CallsBack(d.loads)
        /\ task.root = w /\ task.path = d.selected
        /\ w \in Workspaces /\ task \in LoadTasks
    BY <1>1, <1>2, <1>8 DEF Awaited, CallsBack, LoadSound, LoadTasks, TaskOf
  <2>a. PreviewWaits(d) => task.result.status # "cancelled"
    <3>1. d.loads.posted \in Seq(Nat \ {0}) /\ 1 \in DOMAIN d.loads.posted
          /\ id = d.loads.posted[1]
      BY <1>1 DEF LoadSound
    <3>2. id \in DOMAIN d.loads.tasks
      BY <2>1 DEF Awaited
    <3> QED BY <3>1, <3>2 DEF PreviewWaits, Answers
  <2> DEFINE taken == [c EXCEPT !.pending = 0]
             state == task.result.status
             text == IF state = "ready"
                     THEN [root |-> w, path |-> d.selected, file |-> task.result.file]
                     ELSE NoText
             p == [taken EXCEPT !.state = state]
             q == [p EXCEPT !.text = text]
  <2>2. e = IF state = "cancelled" THEN taken ELSE q
    <3>1. e = OnLoadResult(c, id, task)
      BY <1>3, <2>1
    <3>2. id = c.pending /\ task.path = c.selected
      BY <1>5, <1>8, <2>1
    <3> HIDE DEF c, task, id, e
    <3>3. CASE state = "cancelled"
      <4>1. OnLoadResult(c, id, task) = taken
        BY <3>2, <3>3, Zenon DEF OnLoadResult
      <4> QED BY <3>1, <3>3, <4>1
    <3>4. CASE state # "cancelled"
      <4>1. OnLoadResult(c, id, task)
              = [taken EXCEPT !.state = task.result.status,
                              !.text = IF task.result.status = "ready"
                                       THEN [root |-> task.root, path |-> task.path,
                                             file |-> task.result.file]
                                       ELSE NoText]
        BY <3>2, <3>4, Zenon DEF OnLoadResult
      <4>2. OnLoadResult(c, id, task) = q
        BY <2>1, <4>1
      <4> QED BY <3>1, <3>4, <4>2
    <3> QED BY <3>3, <3>4
  <2>3. taken = PreviewShape(w, d.state, d.selected, d.text, 0, l)
    BY <1>4 DEF PreviewShape
  <2>4. /\ state \in DocumentStatus
        /\ IF state = "ready" THEN text.root = w /\ text.path = d.selected /\ Shown(text.file)
                              ELSE text = NoText
    BY <2>1 DEF LoadTasks, TaskOf, LoadResult
  <2>5. d.selected \in Seq(Names) \cup {NoPath}
    BY DEF PreviewSound
  <2> HIDE DEF taken, state, text, e
  <2>6. p = PreviewShape(w, state, d.selected, d.text, 0, l)
    BY <2>3 DEF PreviewShape
  <2> HIDE DEF p
  <2>7. q = PreviewShape(w, state, d.selected, text, 0, l)
    BY <2>6 DEF PreviewShape
  <2> HIDE DEF q
  <2>8. CASE state = "cancelled"
    <3> DEFINE old == d.state
               shown == d.text
               sel == d.selected
    <3>1. /\ old \in {"idle", "error", "unsupported", "loading", "ready"}
          /\ sel \in Seq(Names) \cup {NoPath}
          /\ IF old = "ready" THEN shown.root = w /\ shown.path = sel /\ Shown(shown.file)
                              ELSE shown = NoText
          /\ taken = PreviewShape(w, old, sel, shown, 0, l)
      BY <2>3 DEF PreviewSound, TextOf
    <3> HIDE DEF old, shown, sel
    <3>2. PreviewSound(PreviewShape(w, old, sel, shown, 0, l), w)
      BY <1>1, <1>2, <3>1, IdlePreview
    <3>3. taken.loads = l
      BY <3>1 DEF PreviewShape
    <3>4. ~PreviewWaits(d)
      BY <2>8, <2>a DEF state
    <3> QED BY <1>2, <2>2, <2>8, <3>1, <3>2, <3>3, <3>4 DEF e
  <2>9. CASE state # "cancelled"
    <3> DEFINE sel == d.selected
    <3>1. /\ state \in {"idle", "error", "unsupported", "loading", "ready"}
          /\ sel \in Seq(Names) \cup {NoPath}
          /\ IF state = "ready" THEN text.root = w /\ text.path = sel /\ Shown(text.file)
                                ELSE text = NoText
          /\ q = PreviewShape(w, state, sel, text, 0, l)
      BY <2>4, <2>5, <2>7, <2>9 DEF DocumentStatus
    <3> HIDE DEF sel
    <3>2. PreviewSound(PreviewShape(w, state, sel, text, 0, l), w)
      BY <1>1, <1>2, <3>1, IdlePreview
    <3>3. q.loads = l /\ q.state = state /\ q.pending = 0
      BY <3>1 DEF PreviewShape
    <3>4. PreviewWaits(d) => PreviewWaits(q)
      BY <1>a, <2>4, <2>9, <3>3 DEF PreviewWaits, DocumentStatus
    <3> QED BY <1>2, <2>2, <2>9, <3>1, <3>2, <3>3, <3>4 DEF e
  <2> QED BY <2>8, <2>9
<1> QED BY <1>7, <1>8

-----------------------------------------------------------------------------
(* Paths, as sequences of names.                                            *)

\* The names of two paths one by one.
LEMMA PrefixByName ==
  ASSUME NEW S, NEW s \in Seq(S), NEW t \in Seq(S)
  PROVE  IsPrefix(s, t) <=> Len(s) <= Len(t) /\ \A i \in 1..Len(s) : s[i] = t[i]
<1>1. Len(s) \in Nat /\ Len(t) \in Nat
  OBVIOUS
<1>2. CASE Len(s) <= Len(t)
  <2> DEFINE a == SubSeq(s, 1, Len(s))
             b == SubSeq(t, 1, Len(s))
  <2>1. a = s
    BY <1>1
  <2>2. b \in Seq(S) /\ Len(b) = Len(s) /\ \A i \in 1..Len(s) : b[i] = t[i]
    BY <1>1, <1>2
  <2>3. s = b <=> \A i \in 1..Len(s) : s[i] = b[i]
    <3> HIDE DEF b
    <3> QED BY <2>2
  <2> HIDE DEF a, b
  <2>4. IsPrefix(s, t) <=> a = b
    BY <1>2 DEF IsPrefix, a, b
  <2> QED BY <1>2, <2>1, <2>2, <2>3, <2>4
<1>3. CASE ~(Len(s) <= Len(t))
  BY <1>3 DEF IsPrefix
<1> QED BY <1>2, <1>3

\* What a path is a prefix of.
LEMMA PrefixOrder ==
  ASSUME NEW S, NEW s \in Seq(S), NEW t \in Seq(S), NEW u \in Seq(S)
  PROVE  /\ IsPrefix(s, s)
         /\ IsPrefix(s, t) /\ IsPrefix(t, u) => IsPrefix(s, u)
         /\ IsPrefix(s, t) => Len(s) <= Len(t)
         /\ IsPrefix(s, t) /\ Len(t) <= Len(s) => s = t
         /\ IsPrefix(s, u) /\ IsPrefix(t, u) /\ Len(s) <= Len(t) => IsPrefix(s, t)
<1>0. Len(s) \in Nat /\ Len(t) \in Nat /\ Len(u) \in Nat
  OBVIOUS
<1>1. IsPrefix(s, s)
  BY <1>0, PrefixByName
<1>2. IsPrefix(s, t) /\ IsPrefix(t, u) => IsPrefix(s, u)
  BY <1>0, PrefixByName
<1>3. IsPrefix(s, t) => Len(s) <= Len(t)
  BY PrefixByName
<1>4. ASSUME IsPrefix(s, t), Len(t) <= Len(s)
      PROVE  s = t
  BY <1>0, <1>4, PrefixByName
<1>5. IsPrefix(s, u) /\ IsPrefix(t, u) /\ Len(s) <= Len(t) => IsPrefix(s, t)
  BY <1>0, PrefixByName
<1> QED BY <1>1, <1>2, <1>3, <1>4, <1>5

\* The directory of a path is its longest strict prefix.
LEMMA PrefixFront ==
  ASSUME NEW S, NEW s \in Seq(S), Len(s) > 0
  PROVE  /\ Front(s) \in Seq(S) /\ Len(Front(s)) = Len(s) - 1 /\ IsPrefix(Front(s), s)
         /\ \A t \in Seq(S) : IsPrefix(t, s) /\ Len(t) < Len(s) => IsPrefix(t, Front(s))
<1>1. /\ Front(s) \in Seq(S) /\ Len(Front(s)) = Len(s) - 1
      /\ \A i \in 1..(Len(s) - 1) : Front(s)[i] = s[i]
  <2> DEFINE m == Len(s) - 1
             f == SubSeq(s, 1, m)
  <2>1. m \in Nat /\ m <= Len(s)
    OBVIOUS
  <2> HIDE DEF m
  <2>2. f \in Seq(S) /\ Len(f) = m /\ \A i \in 1..m : f[i] = s[i]
    BY <2>1
  <2> QED BY <2>2 DEF Front, m
<1>2. IsPrefix(Front(s), s)
  BY <1>1, PrefixByName
<1>3. ASSUME NEW t \in Seq(S), IsPrefix(t, s), Len(t) < Len(s)
      PROVE  IsPrefix(t, Front(s))
  BY <1>1, <1>3, PrefixByName
<1> QED BY <1>1, <1>2, <1>3

\* The directory of an entry is where it was found.
LEMMA FrontAppend ==
  ASSUME NEW S, NEW s \in Seq(S), NEW n \in S
  PROVE  Front(Append(s, n)) = s
BY DEF Front

-----------------------------------------------------------------------------
(* The tree (controllers/workspace_browser_controller.py).                  *)

RowShape(path, kind, depth, expanded, loading, of) ==
    [path |-> path, kind |-> kind, depth |-> depth, expanded |-> expanded, loading |-> loading,
     of |-> of]

\* The rows of workspace w; a directory is no deeper than it may be scanned.
RowsOf(w) ==
    {row \in [path : Seq(Names), kind : Kinds, depth : 0..MaxDepth, expanded : BOOLEAN,
              loading : BOOLEAN, of : Workspaces] :
        /\ row.of = w /\ Len(row.path) = row.depth + 1
        /\ row.kind = "directory" => row.depth < MaxDepth}

\* What a scan of a directory may list.
EntriesOf(directory) ==
    {e \in [path : Seq(Names), kind : Kinds] :
        /\ Len(e.path) = Len(directory) + 1 /\ Front(e.path) = directory
        /\ e.kind = "directory" => Len(directory) < MaxDepth}

\* Nothing is listed twice.
Listings(directory) ==
    {s \in Seq(EntriesOf(directory)) : \A i, j \in DOMAIN s : s[i].path = s[j].path => i = j}

ScanResult == [entries : Seq([path : Seq(Names), kind : Kinds]), error : BOOLEAN]

ScanTasks ==
    {t \in TaskOf(Seq(Names), ScanResult) :
        Len(t.path) <= MaxDepth /\ t.result.entries \in Listings(t.path)}

TreeShape(root, items, pending, scans) ==
    [root |-> root, items |-> items, pending |-> pending, scans |-> scans]

\* A request that is pending is awaited, of its own directory.
PendingSound(pending, scans, w) ==
    /\ \A d \in DOMAIN pending :
          d \in Seq(Names) /\ Len(d) <= MaxDepth /\ Awaited(scans, pending[d], w, d)
    /\ scans.closed => DOMAIN pending = {}

\* The tree of workspace w.
TreeSound(b, w) ==
    /\ b = TreeShape(b.root, b.items, b.pending, b.scans)
    /\ b.root = w /\ w \in Roots
    /\ LoadSound(b.scans, ScanTasks)
    /\ b.items \in Seq(RowsOf(w))
    /\ PendingSound(b.pending, b.scans, w)

\* See LoadTasksClosed.
LEMMA ScanTasksClosed == Closed(ScanTasks) /\ Shaped(ScanTasks)
<1>1. ASSUME NEW t \in ScanTasks
      PROVE  /\ t = TaskShape(t.root, t.path, t.stage, t.callback, t.token, t.result)
             /\ t.root \in Workspaces /\ t.path \in Seq(Names) /\ t.stage \in Stage
             /\ t.callback \in BOOLEAN /\ t.token \in BOOLEAN /\ t.result \in ScanResult
             /\ Len(t.path) <= MaxDepth /\ t.result.entries \in Listings(t.path)
  BY DEF ScanTasks, TaskOf, TaskShape
<1>2. ASSUME NEW root \in Workspaces, NEW path \in Seq(Names), NEW stage \in Stage,
             NEW callback \in BOOLEAN, NEW token \in BOOLEAN, NEW result \in ScanResult,
             Len(path) <= MaxDepth, result.entries \in Listings(path)
      PROVE  TaskShape(root, path, stage, callback, token, result) \in ScanTasks
  <2> DEFINE t == TaskShape(root, path, stage, callback, token, result)
  <2>1. t \in TaskOf(Seq(Names), ScanResult)
    BY DEF TaskShape, TaskOf
  <2>2. t.result = result /\ t.path = path
    BY DEF TaskShape
  <2> HIDE DEF t
  <2>3. t \in ScanTasks
    BY <1>2, <2>1, <2>2 DEF ScanTasks
  <2> QED BY <2>3 DEF t
<1>3. Shaped(ScanTasks)
  BY <1>1 DEF Shaped
<1>4. Closed(ScanTasks)
  BY <1>1, <1>2 DEF Closed
<1> QED BY <1>3, <1>4

\* scan_directory lists entries of its directory.
LEMMA ResultsListed ==
  ASSUME NEW directory \in Seq(Names), Len(directory) <= MaxDepth,
         NEW result \in ScanResults(directory)
  PROVE  result \in ScanResult /\ result.entries \in Listings(directory)
<1>0. MaxDepth \in Nat /\ "directory" \in Kinds /\ Len(directory) \in Nat
  BY WorkspaceAssumption, TreeAssumption
<1>1. CASE result = ScanError
  <2>1. result.entries = <<>> /\ result = [entries |-> <<>>, error |-> TRUE]
    BY <1>1 DEF ScanError
  <2> QED BY <2>1 DEF ScanResult, Listings
<1>2. CASE result # ScanError
  <2>1. PICK dirents \in Dirents :
          /\ Len(directory) >= MaxDepth => \A n \in DOMAIN dirents : dirents[n] # "directory"
          /\ result = ScanDirectory(directory, dirents)
    BY <1>2 DEF ScanResults
  <2> DEFINE names == Listing(dirents)
             entry(k) == [path |-> Append(directory, names[k]), kind |-> dirents[names[k]]]
             entries == [k \in DOMAIN names |-> entry(k)]
  <2>2. /\ DOMAIN dirents \subseteq Names
        /\ \A n \in DOMAIN dirents : dirents[n] \in Kinds
        /\ names \in Seq(DOMAIN dirents)
        /\ \A i, j \in DOMAIN names : names[i] = names[j] => i = j
    BY WorkspaceAssumption DEF IsInjective
  <2>3. result = [entries |-> entries, error |-> FALSE]
    BY <2>1 DEF ScanDirectory
  <2> HIDE DEF names
  <2>4. ASSUME NEW k \in DOMAIN names
        PROVE  entry(k) \in EntriesOf(directory)
    <3> DEFINE n == names[k]
               path == Append(directory, n)
    <3>1. n \in DOMAIN dirents /\ n \in Names /\ dirents[n] \in Kinds
      BY <2>2
    <3> HIDE DEF n
    <3>2. path \in Seq(Names) /\ Len(path) = Len(directory) + 1 /\ Front(path) = directory
      BY <3>1, FrontAppend
    <3> HIDE DEF path
    <3>3. [path |-> path, kind |-> dirents[n]] \in EntriesOf(directory)
      BY <1>0, <2>1, <3>1, <3>2 DEF EntriesOf
    <3> QED BY <3>3 DEF path, n
  <2>b. \A i, j \in DOMAIN names : entry(i).path = entry(j).path => i = j
    <3>1. ASSUME NEW i \in DOMAIN names, NEW j \in DOMAIN names,
                 Append(directory, names[i]) = Append(directory, names[j])
          PROVE  i = j
      <4> DEFINE m == names[i]
                 n == names[j]
      <4>1. m \in Names /\ n \in Names /\ Append(directory, m) = Append(directory, n)
        BY <2>2, <3>1
      <4> HIDE DEF m, n
      <4>2. Append(directory, m)[Len(directory) + 1] = m /\ Append(directory, n)[Len(directory) + 1] = n
        BY <1>0, <4>1
      <4>3. m = n
        BY <4>1, <4>2
      <4> QED BY <2>2, <4>3 DEF m, n
    <3> QED BY <3>1
  <2> HIDE DEF entry
  <2>5. entries \in [DOMAIN names -> EntriesOf(directory)] /\ DOMAIN names = 1..Len(names)
        /\ Len(names) \in Nat
    BY <2>2, <2>4
  <2>6. entries \in Seq(EntriesOf(directory))
    BY <2>5
  <2>d. \A i, j \in DOMAIN entries : entries[i].path = entries[j].path => i = j
    BY <2>b
  <2> HIDE DEF entries
  <2>7. entries \in Seq([path : Seq(Names), kind : Kinds])
    <3> DEFINE All == [path : Seq(Names), kind : Kinds]
    <3>1. EntriesOf(directory) \subseteq All
      BY DEF EntriesOf
    <3> HIDE DEF All
    <3>2. entries \in Seq(All)
      BY <2>6, <3>1
    <3> QED BY <3>2 DEF All
  <2> QED BY <2>3, <2>6, <2>7, <2>d DEF ScanResult, Listings
<1> QED BY <1>1, <1>2

\* The rows after a change: row k closed and the g rows after it gone, row k
\* listed with its rows after it, the row of a directory closed, row k opened,
\* nothing loading.
Shut(row) == [row EXCEPT !.expanded = FALSE, !.loading = FALSE]
Quiet(row) == [row EXCEPT !.loading = FALSE]
Opening(row) == [row EXCEPT !.expanded = TRUE, !.loading = TRUE]

CollapsedRows(items, k, g) ==
    [SubSeq(items, 1, k) EXCEPT ![k] = Shut(items[k])] \o SubSeq(items, k + 1 + g, Len(items))
FilledRows(items, k, rows) ==
    [SubSeq(items, 1, k) EXCEPT ![k] = Quiet(items[k])] \o rows \o SubSeq(items, k + 1, Len(items))
FailedRows(items, d) ==
    [k \in DOMAIN items |-> IF items[k].path = d THEN Shut(items[k]) ELSE items[k]]
OpenedRows(items, k) == [items EXCEPT ![k] = Opening(items[k])]
QuietRows(items) == [k \in DOMAIN items |-> Quiet(items[k])]
ListedUnder(entries, depth, root) ==
    [j \in DOMAIN entries |-> Visible(entries[j], depth, root)]

\* A tree of sound parts.
LEMMA TreeOf ==
  ASSUME NEW w \in Roots, NEW items \in Seq(RowsOf(w)), NEW pending, NEW scans,
         LoadSound(scans, ScanTasks), PendingSound(pending, scans, w), NEW b,
         b = TreeShape(w, items, pending, scans)
  PROVE  /\ TreeSound(b, w) /\ b.scans = scans
         /\ b.items = items /\ b.pending = pending
<1>1. b.root = w /\ b.items = items /\ b.pending = pending /\ b.scans = scans
  BY DEF TreeShape
<1> QED BY <1>1 DEF TreeSound

\* The flags of a row.
LEMMA RowChanges ==
  ASSUME NEW w, NEW row \in RowsOf(w), NEW x \in BOOLEAN, NEW y \in BOOLEAN
  PROVE  /\ [row EXCEPT !.loading = y] \in RowsOf(w)
         /\ [row EXCEPT !.expanded = x] \in RowsOf(w)
         /\ [row EXCEPT !.expanded = x, !.loading = y] \in RowsOf(w)
<1>1. row = RowShape(row.path, row.kind, row.depth, row.expanded, row.loading, row.of)
  BY DEF RowsOf, RowShape
<1>2. ASSUME NEW expanded \in BOOLEAN, NEW loading \in BOOLEAN
      PROVE  RowShape(row.path, row.kind, row.depth, expanded, loading, row.of) \in RowsOf(w)
  BY DEF RowsOf, RowShape
<1> DEFINE p == [row EXCEPT !.expanded = x]
           q == [p EXCEPT !.loading = y]
<1>3. p = RowShape(row.path, row.kind, row.depth, x, row.loading, row.of)
  BY <1>1 DEF RowShape
<1>4. [row EXCEPT !.expanded = x, !.loading = y] = q
  OBVIOUS
<1>5. [row EXCEPT !.loading = y] = RowShape(row.path, row.kind, row.depth, row.expanded, y, row.of)
  BY <1>1 DEF RowShape
<1> HIDE DEF p
<1>6. q = RowShape(row.path, row.kind, row.depth, x, y, row.of)
  BY <1>3 DEF RowShape
<1>7. row.expanded \in BOOLEAN /\ row.loading \in BOOLEAN
  BY DEF RowsOf
<1> QED BY <1>2, <1>3, <1>4, <1>5, <1>6, <1>7 DEF p

\* A scan failed: the row of its directory is closed (_handle_scan_error).
LEMMA ErrorSound ==
  ASSUME NEW w, NEW b, TreeSound(b, w), NEW d
  PROVE  LET e == HandleScanError(b, d)
         IN  /\ TreeSound(e, w) /\ e.scans = b.scans
             /\ e.items = FailedRows(b.items, d) /\ e.pending = b.pending
<1> DEFINE no == FALSE
           changed(k) == IF k \in FindIndex(b, d)
                         THEN [b.items[k] EXCEPT !.expanded = no, !.loading = no]
                         ELSE b.items[k]
           items == [k \in DOMAIN b.items |-> changed(k)]
           e == HandleScanError(b, d)
<1>1. e = [b EXCEPT !.items = items] /\ no \in BOOLEAN
  BY DEF HandleScanError
<1>2. /\ b = TreeShape(b.root, b.items, b.pending, b.scans) /\ b.root = w /\ w \in Roots
      /\ LoadSound(b.scans, ScanTasks) /\ b.items \in Seq(RowsOf(w))
      /\ PendingSound(b.pending, b.scans, w)
  BY DEF TreeSound
<1>a. items = FailedRows(b.items, d)
  BY DEF FindIndex, FailedRows, Shut
<1> HIDE DEF no
<1>3. ASSUME NEW k \in DOMAIN b.items
      PROVE  changed(k) \in RowsOf(w)
  <2> DEFINE row == b.items[k]
  <2>1. row \in RowsOf(w)
    BY <1>2
  <2> HIDE DEF row
  <2>2. [row EXCEPT !.expanded = no, !.loading = no] \in RowsOf(w)
    BY <1>1, <2>1, RowChanges
  <2> QED BY <2>1, <2>2 DEF row
<1> HIDE DEF changed
<1>4. items \in [DOMAIN b.items -> RowsOf(w)]
  BY <1>3
<1>5. items \in Seq(RowsOf(w))
  BY <1>2, <1>4
<1> HIDE DEF items, e
<1>6. e = TreeShape(w, items, b.pending, b.scans)
  BY <1>1, <1>2 DEF TreeShape
<1>7. TreeSound(e, w) /\ e.scans = b.scans /\ e.items = items /\ e.pending = b.pending
  BY <1>2, <1>5, <1>6, TreeOf
<1> QED BY <1>7, <1>a DEF e

\* submit() of a scan of a directory of the tree.
LEMMA RequestSound ==
  ASSUME NEW w \in Workspaces, NEW b, TreeSound(b, w), NEW d \in Seq(Names), Len(d) <= MaxDepth
  PROVE  LET e == RequestScan(b, d)
         IN  /\ TreeSound(e, w)
             /\ e.scans.next \in {b.scans.next, b.scans.next + 1}
             /\ e.scans.closed = b.scans.closed
             /\ ~b.scans.closed
                   => e.items = b.items /\ DOMAIN e.pending = DOMAIN b.pending \cup {d}
<1> DEFINE n == b.scans.next
           scans == Submit(b.scans, w, d, NoScan)
           pending == [x \in DOMAIN b.pending \cup {d} |-> IF x = d THEN n ELSE b.pending[x]]
           e == RequestScan(b, d)
<1>1. /\ b = TreeShape(b.root, b.items, b.pending, b.scans) /\ b.root = w /\ w \in Roots
      /\ LoadSound(b.scans, ScanTasks) /\ b.items \in Seq(RowsOf(w))
      /\ PendingSound(b.pending, b.scans, w)
  BY DEF TreeSound
<1>2. CASE b.scans.closed
  <2>1. e = HandleScanError(b, d)
    BY <1>2 DEF RequestScan
  <2> HIDE DEF e
  <2>2. TreeSound(e, w) /\ e.scans = b.scans
    BY <2>1, ErrorSound
  <2> QED BY <1>2, <2>2 DEF e
<1>3. CASE ~b.scans.closed
  <2>1. e = [b EXCEPT !.pending = pending, !.scans = scans]
    BY <1>1, <1>3 DEF RequestScan
  <2>2. NewTask(w, d, NoScan) \in ScanTasks
    <3> DEFINE t == NewTask(w, d, NoScan)
    <3>1. NoScan \in ScanResult /\ NoScan.entries = <<>>
      BY DEF NoScan, ScanResult
    <3>2. t.result = NoScan /\ t.path = d /\ t \in TaskOf(Seq(Names), ScanResult)
      BY <3>1 DEF NewTask, TaskOf, Stage
    <3>3. <<>> \in Listings(d)
      BY DEF Listings
    <3> HIDE DEF t
    <3> QED BY <3>1, <3>2, <3>3 DEF ScanTasks, t
  <2>3. /\ LoadSound(scans, ScanTasks) /\ scans.next = n + 1 /\ scans.closed = b.scans.closed
        /\ Awaited(scans, n, w, d) /\ AwaitsStill(b.scans, scans)
    BY <1>1, <2>2, SubmitSound
  <2> HIDE DEF scans
  <2>4. PendingSound(pending, scans, w)
    BY <1>1, <1>3, <2>3 DEF PendingSound, AwaitsStill
  <2> DEFINE p == [b EXCEPT !.pending = pending]
             q == [p EXCEPT !.scans = scans]
  <2>c. DOMAIN pending = DOMAIN b.pending \cup {d}
    OBVIOUS
  <2>a. e = q
    BY <2>1
  <2> HIDE DEF pending, n, e
  <2>b. p = TreeShape(w, b.items, pending, b.scans)
    BY <1>1 DEF TreeShape
  <2> HIDE DEF p
  <2>5. e = TreeShape(w, b.items, pending, scans)
    BY <2>a, <2>b DEF TreeShape
  <2> HIDE DEF e
  <2>6. TreeSound(e, w) /\ e.scans = scans /\ e.items = b.items /\ e.pending = pending
    BY <1>1, <2>3, <2>4, <2>5, TreeOf
  <2> QED BY <2>3, <2>6, <2>c DEF e, n
<1> QED BY <1>2, <1>3

\* A tree that shows nothing and waits for nothing.
LEMMA EmptyTree ==
  ASSUME NEW w \in Roots, NEW scans, LoadSound(scans, ScanTasks), NEW b,
         b = TreeShape(w, <<>>, <<>>, scans)
  PROVE  TreeSound(b, w) /\ b.scans = scans /\ b.items = <<>> /\ DOMAIN b.pending = {}
<1> DEFINE none == <<>>
<1>1. /\ none \in Seq(RowsOf(w)) /\ DOMAIN none = {} /\ none = <<>>
      /\ b = TreeShape(w, none, none, scans)
  OBVIOUS
<1> HIDE DEF none
<1>2. PendingSound(none, scans, w)
  BY <1>1 DEF PendingSound
<1>3. b.root = w /\ b.items = none /\ b.pending = none /\ b.scans = scans
  BY <1>1 DEF TreeShape
<1> QED BY <1>1, <1>2, <1>3 DEF TreeSound

\* A scan of the root, after all that was there is gone.
LEMMA ScanRoot ==
  ASSUME NEW w \in Workspaces, NEW scans, LoadSound(scans, ScanTasks), NEW b,
         b = TreeShape(w, <<>>, <<>>, scans)
  PROVE  LET e == RequestScan(b, <<>>)
         IN  /\ TreeSound(e, w)
             /\ e.scans.next \in {scans.next, scans.next + 1}
             /\ e.scans.closed = scans.closed
             /\ ~scans.closed => e.items = <<>> /\ DOMAIN e.pending = {<<>>}
<1> DEFINE d == <<>>
<1>1. d \in Seq(Names) /\ Len(d) <= MaxDepth
  BY WorkspaceAssumption
<1>2. TreeSound(b, w) /\ b.scans = scans /\ b.items = <<>> /\ DOMAIN b.pending = {}
  BY EmptyTree DEF Roots
<1> HIDE DEF d
<1>3. LET e == RequestScan(b, d)
      IN  /\ TreeSound(e, w)
          /\ e.scans.next \in {b.scans.next, b.scans.next + 1}
          /\ e.scans.closed = b.scans.closed
          /\ ~b.scans.closed => e.items = b.items /\ DOMAIN e.pending = DOMAIN b.pending \cup {d}
  BY <1>1, <1>2, RequestSound
<1> QED BY <1>2, <1>3 DEF d

\* A tree that was just reset.
Fresh(b, w) == b.items = <<>> /\ DOMAIN b.pending = IF w = NoWorkspace THEN {} ELSE {<<>>}

\* _reset_for_root: another workspace.
LEMMA ResetSound ==
  ASSUME NEW w \in Roots, NEW v, NEW b, TreeSound(b, v)
  PROVE  LET e == ResetForRoot(b, w)
         IN  /\ TreeSound(e, w)
             /\ e.scans.next \in {b.scans.next, b.scans.next + 1}
             /\ e.scans.closed = b.scans.closed
             /\ ~b.scans.closed => Fresh(e, w)
<1> DEFINE l == CancelAll(b.scans)
           none == <<>>
           p == [b EXCEPT !.scans = l]
           q == [p EXCEPT !.pending = none]
           r == [q EXCEPT !.items = none]
           s == [r EXCEPT !.root = w]
           e == ResetForRoot(b, w)
<1>1. e = IF w = NoWorkspace THEN s ELSE RequestScan(s, <<>>)
  BY DEF ResetForRoot
<1>2. b = TreeShape(b.root, b.items, b.pending, b.scans) /\ LoadSound(b.scans, ScanTasks)
  BY DEF TreeSound
<1>3. LoadSound(l, ScanTasks) /\ l.next = b.scans.next /\ l.closed = b.scans.closed
  BY <1>2, CancelAllSound, ScanTasksClosed
<1>4. none = <<>>
  OBVIOUS
<1> HIDE DEF l, none, e
<1>5. p = TreeShape(b.root, b.items, b.pending, l)
  BY <1>2 DEF TreeShape
<1> HIDE DEF p
<1>6. q = TreeShape(b.root, b.items, none, l)
  BY <1>5 DEF TreeShape
<1> HIDE DEF q
<1>7. r = TreeShape(b.root, none, none, l)
  BY <1>6 DEF TreeShape
<1> HIDE DEF r
<1>8. s = TreeShape(w, none, none, l)
  BY <1>7 DEF TreeShape
<1> HIDE DEF s
<1>9. CASE w = NoWorkspace
  <2>1. TreeSound(s, w) /\ s.scans = l /\ s.items = <<>> /\ DOMAIN s.pending = {}
    BY <1>3, <1>4, <1>8, EmptyTree
  <2> QED BY <1>1, <1>3, <1>9, <2>1 DEF e, Fresh
<1>10. CASE w # NoWorkspace
  <2>1. w \in Workspaces
    BY <1>10 DEF Roots
  <2>2. e = RequestScan(s, <<>>)
    BY <1>1, <1>10
  <2>3. LET f == RequestScan(s, <<>>)
        IN  /\ TreeSound(f, w) /\ f.scans.next \in {l.next, l.next + 1}
            /\ f.scans.closed = l.closed
            /\ ~l.closed => f.items = <<>> /\ DOMAIN f.pending = {<<>>}
    BY <1>3, <1>4, <1>8, <2>1, ScanRoot
  <2> QED BY <1>3, <1>10, <2>2, <2>3 DEF e, Fresh
<1> QED BY <1>9, <1>10

\* The tree follows the workspace (_on_agent_state_changed).
LEMMA SyncTreeSound ==
  ASSUME NEW w \in Roots, NEW v, NEW b, TreeSound(b, v)
  PROVE  LET e == SyncTree(b, w)
         IN  /\ TreeSound(e, w)
             /\ e.scans.next \in {b.scans.next, b.scans.next + 1}
             /\ e.scans.closed = b.scans.closed
             /\ e = b \/ b.scans.closed \/ Fresh(e, w)
<1>1. CASE w = b.root
  BY <1>1 DEF SyncTree, TreeSound
<1>2. CASE w # b.root
  <2>1. SyncTree(b, w) = ResetForRoot(b, w)
    BY <1>2 DEF SyncTree
  <2> QED BY <2>1, ResetSound
<1> QED BY <1>1, <1>2

\* A new tree, as main.py makes it.
LEMMA NewTreeSound ==
  /\ TreeSound(NewTree, NoWorkspace) /\ NewTree.scans.next = 1 /\ NewTree.scans.closed = FALSE
  /\ Fresh(NewTree, NoWorkspace)
<1> DEFINE scans == NewRunner
           b == TreeShape(NoWorkspace, <<>>, <<>>, scans)
<1>1. LoadSound(scans, ScanTasks) /\ scans.next = 1 /\ scans.closed = FALSE
  BY NewRunnerSound DEF NewRunner
<1>2. NewTree = b
  BY DEF NewTree, TreeShape
<1> HIDE DEF scans
<1>3. TreeSound(b, NoWorkspace) /\ b.scans = scans /\ b.items = <<>> /\ DOMAIN b.pending = {}
  BY <1>1, EmptyTree DEF Roots
<1> HIDE DEF b
<1> QED BY <1>1, <1>2, <1>3 DEF Fresh

\* refresh().
LEMMA RefreshSound ==
  ASSUME NEW w \in Roots, NEW b, TreeSound(b, w)
  PROVE  LET e == Refresh(b, w)
         IN  /\ TreeSound(e, w)
             /\ e.scans.next \in {b.scans.next, b.scans.next + 1}
             /\ e.scans.closed = b.scans.closed
             /\ e = b \/ b.scans.closed \/ (w # NoWorkspace /\ Fresh(e, w))
<1>1. /\ b = TreeShape(b.root, b.items, b.pending, b.scans) /\ b.root = w
      /\ LoadSound(b.scans, ScanTasks) /\ b.scans.next \in Nat
  BY DEF TreeSound, LoadSound
<1>2. CASE w = NoWorkspace
  <2>1. Refresh(b, w) = b
    BY <1>1, <1>2, Zenon DEF Refresh
  <2> QED BY <1>1, <2>1
<1>3. CASE w # NoWorkspace
  <2> DEFINE l == CancelAll(b.scans)
             none == <<>>
             p == [b EXCEPT !.scans = l]
             q == [p EXCEPT !.pending = none]
             r == [q EXCEPT !.items = none]
  <2>1. Refresh(b, w) = RequestScan([b EXCEPT !.scans = CancelAll(@), !.pending = <<>>,
                                              !.items = <<>>], <<>>)
    BY <1>1, <1>3, Zenon DEF Refresh
  <2>2. Refresh(b, w) = RequestScan(r, <<>>)
    BY <2>1
  <2>3. LoadSound(l, ScanTasks) /\ l.next = b.scans.next /\ l.closed = b.scans.closed
    BY <1>1, CancelAllSound, ScanTasksClosed
  <2>4. none = <<>> /\ w \in Workspaces
    BY <1>3 DEF Roots
  <2> HIDE DEF l, none
  <2>5. p = TreeShape(w, b.items, b.pending, l)
    BY <1>1 DEF TreeShape
  <2> HIDE DEF p
  <2>6. q = TreeShape(w, b.items, none, l)
    BY <2>5 DEF TreeShape
  <2> HIDE DEF q
  <2>7. r = TreeShape(w, none, none, l)
    BY <2>6 DEF TreeShape
  <2> HIDE DEF r
  <2>8. LET f == RequestScan(r, <<>>)
        IN  /\ TreeSound(f, w) /\ f.scans.next \in {l.next, l.next + 1}
            /\ f.scans.closed = l.closed
            /\ ~l.closed => f.items = <<>> /\ DOMAIN f.pending = {<<>>}
    BY <2>3, <2>4, <2>7, ScanRoot
  <2> QED BY <1>3, <2>2, <2>3, <2>8 DEF Fresh
<1> QED BY <1>2, <1>3

\* The prefix of the rows up to row k, with a row in place of row k.
LEMMA PrefixRows ==
  ASSUME NEW S, NEW items \in Seq(S), NEW k \in DOMAIN items, NEW row \in S, NEW head,
         head = [SubSeq(items, 1, k) EXCEPT ![k] = row]
  PROVE  head \in Seq(S)
<1>1. Len(items) \in Nat /\ k \in 1..Len(items)
  OBVIOUS
<1> DEFINE a == SubSeq(items, 1, k)
<1>2. a \in Seq(S) /\ Len(a) = k
  BY <1>1
<1> HIDE DEF a
<1> QED BY <1>2 DEF a

\* The rows from row j on, if there are any.
LEMMA SuffixRows ==
  ASSUME NEW S, NEW items \in Seq(S), NEW j \in Nat \ {0}
  PROVE  SubSeq(items, j, Len(items)) \in Seq(S)
<1>1. CASE j <= Len(items)
  BY <1>1
<1>2. CASE ~(j <= Len(items))
  BY <1>2
<1> QED BY <1>1, <1>2

\* How many rows a collapse takes away.
LEMMA GoneRows ==
  ASSUME NEW w, NEW b, TreeSound(b, w), NEW k \in DOMAIN b.items
  PROVE  Cardinality(Below(b, k)) \in Nat
<1>1. Len(b.items) \in Nat /\ k \in Nat
  BY DEF TreeSound
<1>2. IsFiniteSet((k + 1)..Len(b.items))
  BY <1>1, FS_Interval
<1>3. Below(b, k) \in SUBSET ((k + 1)..Len(b.items))
  BY DEF Below
<1> HIDE DEF Below
<1>4. IsFiniteSet(Below(b, k))
  BY <1>2, <1>3, FS_Subset
<1> QED BY <1>4, FS_CardinalityType

\* Fewer requests are pending.
LEMMA ForgetSound ==
  ASSUME NEW w, NEW pending, NEW scans, PendingSound(pending, scans, w), NEW paths
  PROVE  PendingSound(Forget(pending, paths), scans, w)
<1> DEFINE left == Forget(pending, paths)
<1>1. DOMAIN left = DOMAIN pending \ paths /\ \A d \in DOMAIN left : left[d] = pending[d]
  BY DEF Forget, Restrict
<1> HIDE DEF left
<1>2. PendingSound(left, scans, w)
  BY <1>1 DEF PendingSound
<1> QED BY <1>2 DEF left

\* _collapse.
LEMMA CollapseSound ==
  ASSUME NEW w, NEW b, TreeSound(b, w), NEW k \in DOMAIN b.items
  PROVE  LET e == Collapse(b, k)
         IN  /\ TreeSound(e, w) /\ e.scans = b.scans
             /\ e.items = CollapsedRows(b.items, k, Cardinality(Below(b, k)))
             /\ DOMAIN e.pending
                  = DOMAIN b.pending \ {b.items[j].path : j \in Below(b, k) \cup {k}}
<1> DEFINE gone == Cardinality(Below(b, k))
           paths == {b.items[j].path : j \in Below(b, k) \cup {k}}
           pending == Forget(b.pending, paths)
           no == FALSE
           row == b.items[k]
           closing == [row EXCEPT !.expanded = no, !.loading = no]
           head == [SubSeq(b.items, 1, k) EXCEPT ![k] = closing]
           rest == SubSeq(b.items, k + 1 + gone, Len(b.items))
           items == head \o rest
           p == [b EXCEPT !.pending = pending]
           q == [p EXCEPT !.items = items]
           e == Collapse(b, k)
<1>1. /\ b = TreeShape(b.root, b.items, b.pending, b.scans) /\ b.root = w /\ w \in Roots
      /\ LoadSound(b.scans, ScanTasks) /\ b.items \in Seq(RowsOf(w))
      /\ PendingSound(b.pending, b.scans, w)
      /\ Len(b.items) \in Nat /\ k \in 1..Len(b.items) /\ no \in BOOLEAN
  BY DEF TreeSound
<1>2. e = q
  <2> DEFINE a == SubSeq(b.items, 1, k)
             x == [a EXCEPT ![k] = [a[k] EXCEPT !.expanded = FALSE]]
             y == [x EXCEPT ![k] = [x[k] EXCEPT !.loading = FALSE]]
  <2>1. e = [p EXCEPT !.items = y \o rest]
    BY DEF Collapse
  <2>2. a \in Seq(RowsOf(w)) /\ k \in DOMAIN a /\ a[k] = row
    BY <1>1
  <2> HIDE DEF a, row
  <2>3. y = [a EXCEPT ![k] = closing]
    BY <2>2
  <2> QED BY <2>1, <2>3 DEF a
<1>3. row \in RowsOf(w)
  BY <1>1
<1>a. items = CollapsedRows(b.items, k, gone)
  BY DEF CollapsedRows, Shut
<1>b. DOMAIN pending = DOMAIN b.pending \ paths
  BY DEF Forget, Restrict
<1> HIDE DEF no, row, e
<1>4. closing \in RowsOf(w)
  BY <1>1, <1>3, RowChanges
<1> HIDE DEF closing
<1>5. head \in Seq(RowsOf(w))
  BY <1>1, <1>4, PrefixRows
<1>6. gone \in Nat
  BY GoneRows
<1> HIDE DEF gone, head
<1>7. rest \in Seq(RowsOf(w))
  <2>1. k + 1 + gone \in Nat \ {0}
    BY <1>1, <1>6
  <2> QED BY <1>1, <2>1, SuffixRows
<1> HIDE DEF rest
<1>8. items \in Seq(RowsOf(w))
  BY <1>5, <1>7
<1> HIDE DEF items
<1>9. PendingSound(pending, b.scans, w)
  BY <1>1, ForgetSound
<1> HIDE DEF pending
<1>10. p = TreeShape(w, b.items, pending, b.scans)
  BY <1>1 DEF TreeShape
<1> HIDE DEF p
<1>11. q = TreeShape(w, items, pending, b.scans)
  BY <1>10 DEF TreeShape
<1> HIDE DEF q
<1>12. TreeSound(e, w) /\ e.scans = b.scans /\ e.items = items /\ e.pending = pending
  BY <1>1, <1>2, <1>8, <1>9, <1>11, TreeOf
<1> QED BY <1>12, <1>a, <1>b DEF e, gone

\* toggle_directory.
LEMMA ToggleSound ==
  ASSUME NEW w, NEW b, TreeSound(b, w), NEW k \in DOMAIN b.items
  PROVE  LET e == ToggleDirectory(b, k)
         IN  /\ TreeSound(e, w)
             /\ e.scans.next \in {b.scans.next, b.scans.next + 1}
             /\ e.scans.closed = b.scans.closed
             /\ \/ e = b \/ b.scans.closed
                \/ b.items[k].expanded /\ e = Collapse(b, k)
                \/ /\ b.items[k].kind = "directory" /\ ~b.items[k].expanded
                   /\ e.items = OpenedRows(b.items, k)
                   /\ DOMAIN e.pending = DOMAIN b.pending \cup {b.items[k].path}
<1> DEFINE row == b.items[k]
<1>1. /\ b = TreeShape(b.root, b.items, b.pending, b.scans) /\ b.root = w /\ w \in Roots
      /\ LoadSound(b.scans, ScanTasks) /\ b.items \in Seq(RowsOf(w))
      /\ PendingSound(b.pending, b.scans, w)
      /\ row \in RowsOf(w)
  BY DEF TreeSound
<1>2. CASE row.kind # "directory"
  <2>1. ToggleDirectory(b, k) = b
    BY <1>2, Zenon DEF ToggleDirectory
  <2> QED BY <2>1
<1>3. CASE row.kind = "directory" /\ row.expanded
  <2>1. ToggleDirectory(b, k) = Collapse(b, k)
    BY <1>3, Zenon DEF ToggleDirectory
  <2> QED BY <1>3, <2>1, CollapseSound
<1>4. CASE row.kind = "directory" /\ ~row.expanded
  <2> DEFINE yes == TRUE
             opened == [row EXCEPT !.expanded = yes, !.loading = yes]
             items == [b.items EXCEPT ![k] = opened]
             c == [b EXCEPT !.items = items]
             path == row.path
  <2>1. ToggleDirectory(b, k)
          = RequestScan([b EXCEPT !.items[k].expanded = TRUE, !.items[k].loading = TRUE],
                        b.items[k].path)
    BY <1>4, Zenon DEF ToggleDirectory
  <2>2. ToggleDirectory(b, k) = RequestScan(c, path)
    <3> DEFINE x == [b EXCEPT !.items = [b.items EXCEPT ![k] = [b.items[k] EXCEPT !.expanded = TRUE]]]
               y == [x EXCEPT !.items = [x.items EXCEPT ![k] = [x.items[k] EXCEPT !.loading = TRUE]]]
    <3>1. [b EXCEPT !.items[k].expanded = TRUE, !.items[k].loading = TRUE] = y
      OBVIOUS
    <3> DEFINE half == [row EXCEPT !.expanded = TRUE]
               halves == [b.items EXCEPT ![k] = half]
               whole == [half EXCEPT !.loading = TRUE]
    <3>2. x = [b EXCEPT !.items = halves] /\ whole = opened
      OBVIOUS
    <3>3. halves[k] = half /\ [halves EXCEPT ![k] = whole] = [b.items EXCEPT ![k] = whole]
      <4> HIDE DEF half, whole
      <4> QED BY <1>1
    <3>4. x.items = halves
      <4> HIDE DEF halves
      <4>1. x = TreeShape(b.root, halves, b.pending, b.scans)
        BY <1>1, <3>2 DEF TreeShape
      <4> QED BY <4>1 DEF TreeShape
    <3>5. y = [x EXCEPT !.items = items]
      <4> HIDE DEF x, half
      <4>1. y = [x EXCEPT !.items = [halves EXCEPT ![k] = [halves[k] EXCEPT !.loading = TRUE]]]
        BY <3>4
      <4>2. y = [x EXCEPT !.items = [b.items EXCEPT ![k] = whole]]
        BY <3>3, <4>1
      <4> QED BY <3>2, <4>2
    <3>6. y = c
      <4> HIDE DEF halves, items, y
      <4>1. x = TreeShape(b.root, halves, b.pending, b.scans)
        BY <1>1, <3>2 DEF TreeShape
      <4> HIDE DEF x
      <4>2. y = TreeShape(b.root, items, b.pending, b.scans)
        BY <3>5, <4>1 DEF TreeShape
      <4>3. c = TreeShape(b.root, items, b.pending, b.scans)
        BY <1>1 DEF TreeShape
      <4> QED BY <4>2, <4>3
    <3> QED BY <2>1, <3>1, <3>6
  <2>3. yes \in BOOLEAN
    OBVIOUS
  <2>4. path \in Seq(Names) /\ Len(path) <= MaxDepth /\ w \in Workspaces
    BY <1>1, <1>4, WorkspaceAssumption DEF RowsOf
  <2>a. items = OpenedRows(b.items, k)
    BY DEF OpenedRows, Opening
  <2> HIDE DEF yes, row, path
  <2>5. opened \in RowsOf(w)
    BY <1>1, <2>3, RowChanges
  <2> HIDE DEF opened
  <2>6. items \in Seq(RowsOf(w))
    BY <1>1, <2>5
  <2> HIDE DEF items
  <2>7. c = TreeShape(w, items, b.pending, b.scans)
    BY <1>1 DEF TreeShape
  <2> HIDE DEF c
  <2>8. TreeSound(c, w) /\ c.scans = b.scans /\ c.items = items /\ c.pending = b.pending
    BY <1>1, <2>6, <2>7, TreeOf
  <2>9. LET e == RequestScan(c, path)
        IN  /\ TreeSound(e, w)
            /\ e.scans.next \in {c.scans.next, c.scans.next + 1}
            /\ e.scans.closed = c.scans.closed
            /\ ~c.scans.closed
                  => e.items = c.items /\ DOMAIN e.pending = DOMAIN c.pending \cup {path}
    BY <2>4, <2>8, RequestSound
  <2> QED BY <1>4, <2>2, <2>8, <2>9, <2>a DEF row, path
<1> QED BY <1>2, <1>3, <1>4

\* cancel() and shutdown() of the runner, when the last window is closed.
LEMMA CloseTreeSound ==
  ASSUME NEW w, NEW b, TreeSound(b, w), NEW e,
         e = [CancelTree(b) EXCEPT !.scans = Shutdown(@)]
  PROVE  /\ TreeSound(e, w) /\ e.scans.next = b.scans.next /\ e.scans.closed = TRUE
         /\ e.items = QuietRows(b.items) /\ DOMAIN e.pending = {}
<1> DEFINE none == <<>>
           no == FALSE
           l == CancelAll(b.scans)
           m == Shutdown(l)
           quiet(k) == [b.items[k] EXCEPT !.loading = no]
           items == [k \in DOMAIN b.items |-> quiet(k)]
           p == [b EXCEPT !.pending = none]
           q == [p EXCEPT !.scans = l]
           c == [q EXCEPT !.items = items]
           f == [c EXCEPT !.scans = m]
<1>1. CancelTree(b) = c
  BY DEF CancelTree
<1>2. /\ b = TreeShape(b.root, b.items, b.pending, b.scans) /\ b.root = w /\ w \in Roots
      /\ LoadSound(b.scans, ScanTasks) /\ b.items \in Seq(RowsOf(w))
      /\ no \in BOOLEAN /\ DOMAIN none = {}
  BY DEF TreeSound
<1>3. LoadSound(l, ScanTasks) /\ l.next = b.scans.next
  BY <1>2, CancelAllSound, ScanTasksClosed
<1>4. items \in Seq(RowsOf(w))
  <2> HIDE DEF no
  <2>1. ASSUME NEW k \in DOMAIN b.items
        PROVE  quiet(k) \in RowsOf(w)
    <3> DEFINE row == b.items[k]
    <3>1. row \in RowsOf(w)
      BY <1>2
    <3> HIDE DEF row
    <3>2. [row EXCEPT !.loading = no] \in RowsOf(w)
      BY <1>2, <3>1, RowChanges
    <3> QED BY <3>2 DEF row
  <2> HIDE DEF quiet
  <2>2. items \in [DOMAIN b.items -> RowsOf(w)]
    BY <2>1
  <2> QED BY <1>2, <2>2
<1>a. items = QuietRows(b.items)
  BY DEF QuietRows, Quiet
<1> HIDE DEF none, no, l, items
<1>5. p = TreeShape(w, b.items, none, b.scans)
  BY <1>2 DEF TreeShape
<1> HIDE DEF p
<1>6. q = TreeShape(w, b.items, none, l)
  BY <1>5 DEF TreeShape
<1> HIDE DEF q
<1>7. c = TreeShape(w, items, none, l)
  BY <1>6 DEF TreeShape
<1> HIDE DEF c
<1>8. c.scans = l
  BY <1>7 DEF TreeShape
<1>9. e = f
  BY <1>1, <1>8
<1>10. LoadSound(m, ScanTasks) /\ m.next = l.next /\ m.closed = TRUE
  BY <1>3, ShutdownSound, ScanTasksClosed
<1> HIDE DEF m
<1>11. f = TreeShape(w, items, none, m)
  BY <1>7 DEF TreeShape
<1> HIDE DEF f
<1>12. PendingSound(none, m, w)
  BY <1>2 DEF PendingSound
<1>13. TreeSound(f, w) /\ f.scans = m /\ f.items = items /\ f.pending = none
  BY <1>2, <1>4, <1>10, <1>11, <1>12, TreeOf
<1> QED BY <1>2, <1>3, <1>9, <1>10, <1>13, <1>a

\* The threads take nothing from a tree.
LEMMA TreeProgress ==
  ASSUME NEW w, NEW b, TreeSound(b, w), NEW scans, Progress(b.scans, scans, ScanTasks), NEW e,
         e = TreeShape(b.root, b.items, b.pending, scans)
  PROVE  /\ TreeSound(e, w) /\ e.scans.next = b.scans.next /\ e.scans.closed = b.scans.closed
         /\ e.items = b.items /\ e.pending = b.pending
<1>1. /\ b = TreeShape(b.root, b.items, b.pending, b.scans) /\ b.root = w /\ w \in Roots
      /\ b.items \in Seq(RowsOf(w)) /\ PendingSound(b.pending, b.scans, w)
  BY DEF TreeSound
<1>2. e = TreeShape(w, b.items, b.pending, scans)
  BY <1>1
<1>3. PendingSound(b.pending, scans, w) /\ LoadSound(scans, ScanTasks) /\ scans.next = b.scans.next
      /\ scans.closed = b.scans.closed
  BY <1>1 DEF PendingSound, Progress, AwaitsStill
<1>4. TreeSound(e, w) /\ e.scans = scans /\ e.items = b.items /\ e.pending = b.pending
  BY <1>1, <1>2, <1>3, TreeOf
<1> QED BY <1>3, <1>4

\* The rows a listing becomes, one level below its directory.
LEMMA ListedRows ==
  ASSUME NEW w \in Workspaces, NEW directory \in Seq(Names), Len(directory) <= MaxDepth,
         NEW entries \in Listings(directory), NEW depth, depth = Len(directory)
  PROVE  [j \in DOMAIN entries |-> Visible(entries[j], depth, w)] \in Seq(RowsOf(w))
<1> DEFINE row(j) == Visible(entries[j], depth, w)
           rows == [j \in DOMAIN entries |-> row(j)]
<1>1. MaxDepth \in Nat /\ depth \in 0..MaxDepth /\ entries \in Seq(EntriesOf(directory))
  BY WorkspaceAssumption DEF Listings
<1>2. ASSUME NEW j \in DOMAIN entries
      PROVE  row(j) \in RowsOf(w)
  <2> DEFINE entry == entries[j]
             no == FALSE
  <2>1. /\ entry.path \in Seq(Names) /\ entry.kind \in Kinds
        /\ Len(entry.path) = depth + 1
        /\ entry.kind = "directory" => depth < MaxDepth
    BY <1>1 DEF EntriesOf
  <2>2. row(j) = RowShape(entry.path, entry.kind, depth, no, no, w) /\ no \in BOOLEAN
    BY DEF Visible, RowShape
  <2> HIDE DEF entry, no
  <2>3. RowShape(entry.path, entry.kind, depth, no, no, w) \in RowsOf(w)
    BY <1>1, <2>1, <2>2 DEF RowsOf, RowShape
  <2> QED BY <2>2, <2>3
<1> HIDE DEF row
<1>3. rows \in [DOMAIN entries -> RowsOf(w)]
  BY <1>2
<1>4. rows \in Seq(RowsOf(w))
  BY <1>1, <1>3
<1> QED BY <1>4 DEF row

\* A set of numbers has a least one.
LEMMA Least ==
  ASSUME NEW rows, rows \subseteq Nat, rows # {}
  PROVE  \E k \in rows : \A j \in rows : k <= j
<1> DEFINE R == {ss \in Nat \X Nat : ss[1] < ss[2]}
<1>1. IsWellFoundedOn(R, Nat)
  BY NatLessThanWellFounded DEF OpToRel
<1> HIDE DEF R
<1>2. PICK k \in rows : \A j \in rows : ~(<<j, k>> \in R)
  BY <1>1, WFMin
<1>3. ASSUME NEW j \in rows
      PROVE  k <= j
  <2>1. <<j, k>> \notin R /\ <<j, k>> \in Nat \X Nat
    BY <1>2
  <2>2. ~(<<j, k>>[1] < <<j, k>>[2])
    BY <2>1 DEF R
  <2> QED BY <2>2
<1> QED BY <1>3

\* The listing of an open directory goes below its row.
LEMMA ChildrenSound ==
  ASSUME NEW w \in Workspaces, NEW b, TreeSound(b, w), NEW task \in ScanTasks, task.root = w,
         NEW k \in DOMAIN b.items, b.items[k].path = task.path
  PROVE  LET e == Children(b, task, k)
         IN  /\ TreeSound(e, w) /\ e.scans = b.scans /\ e.pending = b.pending
             /\ e.items = FilledRows(b.items, k,
                             ListedUnder(task.result.entries, b.items[k].depth + 1, w))
<1> DEFINE no == FALSE
           row == b.items[k]
           closing == [row EXCEPT !.loading = no]
           head == [SubSeq(b.items, 1, k) EXCEPT ![k] = closing]
           rest == SubSeq(b.items, k + 1, Len(b.items))
           entries == task.result.entries
           depth == row.depth + 1
           rows == [j \in DOMAIN entries |-> Visible(entries[j], depth, w)]
           items == head \o rows \o rest
           e == Children(b, task, k)
<1>1. /\ b = TreeShape(b.root, b.items, b.pending, b.scans) /\ b.root = w /\ w \in Roots
      /\ LoadSound(b.scans, ScanTasks) /\ b.items \in Seq(RowsOf(w))
      /\ PendingSound(b.pending, b.scans, w)
      /\ Len(b.items) \in Nat /\ k \in 1..Len(b.items) /\ no \in BOOLEAN
  BY DEF TreeSound
<1>2. e = [b EXCEPT !.items = items]
  <2>1. e = [b EXCEPT !.items = [SubSeq(b.items, 1, k) EXCEPT ![k].loading = FALSE] \o rows \o rest]
    BY DEF Children
  <2> DEFINE a == SubSeq(b.items, 1, k)
  <2>2. a \in Seq(RowsOf(w)) /\ k \in DOMAIN a /\ a[k] = row
    BY <1>1
  <2> HIDE DEF row
  <2>3. [a EXCEPT ![k].loading = FALSE] = head
    BY <2>2
  <2> QED BY <2>1, <2>3
<1>3. row \in RowsOf(w)
  BY <1>1
<1>4. /\ task.path \in Seq(Names) /\ Len(task.path) <= MaxDepth
      /\ entries \in Listings(task.path) /\ depth = Len(task.path)
  BY <1>3 DEF ScanTasks, TaskOf, RowsOf
<1>a. items = FilledRows(b.items, k, ListedUnder(task.result.entries, b.items[k].depth + 1, w))
  BY DEF FilledRows, ListedUnder, Quiet
<1> HIDE DEF no, row, entries, depth, e
<1>5. closing \in RowsOf(w)
  BY <1>1, <1>3, RowChanges
<1> HIDE DEF closing
<1>6. head \in Seq(RowsOf(w))
  BY <1>1, <1>5, PrefixRows
<1>7. rest \in Seq(RowsOf(w))
  BY <1>1, SuffixRows
<1>8. rows \in Seq(RowsOf(w))
  BY <1>4, ListedRows
<1> HIDE DEF head, rest, rows
<1>9. items \in Seq(RowsOf(w))
  BY <1>6, <1>7, <1>8
<1> HIDE DEF items
<1>10. e = TreeShape(w, items, b.pending, b.scans)
  BY <1>1, <1>2 DEF TreeShape
<1>11. TreeSound(e, w) /\ e.scans = b.scans /\ e.items = items /\ e.pending = b.pending
  BY <1>1, <1>9, <1>10, TreeOf
<1> QED BY <1>11, <1>a DEF e

\* What the tree makes of the answer it waited for, its request forgotten.
Answered(b, task) ==
    LET rows == FindIndex(b, task.path)
    IN  IF task.result.error THEN HandleScanError(b, task.path)
        ELSE IF task.path = <<>>
             THEN [b EXCEPT !.items = [j \in DOMAIN task.result.entries |->
                                          Visible(task.result.entries[j], 0, task.root)]]
             ELSE IF rows # {} /\ \A k \in rows : b.items[k].expanded
                  THEN Children(b, task, CHOOSE k \in rows : \A j \in rows : k <= j)
                  ELSE b

\* The rows after the answer: the row of the directory is closed, or listed, or
\* it is not there, or not expanded.
AnswerShown(b, task, items, w) ==
    \/ task.result.error /\ items = FailedRows(b.items, task.path)
    \/ /\ task.path = <<>> /\ ~task.result.error
       /\ items = ListedUnder(task.result.entries, 0, w)
    \/ /\ task.path # <<>> /\ ~task.result.error
       /\ \E k \in DOMAIN b.items :
             /\ b.items[k].path = task.path /\ b.items[k].expanded
             /\ items = FilledRows(b.items, k,
                          ListedUnder(task.result.entries, b.items[k].depth + 1, w))
    \/ /\ task.path # <<>> /\ ~task.result.error /\ items = b.items
       /\ \/ \A k \in DOMAIN b.items : b.items[k].path # task.path
          \/ \E k \in DOMAIN b.items : b.items[k].path = task.path /\ ~b.items[k].expanded

\* An answer for a directory of the tree (_on_scan_result).
LEMMA AnsweredSound ==
  ASSUME NEW w \in Workspaces, NEW b, TreeSound(b, w), NEW task \in ScanTasks, task.root = w
  PROVE  LET e == Answered(b, task)
         IN  /\ TreeSound(e, w) /\ e.scans = b.scans /\ e.pending = b.pending
             /\ AnswerShown(b, task, e.items, w)
<1> DEFINE rows == FindIndex(b, task.path)
<1>1. /\ b = TreeShape(b.root, b.items, b.pending, b.scans) /\ b.root = w /\ w \in Roots
      /\ LoadSound(b.scans, ScanTasks) /\ b.items \in Seq(RowsOf(w))
      /\ PendingSound(b.pending, b.scans, w)
  BY DEF TreeSound
<1>2. CASE task.result.error
  <2>1. Answered(b, task) = HandleScanError(b, task.path)
    BY <1>2 DEF Answered
  <2> QED BY <1>2, <2>1, ErrorSound DEF AnswerShown
<1>3. CASE ~task.result.error /\ task.path = <<>>
  <2> DEFINE entries == task.result.entries
             items == [j \in DOMAIN entries |-> Visible(entries[j], 0, w)]
             e == Answered(b, task)
  <2>1. e = [b EXCEPT !.items = items]
    BY <1>3 DEF Answered
  <2>2. /\ task.path \in Seq(Names) /\ Len(task.path) <= MaxDepth /\ Len(task.path) = 0
        /\ entries \in Listings(task.path)
    BY <1>3 DEF ScanTasks, TaskOf
  <2>a. items = ListedUnder(task.result.entries, 0, w)
    BY DEF ListedUnder
  <2> HIDE DEF entries, e
  <2>3. items \in Seq(RowsOf(w))
    BY <2>2, ListedRows
  <2> HIDE DEF items
  <2>4. e = TreeShape(w, items, b.pending, b.scans)
    BY <1>1, <2>1 DEF TreeShape
  <2>5. TreeSound(e, w) /\ e.scans = b.scans /\ e.items = items /\ e.pending = b.pending
    BY <1>1, <2>3, <2>4, TreeOf
  <2> QED BY <1>3, <2>5, <2>a DEF e, AnswerShown
<1>4. CASE /\ ~task.result.error /\ task.path # <<>>
           /\ rows # {} /\ \A k \in rows : b.items[k].expanded
  <2> DEFINE k == CHOOSE k \in rows : \A j \in rows : k <= j
  <2>1. rows \subseteq DOMAIN b.items /\ rows \subseteq Nat
        /\ \A j \in rows : b.items[j].path = task.path
    BY <1>1 DEF FindIndex
  <2>2. \E j \in rows : \A i \in rows : j <= i
    BY <1>4, <2>1, Least
  <2>3. k \in rows
    BY <2>2
  <2>4. Answered(b, task) = Children(b, task, k)
    BY <1>4 DEF Answered
  <2>5. k \in DOMAIN b.items /\ b.items[k].path = task.path /\ b.items[k].expanded
    BY <1>4, <2>1, <2>3
  <2> HIDE DEF k, rows
  <2>6. LET e == Children(b, task, k)
        IN  /\ TreeSound(e, w) /\ e.scans = b.scans /\ e.pending = b.pending
            /\ e.items = FilledRows(b.items, k,
                            ListedUnder(task.result.entries, b.items[k].depth + 1, w))
    BY <2>5, ChildrenSound
  <2> QED BY <1>4, <2>4, <2>5, <2>6 DEF AnswerShown
<1>5. CASE /\ ~task.result.error /\ task.path # <<>>
           /\ ~(rows # {} /\ \A k \in rows : b.items[k].expanded)
  <2>1. Answered(b, task) = b
    BY <1>5, Zenon DEF Answered
  <2>2. \/ \A k \in DOMAIN b.items : b.items[k].path # task.path
        \/ \E k \in DOMAIN b.items : b.items[k].path = task.path /\ ~b.items[k].expanded
    BY <1>5 DEF FindIndex
  <2> QED BY <1>5, <2>1, <2>2 DEF AnswerShown
<1> QED BY <1>2, <1>3, <1>4, <1>5

\* The answer of a scan reaches the tree that waits for it, and is dropped
\* otherwise.
LEMMA DeliverScanSound ==
  ASSUME NEW w, NEW b, TreeSound(b, w), b.scans.posted # <<>>
  PROVE  LET e == DeliverScan(b)
         IN  /\ TreeSound(e, w) /\ e.scans.next = b.scans.next /\ e.scans.closed = b.scans.closed
             /\ \/ e.items = b.items /\ e.pending = b.pending
                \/ /\ w \in Workspaces
                   /\ \E task \in ScanTasks :
                         /\ task.path \in DOMAIN b.pending
                         /\ DOMAIN e.pending = DOMAIN b.pending \ {task.path}
                         /\ AnswerShown(b, task, e.items, w)
<1> DEFINE id == Head(b.scans.posted)
           task == b.scans.tasks[id]
           l == Delivered(b.scans)
           c == [b EXCEPT !.scans = l]
           e == DeliverScan(b)
           waits == task.path \in DOMAIN b.pending /\ b.pending[task.path] = id
<1>1. /\ b = TreeShape(b.root, b.items, b.pending, b.scans) /\ b.root = w /\ w \in Roots
      /\ LoadSound(b.scans, ScanTasks) /\ b.items \in Seq(RowsOf(w))
      /\ PendingSound(b.pending, b.scans, w)
  BY DEF TreeSound
<1>2. /\ LoadSound(l, ScanTasks) /\ l.next = b.scans.next /\ l.closed = b.scans.closed
      /\ \A j, root, path : j # id /\ Awaited(b.scans, j, root, path) => Awaited(l, j, root, path)
  BY <1>1, DeliveredSound, ScanTasksClosed
<1>3. e = IF CallsBack(b.scans) THEN OnScanResult(c, id, task) ELSE c
  BY DEF DeliverScan
<1>4. CallsBack(b.scans) = (task.callback /\ ~b.scans.closed)
  BY DEF CallsBack
<1>5. \A d \in DOMAIN b.pending : b.pending[d] = id =>
         /\ CallsBack(b.scans) /\ d = task.path
         /\ task \in ScanTasks /\ task.root = w /\ w \in Workspaces
  <2>1. ASSUME NEW d \in DOMAIN b.pending, b.pending[d] = id
        PROVE  /\ id \in DOMAIN b.scans.tasks /\ task.callback /\ ~b.scans.closed
               /\ d = task.path /\ task.root = w
    BY <1>1, <2>1 DEF PendingSound, Awaited
  <2>2. ASSUME id \in DOMAIN b.scans.tasks
        PROVE  task \in ScanTasks /\ task.root \in Workspaces
    BY <1>1, <2>2 DEF LoadSound, ScanTasks, TaskOf
  <2> QED BY <1>4, <2>1, <2>2
<1> HIDE DEF l, e
<1>6. c = TreeShape(w, b.items, b.pending, l)
  BY <1>1 DEF TreeShape
<1> HIDE DEF c
<1>7. c.root = w /\ c.items = b.items /\ c.pending = b.pending /\ c.scans = l
  BY <1>6 DEF TreeShape
<1>8. CASE ~(waits /\ CallsBack(b.scans))
  <2>1. e = c
    BY <1>3, <1>7, <1>8, Zenon DEF OnScanResult
  <2>2. PendingSound(b.pending, l, w)
    BY <1>1, <1>2, <1>5, <1>8 DEF PendingSound
  <2>3. TreeSound(c, w)
    BY <1>1, <1>2, <1>6, <2>2, TreeOf
  <2> QED BY <1>2, <1>7, <2>1, <2>3 DEF e
<1>9. CASE waits /\ CallsBack(b.scans)
  <2> DEFINE path == task.path
             left == Forget(b.pending, {path})
             taken == [c EXCEPT !.pending = left]
  <2>1. taken = [c EXCEPT !.pending = Forget(@, {task.path})]
    BY <1>7
  <2>2. taken = TreeShape(w, b.items, left, l)
    <3> HIDE DEF left
    <3> QED BY <1>6 DEF TreeShape
  <2>3. PendingSound(left, l, w)
    <3>1. DOMAIN left = DOMAIN b.pending \ {path} /\ \A d \in DOMAIN left : left[d] = b.pending[d]
      BY DEF Forget, Restrict
    <3>2. \A d \in DOMAIN left : b.pending[d] # id
      BY <1>5, <3>1
    <3> HIDE DEF left
    <3> QED BY <1>1, <1>2, <3>1, <3>2 DEF PendingSound
  <2>b. DOMAIN left = DOMAIN b.pending \ {path}
    BY DEF Forget, Restrict
  <2> HIDE DEF left, taken
  <2>4. TreeSound(taken, w) /\ taken.scans = l /\ taken.items = b.items
        /\ taken.pending = left
    <3>1. TreeSound(taken, w) /\ taken.scans = l
      BY <1>1, <1>2, <2>2, <2>3, TreeOf
    <3> QED BY <2>2, <3>1 DEF TreeShape
  <2>5. e = Answered(taken, task)
    <3>1. e = OnScanResult(c, id, task)
      BY <1>3, <1>9
    <3>2. FindIndex(c, path) = FindIndex(taken, path)
      BY <1>7, <2>4 DEF FindIndex
    <3>3. path \in DOMAIN c.pending /\ c.pending[path] = id
      BY <1>7, <1>9
    <3> DEFINE rows == FindIndex(c, path)
               u == [c EXCEPT !.pending = Forget(@, {task.path})]
    <3>4. OnScanResult(c, id, task)
            = IF task.result.error THEN HandleScanError(u, task.path)
              ELSE IF task.path = <<>>
                   THEN [u EXCEPT !.items = [j \in DOMAIN task.result.entries |->
                                                Visible(task.result.entries[j], 0, task.root)]]
                   ELSE IF rows # {} /\ \A k \in rows : c.items[k].expanded
                        THEN Children(u, task, CHOOSE k \in rows : \A j \in rows : k <= j)
                        ELSE u
      BY <3>3, Zenon DEF OnScanResult
    <3>5. u = taken
      BY <2>1
    <3> HIDE DEF u, rows
    <3>6. rows = FindIndex(taken, path) /\ c.items = taken.items
      BY <1>7, <2>4, <3>2 DEF rows
    <3> QED BY <3>1, <3>4, <3>5, <3>6, Zenon DEF Answered
  <2>6. w \in Workspaces /\ task \in ScanTasks /\ task.root = w
    BY <1>5, <1>9
  <2>c. path = task.path /\ path \in DOMAIN b.pending
    BY <1>9
  <2> HIDE DEF task, path
  <2>7. /\ TreeSound(e, w) /\ e.scans = l /\ e.pending = left
        /\ AnswerShown(taken, task, e.items, w)
    BY <2>4, <2>5, <2>6, AnsweredSound
  <2>8. AnswerShown(b, task, e.items, w)
    BY <2>4, <2>7 DEF AnswerShown
  <2> QED BY <1>2, <2>6, <2>7, <2>8, <2>b, <2>c DEF e
<1> QED BY <1>8, <1>9

-----------------------------------------------------------------------------
(* The list of rows is a tree, and loads where it waits.                    *)

\* The rows are in preorder: a path is above the paths below it, which follow
\* it, and a row that is not at the top has its directory, expanded and listed.
Preorder(items) ==
    /\ \A i, j \in DOMAIN items : IsPrefix(items[i].path, items[j].path) => i <= j
    /\ \A i, j, l \in DOMAIN items :
          i < j /\ j < l /\ IsPrefix(items[i].path, items[l].path)
             => IsPrefix(items[i].path, items[j].path)
    /\ \A k \in DOMAIN items : Len(items[k].path) > 1 =>
          \E j \in DOMAIN items :
             items[j].path = Front(items[k].path) /\ items[j].expanded /\ ~items[j].loading

Descendants(items, k) ==
    {j \in DOMAIN items \ {k} : IsPrefix(items[k].path, items[j].path)}

\* What the rows are, of whatever workspace.
LEMMA RowFacts ==
  ASSUME NEW w, NEW items \in Seq(RowsOf(w)), NEW k \in DOMAIN items
  PROVE  /\ k \in Nat /\ 1 <= k /\ k <= Len(items) /\ Len(items) \in Nat
         /\ items[k].path \in Seq(Names) /\ Len(items[k].path) \in Nat
         /\ Len(items[k].path) >= 1 /\ Len(items[k].path) = items[k].depth + 1
         /\ items[k].depth \in Nat
         /\ items[k].expanded \in BOOLEAN /\ items[k].loading \in BOOLEAN
<1>1. items[k] \in RowsOf(w) /\ MaxDepth \in Nat
  BY WorkspaceAssumption
<1> DEFINE row == items[k]
<1> HIDE DEF row
<1>2. /\ row \in RowsOf(w)
      => /\ row.path \in Seq(Names) /\ Len(row.path) = row.depth + 1 /\ row.depth \in Nat
         /\ row.expanded \in BOOLEAN /\ row.loading \in BOOLEAN
  BY <1>1 DEF RowsOf
<1> QED BY <1>1, <1>2 DEF row

\* PrefixOrder, of the paths of two rows.
LEMMA RowPrefixes ==
  ASSUME NEW w, NEW items \in Seq(RowsOf(w)), Preorder(items)
  PROVE  /\ \A i, j \in DOMAIN items : items[i].path = items[j].path => i = j
         /\ \A i, j \in DOMAIN items :
               IsPrefix(items[i].path, items[j].path)
                  => Len(items[i].path) <= Len(items[j].path)
         /\ \A i, j \in DOMAIN items :
               /\ i # j
               /\ IsPrefix(items[i].path, items[j].path)
               => Len(items[i].path) < Len(items[j].path)
<1>1. \A i \in DOMAIN items :
         i \in Nat /\ items[i].path \in Seq(Names) /\ Len(items[i].path) \in Nat
  BY RowFacts
<1>2. ASSUME NEW i \in DOMAIN items, NEW j \in DOMAIN items, items[i].path = items[j].path
      PROVE  i = j
  <2>1. IsPrefix(items[i].path, items[j].path) /\ IsPrefix(items[j].path, items[i].path)
    BY <1>1, <1>2, PrefixOrder
  <2>2. i <= j /\ j <= i
    BY <2>1 DEF Preorder
  <2> QED BY <1>1, <2>2
<1>3. ASSUME NEW i \in DOMAIN items, NEW j \in DOMAIN items,
             IsPrefix(items[i].path, items[j].path)
      PROVE  Len(items[i].path) <= Len(items[j].path)
             /\ (Len(items[j].path) <= Len(items[i].path) => items[i].path = items[j].path)
  BY <1>1, <1>3, PrefixOrder
<1> QED BY <1>1, <1>2, <1>3

\* A row that is not expanded, or not listed yet, has no rows below it.
LEMMA Childless ==
  ASSUME NEW w, NEW items \in Seq(RowsOf(w)), Preorder(items), NEW k \in DOMAIN items,
         ~(items[k].expanded /\ ~items[k].loading)
  PROVE  Descendants(items, k) = {}
<1> SUFFICES ASSUME Descendants(items, k) # {} PROVE FALSE
  OBVIOUS
<1>1. \A i \in DOMAIN items :
         i \in Nat /\ items[i].path \in Seq(Names) /\ Len(items[i].path) \in Nat
         /\ Len(items[i].path) >= 1
  BY RowFacts
<1>2. Descendants(items, k) \subseteq Nat
  BY <1>1 DEF Descendants
<1>3. PICK j \in Descendants(items, k) : \A i \in Descendants(items, k) : j <= i
  BY <1>2, Least
<1>4. /\ j \in DOMAIN items /\ j # k /\ IsPrefix(items[k].path, items[j].path)
      /\ Len(items[k].path) < Len(items[j].path)
  BY RowPrefixes DEF Descendants
<1>5. Len(items[j].path) > 1
  BY <1>1, <1>4
<1>6. PICK p \in DOMAIN items :
         items[p].path = Front(items[j].path) /\ items[p].expanded /\ ~items[p].loading
  BY <1>4, <1>5 DEF Preorder
<1>7. IsPrefix(items[k].path, items[p].path) /\ IsPrefix(items[p].path, items[j].path)
      /\ Len(items[p].path) = Len(items[j].path) - 1
  BY <1>1, <1>4, <1>6, PrefixFront
<1>8. p # k /\ p # j /\ p <= j
  BY <1>1, <1>4, <1>6, <1>7 DEF Preorder
<1>9. p \in Descendants(items, k)
  BY <1>7, <1>8 DEF Descendants
<1> QED BY <1>1, <1>3, <1>4, <1>8, <1>9

\* _collapse counts deeper rows: these are the descendants.
LEMMA BelowAre ==
  ASSUME NEW w, NEW b, b.items \in Seq(RowsOf(w)), Preorder(b.items), NEW k \in DOMAIN b.items
  PROVE  Below(b, k) = Descendants(b.items, k)
<1> DEFINE items == b.items
           m == Len(items)
           path(i) == items[i].path
           depth(i) == items[i].depth
<1>1. /\ \A i \in DOMAIN items :
           /\ i \in Nat /\ path(i) \in Seq(Names) /\ Len(path(i)) \in Nat
           /\ Len(path(i)) = depth(i) + 1 /\ depth(i) \in Nat
      /\ DOMAIN items = 1..m /\ m \in Nat
  BY RowFacts
<1>2. /\ \A i, j \in DOMAIN items : IsPrefix(path(i), path(j)) => i <= j
      /\ \A i, j, l \in DOMAIN items :
            i < j /\ j < l /\ IsPrefix(path(i), path(l)) => IsPrefix(path(i), path(j))
      /\ \A i \in DOMAIN items : Len(path(i)) > 1 =>
            \E j \in DOMAIN items : path(j) = Front(path(i))
      /\ \A i, j \in DOMAIN items : path(i) = path(j) => i = j
      /\ \A i, j \in DOMAIN items :
            i # j /\ IsPrefix(path(i), path(j)) => Len(path(i)) < Len(path(j))
  BY RowPrefixes DEF Preorder
<1>3. Below(b, k) = {j \in (k + 1)..m : \A i \in (k + 1)..j : depth(i) > depth(k)}
  BY DEF Below
<1>4. Descendants(items, k) = {j \in DOMAIN items \ {k} : IsPrefix(path(k), path(j))}
  BY DEF Descendants
<1>a. \A s, t, u \in Seq(Names) : IsPrefix(s, t) /\ IsPrefix(t, u) => IsPrefix(s, u)
  BY PrefixOrder
<1>b. \A s, t, u \in Seq(Names) :
         IsPrefix(s, u) /\ IsPrefix(t, u) /\ Len(s) <= Len(t) => IsPrefix(s, t)
  BY PrefixOrder
<1>c. \A s \in Seq(Names) : Len(s) > 0 => Len(Front(s)) = Len(s) - 1 /\ IsPrefix(Front(s), s)
  BY PrefixFront
<1> HIDE DEF path, depth, items, m
<1>5. ASSUME NEW j \in Descendants(items, k)
      PROVE  j \in Below(b, k)
  <2>1. j \in DOMAIN items /\ j # k /\ IsPrefix(path(k), path(j)) /\ k \in DOMAIN items
    BY <1>4 DEF items
  <2>2. k < j
    BY <1>1, <1>2, <2>1
  <2>3. ASSUME NEW i \in (k + 1)..j
        PROVE  depth(i) > depth(k)
    <3>1. i \in DOMAIN items /\ i # k /\ k < i
      BY <1>1, <2>1, <2>2
    <3>2. IsPrefix(path(k), path(i))
      BY <1>1, <1>2, <2>1, <2>2, <3>1
    <3> QED BY <1>1, <1>2, <2>1, <3>1, <3>2
  <2> QED BY <1>1, <1>3, <2>1, <2>2, <2>3
<1>6. ASSUME NEW j \in Below(b, k), j \notin Descendants(items, k)
      PROVE  FALSE
  <2> DEFINE others == {i \in (k + 1)..j : ~IsPrefix(path(k), path(i))}
  <2>1. /\ k \in DOMAIN items /\ j \in DOMAIN items /\ k < j
        /\ \A i \in (k + 1)..j : i \in DOMAIN items /\ i \in Nat /\ depth(i) > depth(k)
    BY <1>1, <1>3 DEF items
  <2>2. j \in others
    BY <1>1, <1>4, <1>6, <2>1
  <2>3. others \subseteq Nat
    BY <2>1
  <2>4. PICK i \in others : \A l \in others : i <= l
    BY <2>2, <2>3, Least
  <2>5. /\ i \in DOMAIN items /\ depth(i) > depth(k) /\ ~IsPrefix(path(k), path(i))
        /\ k + 1 <= i /\ i <= j /\ i \in Nat
    BY <2>1
  <2>6. /\ Len(path(i)) = depth(i) + 1 /\ Len(path(k)) = depth(k) + 1
        /\ depth(i) \in Nat /\ depth(k) \in Nat /\ k \in Nat /\ j \in Nat
        /\ path(i) \in Seq(Names) /\ path(k) \in Seq(Names)
    BY <1>1, <2>1, <2>5
  <2>a. \A l \in Nat : k < l /\ l < i => IsPrefix(path(k), path(l))
    <3>1. ASSUME NEW l \in Nat, k < l, l < i, ~IsPrefix(path(k), path(l))
          PROVE  FALSE
      <4>1. l \in (k + 1)..j
        BY <2>5, <2>6, <3>1
      <4> QED BY <2>4, <2>5, <3>1, <4>1
    <3> QED BY <3>1
  <2> HIDE DEF others
  <2>7. PICK p \in DOMAIN items : path(p) = Front(path(i))
    BY <1>2, <2>5, <2>6
  <2>8. /\ Len(path(p)) = Len(path(i)) - 1 /\ IsPrefix(path(p), path(i))
        /\ p \in Nat /\ path(p) \in Seq(Names)
    BY <1>1, <1>c, <2>6, <2>7
  <2>b. p <= i
    BY <1>2, <2>5, <2>7, <2>8
  <2>9. p < i /\ Len(path(k)) <= Len(path(p))
    BY <2>5, <2>6, <2>8, <2>b
  <2>10. CASE p < k
    <3>1. k < i
      BY <2>5, <2>6
    <3>2. IsPrefix(path(p), path(k))
      BY <1>2, <2>1, <2>5, <2>7, <2>8, <2>10, <3>1
    <3>3. Len(path(p)) < Len(path(k))
      BY <1>2, <2>1, <2>6, <2>7, <2>8, <2>10, <3>2
    <3> QED BY <2>6, <2>8, <2>9, <3>3
  <2>11. CASE p = k
    BY <2>5, <2>8, <2>11
  <2>12. CASE k < p
    <3>1. IsPrefix(path(k), path(p))
      BY <2>8, <2>9, <2>12, <2>a
    <3> QED BY <1>a, <2>5, <2>6, <2>8, <3>1
  <2> QED BY <2>6, <2>8, <2>10, <2>11, <2>12
<1>7. Below(b, k) \subseteq Descendants(items, k)
  BY <1>6
<1> QED BY <1>5, <1>7 DEF items

\* A row loads exactly while its directory is pending (P), and is expanded then;
\* the root is pending only before it is listed; what is pending is shown.
Flags(items, P) ==
    /\ \A k \in DOMAIN items : items[k].loading <=> items[k].path \in P
    /\ \A k \in DOMAIN items : items[k].loading => items[k].expanded
    /\ <<>> \in P => items = <<>>
    /\ \A d \in P : d = <<>> \/ \E k \in DOMAIN items : items[k].path = d

Ordered(items, P) == Preorder(items) /\ Flags(items, P)

\* The fields of a row that was closed, listed or opened.
LEMMA RowFlags ==
  ASSUME NEW w, NEW row \in RowsOf(w)
  PROVE  /\ Shut(row) \in RowsOf(w) /\ Shut(row).path = row.path /\ Shut(row).kind = row.kind
         /\ ~Shut(row).expanded /\ ~Shut(row).loading
         /\ Quiet(row) \in RowsOf(w) /\ Quiet(row).path = row.path /\ Quiet(row).kind = row.kind
         /\ Quiet(row).expanded = row.expanded /\ ~Quiet(row).loading
         /\ Opening(row) \in RowsOf(w) /\ Opening(row).path = row.path
         /\ Opening(row).kind = row.kind /\ Opening(row).expanded /\ Opening(row).loading
<1>1. row = RowShape(row.path, row.kind, row.depth, row.expanded, row.loading, row.of)
  BY DEF RowsOf, RowShape
<1> DEFINE no == FALSE
           yes == TRUE
           p == [row EXCEPT !.expanded = no]
           q == [p EXCEPT !.loading = no]
           r == [row EXCEPT !.loading = no]
           s == [row EXCEPT !.expanded = yes]
           t == [s EXCEPT !.loading = yes]
<1>2. no \in BOOLEAN /\ yes \in BOOLEAN /\ no = FALSE /\ yes = TRUE
  OBVIOUS
<1>3. Shut(row) = q /\ Quiet(row) = r /\ Opening(row) = t
  BY DEF Shut, Quiet, Opening
<1>4. q = [row EXCEPT !.expanded = no, !.loading = no]
      /\ t = [row EXCEPT !.expanded = yes, !.loading = yes]
  OBVIOUS
<1> HIDE DEF no, yes
<1>5. q \in RowsOf(w) /\ r \in RowsOf(w) /\ t \in RowsOf(w)
  BY <1>2, <1>4, RowChanges
<1>6. p = RowShape(row.path, row.kind, row.depth, no, row.loading, row.of)
      /\ r = RowShape(row.path, row.kind, row.depth, row.expanded, no, row.of)
      /\ s = RowShape(row.path, row.kind, row.depth, yes, row.loading, row.of)
  BY <1>1 DEF RowShape
<1> HIDE DEF p, s
<1>7. q = RowShape(row.path, row.kind, row.depth, no, no, row.of)
      /\ t = RowShape(row.path, row.kind, row.depth, yes, yes, row.of)
  BY <1>6 DEF RowShape
<1> HIDE DEF q, r, t
<1>8. /\ q.path = row.path /\ q.kind = row.kind /\ q.expanded = no /\ q.loading = no
      /\ r.path = row.path /\ r.kind = row.kind /\ r.expanded = row.expanded /\ r.loading = no
      /\ t.path = row.path /\ t.kind = row.kind /\ t.expanded = yes /\ t.loading = yes
  BY <1>6, <1>7 DEF RowShape
<1> QED BY <1>2, <1>3, <1>5, <1>8

\* The same paths in the same places, and no listed directory less.
LEMMA SamePlaces ==
  ASSUME NEW old, NEW new, Preorder(old), DOMAIN new = DOMAIN old,
         \A k \in DOMAIN old : new[k].path = old[k].path,
         \A k \in DOMAIN old :
            old[k].expanded /\ ~old[k].loading => new[k].expanded /\ ~new[k].loading
  PROVE  Preorder(new)
<1>1. \A i, j \in DOMAIN new : IsPrefix(new[i].path, new[j].path) => i <= j
  BY DEF Preorder
<1>2. \A i, j, l \in DOMAIN new :
          i < j /\ j < l /\ IsPrefix(new[i].path, new[l].path)
             => IsPrefix(new[i].path, new[j].path)
  BY DEF Preorder
<1>3. ASSUME NEW k \in DOMAIN new, Len(new[k].path) > 1
      PROVE  \E j \in DOMAIN new :
               new[j].path = Front(new[k].path) /\ new[j].expanded /\ ~new[j].loading
  <2>1. PICK j \in DOMAIN old :
           old[j].path = Front(old[k].path) /\ old[j].expanded /\ ~old[j].loading
    BY <1>3 DEF Preorder
  <2> QED BY <2>1
<1> QED BY <1>1, <1>2, <1>3 DEF Preorder

\* An empty list.
LEMMA NoRows ==
  ASSUME NEW items, items = <<>>, NEW P, P \subseteq {<<>>}
  PROVE  Ordered(items, P)
<1>1. DOMAIN items = {}
  OBVIOUS
<1> QED BY <1>1 DEF Ordered, Preorder, Flags

\* A row other than the root has a name.
LEMMA RowIsNoRoot ==
  ASSUME NEW w, NEW items \in Seq(RowsOf(w)), NEW k \in DOMAIN items
  PROVE  items[k].path # <<>> /\ items # <<>>
<1>1. Len(items[k].path) >= 1 /\ Len(items) >= 1
  BY RowFacts
<1> QED BY <1>1

\* The rows of FailedRows, OpenedRows and QuietRows.
LEMMA FlagRows ==
  ASSUME NEW w, NEW items \in Seq(RowsOf(w)), NEW new,
         \/ \E d : new = FailedRows(items, d)
         \/ \E k \in DOMAIN items : new = OpenedRows(items, k)
         \/ new = QuietRows(items)
  PROVE  /\ new \in Seq(RowsOf(w)) /\ DOMAIN new = DOMAIN items
         /\ \A k \in DOMAIN items : new[k].path = items[k].path /\ new[k].kind = items[k].kind
<1>1. /\ Len(items) \in Nat /\ DOMAIN items = 1..Len(items)
      /\ \A k \in DOMAIN items : items[k] \in RowsOf(w)
  OBVIOUS
<1>2. \A row \in RowsOf(w) :
         /\ Shut(row) \in RowsOf(w) /\ Shut(row).path = row.path /\ Shut(row).kind = row.kind
         /\ Quiet(row) \in RowsOf(w) /\ Quiet(row).path = row.path /\ Quiet(row).kind = row.kind
         /\ Opening(row) \in RowsOf(w) /\ Opening(row).path = row.path
         /\ Opening(row).kind = row.kind
  BY RowFlags
<1>3. /\ DOMAIN new = DOMAIN items
      /\ new = [k \in DOMAIN items |-> new[k]]
      /\ \A k \in DOMAIN items :
            new[k] \in {items[k], Shut(items[k]), Quiet(items[k]), Opening(items[k])}
  <2>1. CASE \E d : new = FailedRows(items, d)
    BY <2>1 DEF FailedRows
  <2>2. CASE \E k \in DOMAIN items : new = OpenedRows(items, k)
    <3>1. PICK k \in DOMAIN items : new = [items EXCEPT ![k] = Opening(items[k])]
      BY <2>2 DEF OpenedRows
    <3>2. items \in [1..Len(items) -> RowsOf(w)]
      BY <1>1
    <3> DEFINE row == Opening(items[k])
    <3> HIDE DEF row
    <3>3. /\ DOMAIN [items EXCEPT ![k] = row] = DOMAIN items
          /\ [items EXCEPT ![k] = row] = [j \in DOMAIN items |-> [items EXCEPT ![k] = row][j]]
          /\ \A j \in DOMAIN items : [items EXCEPT ![k] = row][j] \in {items[j], row}
          /\ [items EXCEPT ![k] = row][k] = row
          /\ \A j \in DOMAIN items \ {k} : [items EXCEPT ![k] = row][j] = items[j]
      BY <3>2
    <3> QED BY <3>1, <3>3 DEF row
  <2>3. CASE new = QuietRows(items)
    BY <2>3 DEF QuietRows
  <2> QED BY <2>1, <2>2, <2>3
<1>4. \A k \in DOMAIN items :
         new[k] \in RowsOf(w) /\ new[k].path = items[k].path /\ new[k].kind = items[k].kind
  BY <1>1, <1>2, <1>3
<1>5. new \in [1..Len(items) -> RowsOf(w)]
  BY <1>1, <1>3, <1>4
<1> QED BY <1>1, <1>3, <1>4, <1>5

\* The directory that waited for an answer could not be read.
LEMMA FailedOrdered ==
  ASSUME NEW w, NEW items \in Seq(RowsOf(w)), NEW P, Ordered(items, P), NEW d \in P
  PROVE  Ordered(FailedRows(items, d), P \ {d})
<1> DEFINE new == FailedRows(items, d)
<1>1. /\ new \in Seq(RowsOf(w)) /\ DOMAIN new = DOMAIN items
      /\ \A k \in DOMAIN items : new[k].path = items[k].path
  BY FlagRows
<1>2. \A k \in DOMAIN items :
         new[k] = IF items[k].path = d THEN Shut(items[k]) ELSE items[k]
  BY DEF FailedRows
<1>3. \A k \in DOMAIN items : ~Shut(items[k]).expanded /\ ~Shut(items[k]).loading
  BY RowFlags
<1>4. items = <<>> => new = <<>>
  BY DEF FailedRows
<1> HIDE DEF new
<1>5. Preorder(new)
  BY <1>1, <1>2, SamePlaces DEF Ordered, Flags
<1>6. Flags(new, P \ {d})
  BY <1>1, <1>2, <1>3, <1>4 DEF Ordered, Flags
<1> QED BY <1>5, <1>6 DEF Ordered, new

\* A directory that was not expanded is opened.
LEMMA OpenedOrdered ==
  ASSUME NEW w, NEW items \in Seq(RowsOf(w)), NEW P, Ordered(items, P),
         NEW k \in DOMAIN items, ~items[k].expanded
  PROVE  Ordered(OpenedRows(items, k), P \cup {items[k].path})
<1> DEFINE new == OpenedRows(items, k)
           row == Opening(items[k])
<1>1. /\ new \in Seq(RowsOf(w)) /\ DOMAIN new = DOMAIN items
      /\ \A j \in DOMAIN items : new[j].path = items[j].path
  BY FlagRows
<1>2. row.expanded /\ row.loading /\ row.path = items[k].path
  BY RowFlags
<1>3. new[k] = row /\ \A j \in DOMAIN items \ {k} : new[j] = items[j]
  <2> HIDE DEF row
  <2> QED BY DEF OpenedRows, row
<1>4. \A j \in DOMAIN items : items[j].path = items[k].path => j = k
  BY RowPrefixes DEF Ordered
<1>5. items # <<>> /\ items[k].path # <<>>
  BY RowIsNoRoot
<1> HIDE DEF new, row
<1>6. Preorder(new)
  BY <1>1, <1>3, SamePlaces DEF Ordered
<1>7. Flags(new, P \cup {items[k].path})
  BY <1>1, <1>2, <1>3, <1>4, <1>5 DEF Ordered, Flags
<1> QED BY <1>6, <1>7 DEF Ordered, new

\* Nothing is loaded any more.
LEMMA QuietOrdered ==
  ASSUME NEW w, NEW items \in Seq(RowsOf(w)), NEW P, Ordered(items, P)
  PROVE  Ordered(QuietRows(items), {})
<1> DEFINE new == QuietRows(items)
<1>1. /\ new \in Seq(RowsOf(w)) /\ DOMAIN new = DOMAIN items
      /\ \A k \in DOMAIN items : new[k].path = items[k].path
  BY FlagRows
<1>2. \A k \in DOMAIN items : new[k].expanded = items[k].expanded /\ ~new[k].loading
  BY RowFlags DEF QuietRows
<1> HIDE DEF new
<1>3. Preorder(new)
  BY <1>1, <1>2, SamePlaces DEF Ordered
<1>4. Flags(new, {})
  BY <1>1, <1>2 DEF Flags
<1> QED BY <1>3, <1>4 DEF Ordered, new

\* The number of rows a collapse takes, which are those after the row.
LEMMA BelowInterval ==
  ASSUME NEW w, NEW b, b.items \in Seq(RowsOf(w)), NEW k \in DOMAIN b.items, NEW g,
         g = Cardinality(Below(b, k))
  PROVE  g \in Nat /\ k + g <= Len(b.items) /\ Below(b, k) = (k + 1)..(k + g)
<1> DEFINE m == Len(b.items)
           deeper(i) == b.items[i].depth > b.items[k].depth
           outside == {j \in (k + 1)..(m + 1) : j \notin Below(b, k)}
<1>1. m \in Nat /\ k \in Nat /\ k <= m
  BY RowFacts
<1>2. Below(b, k) = {j \in (k + 1)..m : \A i \in (k + 1)..j : deeper(i)}
  BY DEF Below
<1> HIDE DEF deeper, m
<1>3. m + 1 \in outside /\ outside \subseteq Nat
  BY <1>1, <1>2
<1>4. PICK l \in outside : \A j \in outside : l <= j
  BY <1>3, Least
<1>5. l \in Nat /\ k + 1 <= l /\ l <= m + 1 /\ l \notin Below(b, k)
  BY <1>1
<1>6. \A j \in (k + 1)..(m + 1) : j < l => j \in Below(b, k)
  BY <1>1, <1>4, <1>5
<1>7. Below(b, k) = (k + 1)..(l - 1)
  <2>1. ASSUME NEW j \in Below(b, k)
        PROVE  j \in (k + 1)..(l - 1)
    <3>1. j \in (k + 1)..m /\ \A i \in (k + 1)..j : deeper(i)
      BY <1>2
    <3>2. ASSUME l <= j
          PROVE  l \in Below(b, k)
      BY <1>1, <1>2, <1>5, <3>1, <3>2
    <3> QED BY <1>1, <1>5, <3>1, <3>2
  <2>2. (k + 1)..(l - 1) \subseteq Below(b, k)
    BY <1>1, <1>5, <1>6
  <2> QED BY <2>1, <2>2
<1> HIDE DEF outside
<1>8. Cardinality((k + 1)..(l - 1)) = IF k + 1 > l - 1 THEN 0 ELSE (l - 1) - (k + 1) + 1
  <2>1. k + 1 \in Int /\ l - 1 \in Int
    BY <1>1, <1>5
  <2> DEFINE x == k + 1
             y == l - 1
  <2> HIDE DEF x, y
  <2>2. x \in Int /\ y \in Int => Cardinality(x..y) = IF x > y THEN 0 ELSE y - x + 1
    BY FS_Interval
  <2> QED BY <2>1, <2>2 DEF x, y
<1>9. g = l - 1 - k
  <2>1. g = IF k + 1 > l - 1 THEN 0 ELSE (l - 1) - (k + 1) + 1
    BY <1>7, <1>8
  <2> QED BY <1>1, <1>5, <2>1
<1>10. g \in Nat /\ k + g <= m /\ k + g = l - 1
  BY <1>1, <1>5, <1>9
<1> QED BY <1>7, <1>10 DEF m

\* Where a row comes from that g rows after row k were taken before.
Place(k, g, i) == IF i <= k THEN i ELSE i + g

\* The places of a list in two parts.
LEMMA TwoParts ==
  ASSUME NEW S, NEW a \in Seq(S), NEW c \in Seq(S)
  PROVE  /\ a \o c \in Seq(S) /\ Len(a \o c) = Len(a) + Len(c)
         /\ \A i \in 1..Len(a) : (a \o c)[i] = a[i]
         /\ \A i \in 1..Len(c) : (a \o c)[Len(a) + i] = c[i]
OBVIOUS

\* The rows of CollapsedRows.
LEMMA CollapsedPlaces ==
  ASSUME NEW w, NEW items \in Seq(RowsOf(w)), NEW k \in DOMAIN items, NEW g \in Nat,
         k + g <= Len(items), NEW new, new = CollapsedRows(items, k, g)
  PROVE  /\ new \in Seq(RowsOf(w)) /\ Len(new) = Len(items) - g /\ k \in DOMAIN new
         /\ new[k] = Shut(items[k])
         /\ \A i \in DOMAIN new :
               /\ Place(k, g, i) \in DOMAIN items \ ((k + 1)..(k + g))
               /\ i # k => new[i] = items[Place(k, g, i)]
<1> DEFINE row == Shut(items[k])
           head == SubSeq(items, 1, k)
           a == [head EXCEPT ![k] = row]
           c == SubSeq(items, k + 1 + g, Len(items))
<1>1. Len(items) \in Nat /\ k \in Nat /\ 1 <= k /\ k <= Len(items) /\ row \in RowsOf(w)
  BY RowFacts, RowFlags
<1>2. new = a \o c
  BY DEF CollapsedRows
<1> HIDE DEF row
<1>3. head \in Seq(RowsOf(w)) /\ Len(head) = k /\ \A i \in 1..k : head[i] = items[i]
  BY <1>1
<1> HIDE DEF head
<1>4. a \in Seq(RowsOf(w)) /\ Len(a) = k /\ a[k] = row /\ \A i \in 1..k : i # k => a[i] = items[i]
  BY <1>1, <1>3
<1> DEFINE n == Len(items) - k - g
<1>5. /\ c \in Seq(RowsOf(w)) /\ Len(c) = n /\ n \in Nat
      /\ \A i \in 1..n : c[i] = items[k + g + i]
  <2> DEFINE s == k + 1 + g
  <2>1. s \in Nat \ {0} /\ s <= Len(items) + 1 /\ n = Len(items) + 1 - s /\ n \in Nat
    BY <1>1
  <2>2. \A i \in 1..n : k + g + i = s - 1 + i
    BY <1>1
  <2>3. c = SubSeq(items, s, Len(items))
    BY DEF c
  <2> HIDE DEF s, n, c
  <2>4. CASE s <= Len(items)
    <3>1. c \in Seq(RowsOf(w)) /\ Len(c) = n /\ \A i \in 1..n : c[i] = items[s - 1 + i]
      BY <2>1, <2>3, <2>4
    <3> QED BY <2>1, <2>2, <3>1
  <2>5. CASE ~(s <= Len(items))
    <3>1. c = <<>> /\ n = 0
      BY <1>1, <2>1, <2>3, <2>5
    <3> QED BY <2>1, <3>1
  <2> QED BY <2>4, <2>5
<1> HIDE DEF a, c
<1>6. /\ new \in Seq(RowsOf(w)) /\ Len(new) = Len(items) - g
      /\ \A i \in 1..k : new[i] = a[i]
      /\ \A i \in 1..n : new[k + i] = c[i]
  <2>1. k + n = Len(items) - g
    BY <1>1
  <2> HIDE DEF n
  <2>2. /\ new \in Seq(RowsOf(w)) /\ Len(new) = k + n
        /\ \A i \in 1..k : new[i] = a[i]
        /\ \A i \in 1..n : new[k + i] = c[i]
    <3> DEFINE S == RowsOf(w)
    <3> HIDE DEF S
    <3>1. a \in Seq(S) /\ c \in Seq(S)
      BY <1>4, <1>5 DEF S
    <3>2. /\ a \o c \in Seq(S) /\ Len(a \o c) = Len(a) + Len(c)
          /\ \A i \in 1..Len(a) : (a \o c)[i] = a[i]
          /\ \A i \in 1..Len(c) : (a \o c)[Len(a) + i] = c[i]
      BY <3>1, TwoParts
    <3>3. Len(a) = k /\ Len(c) = n
      BY <1>4, <1>5
    <3> QED BY <1>2, <3>2, <3>3, Zenon DEF S
  <2> QED BY <2>1, <2>2
<1>7. ASSUME NEW i \in DOMAIN new
      PROVE  /\ Place(k, g, i) \in DOMAIN items \ ((k + 1)..(k + g))
             /\ i # k => new[i] = items[Place(k, g, i)]
  <2>1. CASE i <= k
    BY <1>1, <1>4, <1>6, <2>1 DEF Place
  <2>2. CASE ~(i <= k)
    <3> DEFINE j == i - k
    <3>1. j \in 1..n /\ i = k + j
      BY <1>1, <1>6, <2>2
    <3>2. new[i] = items[k + g + j]
      BY <1>5, <1>6, <3>1
    <3>3. Place(k, g, i) = k + g + j
      BY <1>1, <2>2, <3>1 DEF Place
    <3> QED BY <1>1, <3>1, <3>2, <3>3
  <2> QED BY <2>1, <2>2
<1> QED BY <1>1, <1>4, <1>6, <1>7 DEF row

\* A collapsed directory: its row stays, closed, and what was below it is gone.
LEMMA CollapsedOrdered ==
  ASSUME NEW w, NEW items \in Seq(RowsOf(w)), NEW P, Ordered(items, P), NEW k \in DOMAIN items,
         NEW g \in Nat, k + g <= Len(items), Descendants(items, k) = (k + 1)..(k + g), NEW Q,
         Q = P \ {items[j].path : j \in Descendants(items, k) \cup {k}}
  PROVE  Ordered(CollapsedRows(items, k, g), Q)
<1> DEFINE new == CollapsedRows(items, k, g)
           f(i) == Place(k, g, i)
           D == Descendants(items, k)
<1>1. /\ \A i \in DOMAIN items :
            /\ i \in Nat /\ items[i].path \in Seq(Names) /\ Len(items[i].path) \in Nat
            /\ Len(items[i].path) >= 1
      /\ k \in Nat
  BY RowFacts
<1>2. /\ new \in Seq(RowsOf(w)) /\ Len(new) = Len(items) - g /\ k \in DOMAIN new
      /\ new[k] = Shut(items[k])
      /\ \A i \in DOMAIN new : /\ f(i) \in DOMAIN items \ D
                               /\ i # k => new[i] = items[f(i)]
  BY CollapsedPlaces
<1>3. /\ \A i \in DOMAIN new : new[i].path = items[f(i)].path /\ i \in Nat
      /\ ~new[k].expanded /\ ~new[k].loading
  <2>1. f(k) = k
    BY <1>1 DEF Place
  <2>2. Shut(items[k]).path = items[k].path /\ ~Shut(items[k]).expanded /\ ~Shut(items[k]).loading
    BY RowFlags
  <2>3. DOMAIN new \subseteq Nat
    BY <1>2
  <2> HIDE DEF new
  <2> QED BY <1>2, <2>1, <2>2, <2>3
<1>4. /\ \A i, j \in DOMAIN new : (f(i) <= f(j) <=> i <= j) /\ (i < j => f(i) < f(j))
      /\ \A i \in DOMAIN new : f(i) = k => i = k
      /\ \A j \in DOMAIN items \ D : \E i \in DOMAIN new : f(i) = j
  <2>1. /\ \A i, j \in Nat : (f(i) <= f(j) <=> i <= j) /\ (i < j => f(i) < f(j))
        /\ \A i \in Nat : f(i) = k => i = k
    BY <1>1 DEF Place
  <2>2. ASSUME NEW j \in DOMAIN items \ D
        PROVE  \E i \in DOMAIN new : f(i) = j
    <3>1. j \in Nat /\ 1 <= j /\ j <= Len(items) /\ Len(items) \in Nat /\ ~(j \in (k + 1)..(k + g))
      BY RowFacts
    <3>2. CASE j <= k
      BY <1>1, <1>2, <3>1, <3>2 DEF Place
    <3>3. CASE ~(j <= k)
      <4>1. j - g \in DOMAIN new /\ ~(j - g <= k) /\ j - g + g = j
        BY <1>1, <1>2, <3>1, <3>3
      <4> QED BY <4>1 DEF Place
    <3> QED BY <3>2, <3>3
  <2> HIDE DEF f
  <2> QED BY <1>3, <2>1, <2>2
<1>5. D = {j \in DOMAIN items \ {k} : IsPrefix(items[k].path, items[j].path)}
  BY DEF Descendants
<1>6. /\ Preorder(items) /\ Flags(items, P)
      /\ \A i, j \in DOMAIN items : items[i].path = items[j].path => i = j
  BY RowPrefixes DEF Ordered
<1> HIDE DEF new, f, D
<1>7. \A i, j \in DOMAIN new : IsPrefix(new[i].path, new[j].path) => i <= j
  BY <1>2, <1>3, <1>4, <1>6 DEF Preorder
<1>8. \A i, j, l \in DOMAIN new :
          i < j /\ j < l /\ IsPrefix(new[i].path, new[l].path)
             => IsPrefix(new[i].path, new[j].path)
  BY <1>2, <1>3, <1>4, <1>6 DEF Preorder
<1>9. ASSUME NEW i \in DOMAIN new, Len(new[i].path) > 1
      PROVE  \E j \in DOMAIN new :
               new[j].path = Front(new[i].path) /\ new[j].expanded /\ ~new[j].loading
  <2> DEFINE u == f(i)
  <2>1. u \in DOMAIN items \ D /\ Len(items[u].path) > 1 /\ new[i].path = items[u].path
    BY <1>2, <1>3, <1>9
  <2>2. PICK p \in DOMAIN items :
           items[p].path = Front(items[u].path) /\ items[p].expanded /\ ~items[p].loading
    BY <1>6, <2>1 DEF Preorder
  <2>3. IsPrefix(items[p].path, items[u].path) /\ Len(items[p].path) < Len(items[u].path)
    BY <1>1, <2>1, <2>2, PrefixFront
  <2>4. ASSUME p \in D \cup {k}
        PROVE  FALSE
    <3>1. IsPrefix(items[k].path, items[p].path)
      BY <1>1, <1>5, <2>4, PrefixOrder
    <3>2. IsPrefix(items[k].path, items[u].path) /\ Len(items[k].path) < Len(items[u].path)
      BY <1>1, <2>1, <2>2, <2>3, <3>1, PrefixOrder
    <3>3. u # k
      BY <1>1, <3>2
    <3> QED BY <1>5, <2>1, <3>2, <3>3
  <2>5. PICK j \in DOMAIN new : f(j) = p
    BY <1>4, <2>4
  <2>6. j # k
    BY <1>1, <2>4, <2>5 DEF f, Place
  <2> QED BY <1>2, <2>1, <2>2, <2>5, <2>6
<1>10. Preorder(new)
  BY <1>7, <1>8, <1>9 DEF Preorder
<1>11. ASSUME NEW i \in DOMAIN new
       PROVE  /\ new[i].loading <=> new[i].path \in Q
              /\ new[i].loading => new[i].expanded
  <2>1. CASE i = k
    <3>1. new[i].path = items[k].path
      BY <1>1, <1>3, <2>1 DEF f, Place
    <3> QED BY <1>3, <2>1, <3>1
  <2>2. CASE i # k
    <3>1. f(i) \in DOMAIN items \ D /\ f(i) # k /\ new[i] = items[f(i)]
      BY <1>2, <1>4, <2>2
    <3>2. items[f(i)].path \in Q <=> items[f(i)].path \in P
      BY <1>5, <1>6, <3>1 DEF D
    <3> QED BY <1>6, <3>1, <3>2 DEF Flags
  <2> QED BY <2>1, <2>2
<1>12. <<>> \notin Q
  BY <1>6, RowIsNoRoot DEF Flags
<1>13. ASSUME NEW d \in Q
       PROVE  \E i \in DOMAIN new : new[i].path = d
  <2>1. PICK j \in DOMAIN items : items[j].path = d
    BY <1>6, <1>12 DEF Flags
  <2>2. j \notin D
    BY <2>1 DEF D
  <2> QED BY <1>3, <1>4, <2>1, <2>2
<1>14. Flags(new, Q)
  BY <1>11, <1>12, <1>13 DEF Flags
<1> QED BY <1>10, <1>14 DEF Ordered, new

\* Where a row goes when n rows come after row k.
Moved(k, n, j) == IF j <= k THEN j ELSE j + n

\* The rows of FilledRows.
LEMMA FilledPlaces ==
  ASSUME NEW w, NEW items \in Seq(RowsOf(w)), NEW k \in DOMAIN items, NEW rows \in Seq(RowsOf(w)),
         NEW n, n = Len(rows), NEW new, new = FilledRows(items, k, rows)
  PROVE  /\ new \in Seq(RowsOf(w)) /\ k \in DOMAIN new /\ n \in Nat
         /\ new[k] = Quiet(items[k])
         /\ \A j \in DOMAIN items :
               /\ Moved(k, n, j) \in DOMAIN new
               /\ j # k => new[Moved(k, n, j)] = items[j]
         /\ \A i \in DOMAIN rows : k + i \in DOMAIN new /\ new[k + i] = rows[i]
         /\ \A x \in DOMAIN new : \/ \E j \in DOMAIN items : x = Moved(k, n, j)
                                  \/ \E i \in DOMAIN rows : x = k + i
<1> DEFINE row == Quiet(items[k])
           head == SubSeq(items, 1, k)
           a == [head EXCEPT ![k] = row]
           c == SubSeq(items, k + 1, Len(items))
           m == Len(items) - k
           S == RowsOf(w)
<1>1. /\ Len(items) \in Nat /\ k \in Nat /\ 1 <= k /\ k <= Len(items) /\ row \in S
      /\ n \in Nat /\ m \in Nat
  <2>1. /\ Len(items) \in Nat /\ k \in Nat /\ 1 <= k /\ k <= Len(items)
        /\ items[k] \in RowsOf(w)
    BY RowFacts
  <2>2. row \in RowsOf(w)
    BY <2>1, RowFlags
  <2>3. n \in Nat
    OBVIOUS
  <2> HIDE DEF row
  <2> QED BY <2>1, <2>2, <2>3
<1>2. new = (a \o rows) \o c
  BY DEF FilledRows
<1> HIDE DEF row, S
<1>3. head \in Seq(S) /\ Len(head) = k /\ \A i \in 1..k : head[i] = items[i]
  BY <1>1 DEF S
<1> HIDE DEF head
<1>4. a \in Seq(S) /\ Len(a) = k /\ a[k] = row /\ \A i \in 1..k : i # k => a[i] = items[i]
  BY <1>1, <1>3
<1>5. c \in Seq(S) /\ Len(c) = m /\ \A i \in 1..m : c[i] = items[k + i]
  <2>1. CASE k = Len(items)
    <3>1. c = <<>> /\ m = 0
      BY <1>1, <2>1
    <3> QED BY <3>1
  <2>2. CASE k < Len(items)
    <3> DEFINE s == k + 1
    <3>1. /\ s \in Nat \ {0} /\ s <= Len(items) /\ m = Len(items) + 1 - s
          /\ \A i \in 1..m : k + i = s - 1 + i
      BY <1>1, <2>2
    <3>2. c = SubSeq(items, s, Len(items))
      OBVIOUS
    <3> HIDE DEF s, m, c
    <3>3. c \in Seq(S) /\ Len(c) = m /\ \A i \in 1..m : c[i] = items[s - 1 + i]
      BY <1>1, <3>1, <3>2 DEF S
    <3> QED BY <3>1, <3>3
  <2> QED BY <1>1, <2>1, <2>2
<1> HIDE DEF a, c
<1> DEFINE ar == a \o rows
<1>6. /\ ar \in Seq(S) /\ Len(ar) = k + n
      /\ \A i \in 1..k : ar[i] = a[i]
      /\ \A i \in 1..n : ar[k + i] = rows[i]
  <2>1. rows \in Seq(S)
    BY DEF S
  <2>2. /\ a \o rows \in Seq(S) /\ Len(a \o rows) = Len(a) + Len(rows)
        /\ \A i \in 1..Len(a) : (a \o rows)[i] = a[i]
        /\ \A i \in 1..Len(rows) : (a \o rows)[Len(a) + i] = rows[i]
    <3>1. a \in Seq(S)
      BY <1>4
    <3> QED BY <2>1, <3>1, TwoParts
  <2>3. Len(a) = k
    BY <1>4
  <2> QED BY <2>2, <2>3, Zenon
<1> HIDE DEF ar
<1>7. /\ new \in Seq(S) /\ Len(new) = k + n + m
      /\ \A i \in 1..(k + n) : new[i] = ar[i]
      /\ \A i \in 1..m : new[k + n + i] = c[i]
  <2>1. /\ ar \o c \in Seq(S) /\ Len(ar \o c) = Len(ar) + Len(c)
        /\ \A i \in 1..Len(ar) : (ar \o c)[i] = ar[i]
        /\ \A i \in 1..Len(c) : (ar \o c)[Len(ar) + i] = c[i]
    <3>1. ar \in Seq(S) /\ c \in Seq(S)
      BY <1>5, <1>6
    <3> QED BY <3>1, TwoParts
  <2>2. Len(ar) = k + n /\ Len(c) = m
    BY <1>5, <1>6
  <2>3. new = ar \o c
    BY <1>2 DEF ar
  <2> HIDE DEF m
  <2> QED BY <2>1, <2>2, <2>3, Zenon
<1>8. DOMAIN new = 1..(k + n + m) /\ DOMAIN items = 1..(k + m) /\ DOMAIN rows = 1..n
  BY <1>1, <1>7
<1> HIDE DEF m
<1>9. new[k] = row /\ k \in DOMAIN new
  <2>1. k \in 1..k /\ k \in 1..(k + n) /\ k \in 1..(k + n + m)
    BY <1>1
  <2> QED BY <1>4, <1>6, <1>7, <1>8, <2>1, Zenon
<1>10. ASSUME NEW j \in DOMAIN items
       PROVE  /\ Moved(k, n, j) \in DOMAIN new
              /\ j # k => new[Moved(k, n, j)] = items[j]
  <2>1. CASE j <= k
    BY <1>1, <1>4, <1>6, <1>7, <1>8, <2>1 DEF Moved
  <2>2. CASE ~(j <= k)
    <3> DEFINE i == j - k
    <3>1. i \in 1..m /\ j = k + i /\ i \in Nat
      BY <1>1, <1>8, <2>2
    <3>2. Moved(k, n, j) = k + n + i
      BY <1>1, <2>2, <3>1 DEF Moved
    <3>3. k + n + i \in DOMAIN new
      BY <1>1, <1>8, <3>1
    <3> HIDE DEF i
    <3> QED BY <1>5, <1>7, <3>1, <3>2, <3>3, Zenon
  <2> QED BY <2>1, <2>2
<1>11. ASSUME NEW i \in DOMAIN rows
       PROVE  k + i \in DOMAIN new /\ new[k + i] = rows[i]
  <2>1. i \in 1..n /\ k + i \in 1..(k + n) /\ k + i \in DOMAIN new
    BY <1>1, <1>8
  <2> QED BY <1>6, <1>7, <2>1, Zenon
<1>12. ASSUME NEW x \in DOMAIN new
       PROVE  \/ \E j \in DOMAIN items : x = Moved(k, n, j)
              \/ \E i \in DOMAIN rows : x = k + i
  <2>1. CASE x <= k
    BY <1>1, <1>8, <2>1 DEF Moved
  <2>2. CASE k < x /\ x <= k + n
    <3>1. x - k \in DOMAIN rows /\ x = k + (x - k)
      BY <1>1, <1>8, <2>2
    <3> QED BY <3>1
  <2>3. CASE k + n < x
    <3>1. x - n \in DOMAIN items /\ ~(x - n <= k) /\ x = (x - n) + n
      BY <1>1, <1>8, <2>3
    <3> QED BY <3>1 DEF Moved
  <2> QED BY <1>1, <1>8, <2>1, <2>2, <2>3
<1>13. new \in Seq(RowsOf(w)) /\ new[k] = Quiet(items[k])
  BY <1>7, <1>9 DEF S, row
<1> QED BY <1>1, <1>9, <1>10, <1>11, <1>12, <1>13

\* The rows of a listing: the directory is right above them, none is there twice,
\* and they are closed.
ListedOf(rows, directory) ==
    /\ \A i \in DOMAIN rows :
          /\ rows[i].path \in Seq(Names) /\ Len(rows[i].path) = Len(directory) + 1
          /\ Front(rows[i].path) = directory
          /\ ~rows[i].expanded /\ ~rows[i].loading
    /\ \A i, j \in DOMAIN rows : rows[i].path = rows[j].path => i = j

LEMMA ListedFacts ==
  ASSUME NEW w \in Workspaces, NEW directory \in Seq(Names), Len(directory) <= MaxDepth,
         NEW entries \in Listings(directory), NEW depth, depth = Len(directory)
  PROVE  /\ ListedUnder(entries, depth, w) \in Seq(RowsOf(w))
         /\ ListedOf(ListedUnder(entries, depth, w), directory)
<1> DEFINE rows == ListedUnder(entries, depth, w)
<1>1. rows \in Seq(RowsOf(w))
  BY ListedRows DEF ListedUnder
<1>2. /\ entries \in Seq(EntriesOf(directory))
      /\ \A i, j \in DOMAIN entries : entries[i].path = entries[j].path => i = j
  BY DEF Listings
<1>3. DOMAIN rows = DOMAIN entries
  BY DEF ListedUnder
<1>4. ASSUME NEW i \in DOMAIN entries
      PROVE  /\ rows[i].path = entries[i].path /\ ~rows[i].expanded /\ ~rows[i].loading
  BY DEF ListedUnder, Visible
<1>5. ASSUME NEW i \in DOMAIN entries
      PROVE  /\ entries[i].path \in Seq(Names) /\ Len(entries[i].path) = Len(directory) + 1
             /\ Front(entries[i].path) = directory
  <2>1. entries[i] \in EntriesOf(directory)
    BY <1>2
  <2> QED BY <2>1 DEF EntriesOf
<1> HIDE DEF rows
<1> QED BY <1>1, <1>2, <1>3, <1>4, <1>5 DEF ListedOf, rows

\* The first listing of the root.
LEMMA RootOrdered ==
  ASSUME NEW w, NEW items \in Seq(RowsOf(w)), NEW P, Ordered(items, P), <<>> \in P,
         NEW rows \in Seq(RowsOf(w)), ListedOf(rows, <<>>)
  PROVE  Ordered(rows, P \ {<<>>})
<1>1. items = <<>> /\ DOMAIN items = {}
  BY DEF Ordered, Flags
<1>2. P \ {<<>>} = {}
  BY <1>1 DEF Ordered, Flags
<1>3. \A i \in DOMAIN rows :
         /\ rows[i].path \in Seq(Names) /\ Len(rows[i].path) = 1
         /\ ~rows[i].expanded /\ ~rows[i].loading
         /\ i \in Nat
  BY DEF ListedOf
<1>4. \A i, j \in DOMAIN rows : IsPrefix(rows[i].path, rows[j].path) => i = j
  <2>1. ASSUME NEW i \in DOMAIN rows, NEW j \in DOMAIN rows, IsPrefix(rows[i].path, rows[j].path)
        PROVE  i = j
    <3>1. rows[i].path = rows[j].path
      BY <1>3, <2>1, PrefixOrder
    <3> QED BY <3>1 DEF ListedOf
  <2> QED BY <2>1
<1>5. Preorder(rows)
  <2>1. \A i, j \in DOMAIN rows : IsPrefix(rows[i].path, rows[j].path) => i <= j
    BY <1>3, <1>4
  <2>2. \A i, j, l \in DOMAIN rows :
           i < j /\ j < l /\ IsPrefix(rows[i].path, rows[l].path)
              => IsPrefix(rows[i].path, rows[j].path)
    BY <1>3, <1>4
  <2>3. ASSUME NEW i \in DOMAIN rows
        PROVE  ~(Len(rows[i].path) > 1)
    <3>1. Len(rows[i].path) = 1
      BY <1>3
    <3> QED BY <3>1
  <2> QED BY <2>1, <2>2, <2>3 DEF Preorder
<1>6. Flags(rows, {})
  BY <1>3 DEF Flags
<1> QED BY <1>2, <1>5, <1>6 DEF Ordered

\* The rows of the listing of a directory that waited for it, and the old rows.
LEMMA ListedApart ==
  ASSUME NEW w, NEW items \in Seq(RowsOf(w)), NEW P, Ordered(items, P), NEW k \in DOMAIN items,
         NEW d, d = items[k].path, d \in P, NEW rows, ListedOf(rows, d)
  PROVE  /\ \A i \in DOMAIN rows, j \in DOMAIN items : ~IsPrefix(rows[i].path, items[j].path)
         /\ \A i \in DOMAIN rows, j \in DOMAIN items :
               IsPrefix(items[j].path, rows[i].path) => IsPrefix(items[j].path, d) /\ j <= k
         /\ \A i \in DOMAIN rows : IsPrefix(d, rows[i].path)
         /\ \A i, j \in DOMAIN rows : IsPrefix(rows[i].path, rows[j].path) => i = j
<1>1. /\ \A j \in DOMAIN items : items[j].path \in Seq(Names) /\ Len(items[j].path) \in Nat
      /\ d \in Seq(Names) /\ Len(d) \in Nat
  BY RowFacts
<1>2. /\ \A i \in DOMAIN rows :
           /\ rows[i].path \in Seq(Names) /\ Len(rows[i].path) = Len(d) + 1
           /\ Front(rows[i].path) = d
      /\ \A i, j \in DOMAIN rows : rows[i].path = rows[j].path => i = j
  BY DEF ListedOf
<1>3. \A i \in DOMAIN rows : IsPrefix(d, rows[i].path)
  BY <1>1, <1>2, PrefixFront
<1>4. Descendants(items, k) = {}
  BY Childless DEF Ordered, Flags
<1>5. ASSUME NEW i \in DOMAIN rows, NEW j \in DOMAIN items, IsPrefix(rows[i].path, items[j].path)
      PROVE  FALSE
  <2>1. IsPrefix(d, items[j].path) /\ Len(d) < Len(items[j].path)
    BY <1>1, <1>2, <1>3, <1>5, PrefixOrder
  <2>2. j # k
    BY <1>1, <2>1
  <2> QED BY <1>4, <2>1, <2>2 DEF Descendants
<1>6. ASSUME NEW i \in DOMAIN rows, NEW j \in DOMAIN items, IsPrefix(items[j].path, rows[i].path)
      PROVE  IsPrefix(items[j].path, d) /\ j <= k
  <2> DEFINE s == items[j].path
             t == rows[i].path
  <2>1. s \in Seq(Names) /\ t \in Seq(Names) /\ IsPrefix(s, t) /\ ~IsPrefix(t, s)
    BY <1>1, <1>2, <1>5, <1>6
  <2>2. Len(s) \in Nat /\ Len(t) = Len(d) + 1 /\ Front(t) = d
    BY <1>1, <1>2
  <2> HIDE DEF s, t
  <2>3. Len(s) < Len(t)
    BY <1>1, <2>1, <2>2, PrefixOrder
  <2>4. \A x \in Seq(Names), y \in Seq(Names) :
           /\ Len(y) > 0
           /\ IsPrefix(x, y)
           /\ Len(x) < Len(y)
           => IsPrefix(x, Front(y))
    BY PrefixFront
  <2>5. IsPrefix(s, d)
    BY <1>1, <2>1, <2>2, <2>3, <2>4
  <2> QED BY <2>5 DEF Ordered, Preorder, s
<1>7. ASSUME NEW i \in DOMAIN rows, NEW j \in DOMAIN rows, IsPrefix(rows[i].path, rows[j].path)
      PROVE  i = j
  <2>1. rows[i].path = rows[j].path
    BY <1>1, <1>2, <1>7, PrefixOrder
  <2> QED BY <1>2, <2>1
<1> QED BY <1>3, <1>5, <1>6, <1>7

\* An open directory gets its listing.
LEMMA FilledOrdered ==
  ASSUME NEW w, NEW items \in Seq(RowsOf(w)), NEW P, Ordered(items, P), NEW k \in DOMAIN items,
         NEW d, d = items[k].path, d \in P,
         NEW rows \in Seq(RowsOf(w)), ListedOf(rows, d)
  PROVE  Ordered(FilledRows(items, k, rows), P \ {d})
<1> DEFINE new == FilledRows(items, k, rows)
           n == Len(rows)
           f(j) == Moved(k, n, j)
<1>1. /\ new \in Seq(RowsOf(w)) /\ k \in DOMAIN new /\ n \in Nat
      /\ new[k] = Quiet(items[k])
      /\ \A j \in DOMAIN items : f(j) \in DOMAIN new /\ (j # k => new[f(j)] = items[j])
      /\ \A i \in DOMAIN rows : k + i \in DOMAIN new /\ new[k + i] = rows[i]
      /\ \A x \in DOMAIN new : \/ \E j \in DOMAIN items : x = f(j)
                               \/ \E i \in DOMAIN rows : x = k + i
  BY FilledPlaces
<1>2. /\ \A j \in DOMAIN items :
            j \in Nat /\ items[j].path \in Seq(Names) /\ Len(items[j].path) \in Nat
      /\ k \in Nat /\ d \in Seq(Names)
      /\ \A i \in DOMAIN rows : i \in 1..n
  BY RowFacts
<1>3. /\ f(k) = k
      /\ \A i, j \in Nat : (f(i) <= f(j) <=> i <= j) /\ (f(i) < f(j) => i < j)
      /\ \A j \in Nat, i \in 1..n : /\ j <= k => f(j) < k + i /\ f(j) <= k + i
                                    /\ j > k => k + i < f(j)
                                    /\ f(j) < k + i => j <= k
                                    /\ k + i < f(j) => k < j
      /\ \A i, j \in 1..n : (k + i < k + j => i < j) /\ (i = j => k + i <= k + j)
  BY <1>1, <1>2 DEF Moved
<1>4. /\ Quiet(items[k]).path = d /\ Quiet(items[k]).expanded = items[k].expanded
      /\ ~Quiet(items[k]).loading
  BY RowFlags
<1>5. /\ \A j \in DOMAIN items : new[f(j)].path = items[j].path
      /\ \A i \in DOMAIN rows : new[k + i].path = rows[i].path
  <2> HIDE DEF new, f
  <2> QED BY <1>1, <1>3, <1>4
<1>6. Preorder(items) /\ Flags(items, P) /\ items[k].loading /\ items[k].expanded
  BY DEF Ordered, Flags
<1>7. /\ \A i \in DOMAIN rows, j \in DOMAIN items : ~IsPrefix(rows[i].path, items[j].path)
      /\ \A i \in DOMAIN rows, j \in DOMAIN items :
            IsPrefix(items[j].path, rows[i].path) => IsPrefix(items[j].path, d) /\ j <= k
      /\ \A i \in DOMAIN rows : IsPrefix(d, rows[i].path)
      /\ \A i, j \in DOMAIN rows : IsPrefix(rows[i].path, rows[j].path) => i = j
  BY ListedApart
<1>8. \A j, l \in DOMAIN items : items[j].path = items[l].path => j = l
  BY RowPrefixes, <1>6
<1>a. \A s, t, u \in Seq(Names) : IsPrefix(s, t) /\ IsPrefix(t, u) => IsPrefix(s, u)
  BY PrefixOrder
<1>b. /\ \A i \in DOMAIN rows : rows[i].path \in Seq(Names) /\ Len(rows[i].path) = Len(d) + 1
                                /\ Front(rows[i].path) = d
                                /\ ~rows[i].expanded /\ ~rows[i].loading
  BY DEF ListedOf
<1> HIDE DEF new, f, n
<1>9. ASSUME NEW x \in DOMAIN new, NEW y \in DOMAIN new, IsPrefix(new[x].path, new[y].path)
      PROVE  x <= y
  <2>1. ASSUME NEW i \in DOMAIN items, x = f(i), NEW j \in DOMAIN items, y = f(j)
        PROVE  x <= y
    BY <1>2, <1>3, <1>5, <1>6, <1>9, <2>1 DEF Preorder
  <2>2. ASSUME NEW i \in DOMAIN items, x = f(i), NEW j \in DOMAIN rows, y = k + j
        PROVE  x <= y
    BY <1>2, <1>3, <1>5, <1>7, <1>9, <2>2
  <2>3. ASSUME NEW i \in DOMAIN rows, x = k + i, NEW j \in DOMAIN items, y = f(j)
        PROVE  x <= y
    BY <1>5, <1>7, <1>9, <2>3
  <2>4. ASSUME NEW i \in DOMAIN rows, x = k + i, NEW j \in DOMAIN rows, y = k + j
        PROVE  x <= y
    BY <1>2, <1>3, <1>5, <1>7, <1>9, <2>4
  <2> QED BY <1>1, <2>1, <2>2, <2>3, <2>4
<1>10. ASSUME NEW x \in DOMAIN new, NEW y \in DOMAIN new, NEW z \in DOMAIN new, x < y, y < z,
              IsPrefix(new[x].path, new[z].path)
       PROVE  IsPrefix(new[x].path, new[y].path)
  <2>1. ASSUME NEW i \in DOMAIN rows, x = k + i
        PROVE  FALSE
    <3>1. ASSUME NEW l \in DOMAIN items, z = f(l)
          PROVE  FALSE
      BY <1>5, <1>7, <1>10, <2>1, <3>1
    <3>2. ASSUME NEW l \in DOMAIN rows, z = k + l
          PROVE  FALSE
      <4>1. i = l
        BY <1>5, <1>7, <1>10, <2>1, <3>2
      <4>2. x \in Nat /\ y \in Nat /\ z \in Nat
        BY <1>1
      <4> QED BY <1>10, <2>1, <3>2, <4>1, <4>2
    <3> QED BY <1>1, <3>1, <3>2
  <2>2. PICK i \in DOMAIN items : x = f(i)
    BY <1>1, <2>1
  <2>3. x \in Nat /\ y \in Nat /\ z \in Nat /\ i \in Nat /\ x < z
    <3>1. x \in Nat /\ y \in Nat /\ z \in Nat
      BY <1>1
    <3> QED BY <1>2, <1>10, <3>1
  <2>4. items[i].path \in Seq(Names) /\ new[x].path = items[i].path
    BY <1>2, <1>5, <2>2
  <2>5. ASSUME NEW l \in DOMAIN items, z = f(l), NEW j \in DOMAIN items, y = f(j)
        PROVE  IsPrefix(new[x].path, new[y].path)
    <3>1. i < j /\ j < l
      BY <1>2, <1>3, <1>10, <2>2, <2>5
    <3> QED BY <1>5, <1>6, <1>10, <2>2, <2>5, <3>1 DEF Preorder
  <2>6. ASSUME NEW l \in DOMAIN items, z = f(l), NEW j \in DOMAIN rows, y = k + j
        PROVE  IsPrefix(new[x].path, new[y].path)
    <3>1. i <= k /\ k < l
      BY <1>2, <1>3, <1>10, <2>2, <2>6
    <3>2. IsPrefix(items[i].path, items[l].path)
      BY <1>5, <1>10, <2>2, <2>6
    <3>3. CASE i = k
      BY <1>5, <1>7, <2>4, <2>6, <3>3
    <3>4. CASE i < k
      <4>1. IsPrefix(items[i].path, d)
        BY <1>6, <3>1, <3>2, <3>4 DEF Preorder
      <4> QED BY <1>2, <1>5, <1>7, <1>a, <1>b, <2>4, <2>6, <4>1
    <3> QED BY <1>2, <2>3, <3>1, <3>3, <3>4
  <2>7. ASSUME NEW l \in DOMAIN rows, z = k + l
        PROVE  IsPrefix(new[x].path, new[y].path)
    <3>1. IsPrefix(items[i].path, d) /\ i <= k
      BY <1>5, <1>7, <1>10, <2>2, <2>7
    <3>2. ASSUME NEW j \in DOMAIN rows, y = k + j
          PROVE  IsPrefix(new[x].path, new[y].path)
      BY <1>2, <1>5, <1>7, <1>a, <1>b, <2>4, <3>1, <3>2
    <3>3. ASSUME NEW j \in DOMAIN items, y = f(j)
          PROVE  IsPrefix(new[x].path, new[y].path)
      <4>1. i < j /\ j <= k
        BY <1>2, <1>3, <1>10, <2>2, <2>7, <3>3
      <4>2. IsPrefix(items[i].path, items[j].path)
        <5>1. CASE j = k
          BY <3>1, <5>1
        <5>2. CASE j < k
          BY <1>6, <3>1, <4>1, <5>2 DEF Preorder
        <5> QED BY <1>2, <4>1, <5>1, <5>2
      <4> QED BY <1>5, <2>4, <3>3, <4>2
    <3> QED BY <1>1, <3>2, <3>3
  <2> QED BY <1>1, <2>5, <2>6, <2>7
<1>11. ASSUME NEW x \in DOMAIN new, Len(new[x].path) > 1
       PROVE  \E y \in DOMAIN new :
                new[y].path = Front(new[x].path) /\ new[y].expanded /\ ~new[y].loading
  <2>1. ASSUME NEW i \in DOMAIN rows, x = k + i
        PROVE  new[k].path = Front(new[x].path) /\ new[k].expanded /\ ~new[k].loading
    BY <1>1, <1>4, <1>5, <1>6, <1>b, <2>1
  <2>2. ASSUME NEW j \in DOMAIN items, x = f(j)
        PROVE  \E y \in DOMAIN new :
                 new[y].path = Front(new[x].path) /\ new[y].expanded /\ ~new[y].loading
    <3>1. PICK p \in DOMAIN items :
             items[p].path = Front(items[j].path) /\ items[p].expanded /\ ~items[p].loading
      BY <1>5, <1>6, <1>11, <2>2 DEF Preorder
    <3>2. p # k
      BY <1>6, <3>1
    <3> QED BY <1>1, <1>5, <2>2, <3>1, <3>2
  <2> QED BY <1>1, <2>1, <2>2
<1>12. Preorder(new)
  BY <1>9, <1>10, <1>11 DEF Preorder
<1>13. ASSUME NEW x \in DOMAIN new
       PROVE  /\ new[x].loading <=> new[x].path \in P \ {d}
              /\ new[x].loading => new[x].expanded
  <2>1. ASSUME NEW i \in DOMAIN rows, x = k + i
        PROVE  new[x].path \notin P /\ ~new[x].loading
    <3>1. ~new[x].loading /\ new[x].path = rows[i].path /\ rows[i].path \in Seq(Names)
      BY <1>1, <1>b, <2>1
    <3>2. rows[i].path # <<>>
      BY <1>2, <1>b
    <3>3. \A j \in DOMAIN items : items[j].path # rows[i].path
      BY <1>7, <1>b, PrefixOrder
    <3> QED BY <1>6, <3>1, <3>2, <3>3 DEF Flags
  <2>2. ASSUME NEW j \in DOMAIN items, x = f(j), j # k
        PROVE  /\ new[x].loading <=> new[x].path \in P \ {d}
               /\ new[x].loading => new[x].expanded
    BY <1>1, <1>6, <1>8, <2>2 DEF Flags
  <2>3. CASE x = k
    BY <1>1, <1>4, <2>3
  <2> QED BY <1>1, <1>3, <2>1, <2>2, <2>3
<1>14. <<>> \notin P
  BY <1>6, RowIsNoRoot DEF Flags
<1>15. ASSUME NEW c \in P \ {d}
       PROVE  \E x \in DOMAIN new : new[x].path = c
  <2>1. PICK j \in DOMAIN items : items[j].path = c
    BY <1>6, <1>14 DEF Flags
  <2> QED BY <1>1, <1>5, <2>1
<1>16. Flags(new, P \ {d})
  BY <1>13, <1>14, <1>15 DEF Flags
<1> QED BY <1>12, <1>16 DEF Ordered, new

\* What may happen to the rows and to the directories that are pending, whatever
\* requests and threads there are: nothing, a fresh tree, a row opened or
\* collapsed, an answer, the end.
Still(b, e) == e.items = b.items /\ DOMAIN e.pending = DOMAIN b.pending
Stops(b, e) == e.items = QuietRows(b.items) /\ DOMAIN e.pending = {}
Opens(b, e, k) ==
    /\ b.items[k].kind = "directory" /\ ~b.items[k].expanded
    /\ e.items = OpenedRows(b.items, k)
    /\ DOMAIN e.pending = DOMAIN b.pending \cup {b.items[k].path}
Collapses(b, e, k) ==
    /\ b.items[k].expanded
    /\ e.items = CollapsedRows(b.items, k, Cardinality(Below(b, k)))
    /\ DOMAIN e.pending = DOMAIN b.pending \ {b.items[j].path : j \in Below(b, k) \cup {k}}
Takes(b, e, task) ==
    /\ task.path \in DOMAIN b.pending
    /\ DOMAIN e.pending = DOMAIN b.pending \ {task.path}
    /\ AnswerShown(b, task, e.items, b.root)

TreeMove(b, e) ==
    \/ e.root \in Workspaces /\ Fresh(e, e.root)
    \/ /\ e.root = b.root
       /\ \/ Still(b, e)
          \/ Stops(b, e)
          \/ \E k \in DOMAIN b.items : Opens(b, e, k) \/ Collapses(b, e, k)
          \/ b.root \in Workspaces /\ \E task \in ScanTasks : Takes(b, e, task)

\* An answer comes to a directory that is there, and expanded.
LEMMA TakesShown ==
  ASSUME NEW w, NEW b, b.items \in Seq(RowsOf(w)), Ordered(b.items, DOMAIN b.pending),
         NEW e, NEW task \in ScanTasks, Takes(b, e, task)
  PROVE  \/ task.result.error /\ e.items = FailedRows(b.items, task.path)
         \/ task.path = <<>> /\ e.items = ListedUnder(task.result.entries, 0, b.root)
         \/ \E k \in DOMAIN b.items :
               /\ b.items[k].path = task.path
               /\ e.items = FilledRows(b.items, k,
                              ListedUnder(task.result.entries, b.items[k].depth + 1, b.root))
<1>1. /\ Flags(b.items, DOMAIN b.pending)
      /\ task.path \in DOMAIN b.pending /\ AnswerShown(b, task, e.items, b.root)
  BY DEF Ordered, Takes
<1>2. ASSUME task.path # <<>>
      PROVE  /\ \E k \in DOMAIN b.items : b.items[k].path = task.path
             /\ \A k \in DOMAIN b.items : b.items[k].path = task.path => b.items[k].expanded
  BY <1>1, <1>2 DEF Flags
<1> QED BY <1>1, <1>2 DEF AnswerShown

\* The tree of expanded directories stays one.
LEMMA MoveOrdered ==
  ASSUME NEW b, TreeSound(b, b.root), Ordered(b.items, DOMAIN b.pending), NEW e, TreeMove(b, e)
  PROVE  Ordered(e.items, DOMAIN e.pending)
<1> DEFINE items == b.items
           P == DOMAIN b.pending
<1>1. items \in Seq(RowsOf(b.root)) /\ Ordered(items, P)
  BY DEF TreeSound
<1>2. CASE e.root \in Workspaces /\ Fresh(e, e.root)
  <2>1. e.items = <<>> /\ DOMAIN e.pending \subseteq {<<>>}
    BY <1>2 DEF Fresh
  <2> QED BY <2>1, NoRows
<1>3. CASE Still(b, e)
  BY <1>3 DEF Still
<1>4. CASE Stops(b, e)
  <2> HIDE DEF items
  <2> QED BY <1>1, <1>4, QuietOrdered DEF Stops, items
<1>5. ASSUME NEW k \in DOMAIN items, Opens(b, e, k)
      PROVE  Ordered(e.items, DOMAIN e.pending)
  <2>1. /\ ~items[k].expanded /\ e.items = OpenedRows(items, k)
        /\ DOMAIN e.pending = P \cup {items[k].path}
    BY <1>5 DEF Opens
  <2> HIDE DEF items, P
  <2>2. Ordered(OpenedRows(items, k), P \cup {items[k].path})
    BY <1>1, <2>1, OpenedOrdered
  <2> QED BY <2>1, <2>2
<1>6. ASSUME NEW k \in DOMAIN items, Collapses(b, e, k)
      PROVE  Ordered(e.items, DOMAIN e.pending)
  <2> DEFINE g == Cardinality(Below(b, k))
             D == Descendants(items, k)
             Q == P \ {items[j].path : j \in D \cup {k}}
  <2>1. g \in Nat /\ k + g <= Len(items) /\ Below(b, k) = (k + 1)..(k + g)
    <3> DEFINE n == g
    <3>1. n = Cardinality(Below(b, k))
      OBVIOUS
    <3> HIDE DEF n
    <3>2. n \in Nat /\ k + n <= Len(b.items) /\ Below(b, k) = (k + 1)..(k + n)
      BY <1>1, <3>1, BelowInterval
    <3> QED BY <3>1, <3>2
  <2>2. Below(b, k) = D
    BY <1>1, BelowAre DEF Ordered
  <2>3. e.items = CollapsedRows(items, k, g) /\ DOMAIN e.pending = Q
    BY <1>6, <2>2 DEF Collapses
  <2>4. D = (k + 1)..(k + g)
    BY <2>1, <2>2
  <2>5. Q = P \ {items[j].path : j \in Descendants(items, k) \cup {k}}
        /\ Descendants(items, k) = (k + 1)..(k + g)
    BY <2>4
  <2> HIDE DEF items, P, g, Q, D
  <2>6. Ordered(CollapsedRows(items, k, g), Q)
    BY <1>1, <2>1, <2>5, CollapsedOrdered
  <2> QED BY <2>3, <2>6
<1>7. ASSUME b.root \in Workspaces, NEW task \in ScanTasks, Takes(b, e, task)
      PROVE  Ordered(e.items, DOMAIN e.pending)
  <2> DEFINE d == task.path
             entries == task.result.entries
             root == <<>>
  <2>1. /\ d \in Seq(Names) /\ Len(d) <= MaxDepth /\ entries \in Listings(d)
        /\ d \in P /\ DOMAIN e.pending = P \ {d}
    BY <1>7 DEF ScanTasks, TaskOf, Takes
  <2>2. \/ e.items = FailedRows(items, d)
        \/ d = root /\ e.items = ListedUnder(entries, 0, b.root)
        \/ \E k \in DOMAIN items :
              /\ items[k].path = d
              /\ e.items = FilledRows(items, k, ListedUnder(entries, items[k].depth + 1, b.root))
    BY <1>1, <1>7, TakesShown
  <2>3. root = <<>> /\ Len(root) = 0
    OBVIOUS
  <2> HIDE DEF items, P, d, entries, root
  <2>4. CASE e.items = FailedRows(items, d)
    BY <1>1, <2>1, <2>4, FailedOrdered
  <2>5. CASE d = root /\ e.items = ListedUnder(entries, 0, b.root)
    <3> DEFINE zero == 0
               rows == ListedUnder(entries, zero, b.root)
    <3>1. zero = Len(d)
      BY <2>3, <2>5
    <3> HIDE DEF zero
    <3>2. rows \in Seq(RowsOf(b.root)) /\ ListedOf(rows, d)
      BY <1>7, <2>1, <3>1, ListedFacts
    <3>3. e.items = rows
      BY <2>5 DEF zero
    <3> HIDE DEF rows
    <3>4. Ordered(rows, P \ {<<>>})
      BY <1>1, <2>1, <2>3, <2>5, <3>2, RootOrdered
    <3> QED BY <2>1, <2>3, <2>5, <3>3, <3>4
  <2>6. ASSUME NEW k \in DOMAIN items, items[k].path = d,
               e.items = FilledRows(items, k, ListedUnder(entries, items[k].depth + 1, b.root))
        PROVE  Ordered(e.items, DOMAIN e.pending)
    <3> DEFINE depth == items[k].depth + 1
               rows == ListedUnder(entries, depth, b.root)
    <3>1. depth = Len(d)
      BY <1>1, <2>6, RowFacts
    <3>2. e.items = FilledRows(items, k, rows)
      BY <2>6
    <3> HIDE DEF depth
    <3>3. rows \in Seq(RowsOf(b.root)) /\ ListedOf(rows, d)
      BY <1>7, <2>1, <3>1, ListedFacts
    <3> HIDE DEF rows
    <3>4. Ordered(FilledRows(items, k, rows), P \ {d})
      BY <1>1, <2>1, <2>6, <3>3, FilledOrdered
    <3> QED BY <2>1, <3>2, <3>4
  <2> QED BY <2>2, <2>4, <2>5, <2>6
<1> QED BY <1>2, <1>3, <1>4, <1>5, <1>6, <1>7 DEF TreeMove

-----------------------------------------------------------------------------
(* The two together, as main.py composes them.                              *)

IInv ==
    /\ TreeSound(tree, workspace)
    /\ Ordered(tree.items, DOMAIN tree.pending)
    /\ PreviewSound(preview, workspace)
    /\ PreviewWaits(preview)
    /\ tree.scans.next + preview.loads.next <= MaxRequests + 2
    /\ closed \in BOOLEAN /\ tree.scans.closed = closed /\ preview.loads.closed = closed

\* The ids are numbers.
LEMMA NextIds ==
  ASSUME NEW w, NEW b, TreeSound(b, w), NEW d, PreviewSound(d, w)
  PROVE  b.scans.next \in Nat \ {0} /\ d.loads.next \in Nat \ {0}
BY DEF TreeSound, PreviewSound, LoadSound

\* The window opens with nothing but, perhaps, a scan of the root.
LEMMA InitSound == Init => IInv
<1> SUFFICES ASSUME Init PROVE IInv
  OBVIOUS
<1>1. workspace \in Roots /\ closed = FALSE
  BY DEF Init, Roots
<1>2. /\ TreeSound(tree, workspace) /\ tree.scans.next \in {1, 2} /\ tree.scans.closed = FALSE
      /\ tree.items = <<>> /\ DOMAIN tree.pending \subseteq {<<>>}
  BY <1>1, NewTreeSound, SyncTreeSound DEF Init, Fresh
<1>3. /\ PreviewSound(preview, workspace) /\ PreviewWaits(preview)
      /\ preview.loads.next = 1 /\ preview.loads.closed = FALSE
  BY <1>1, NewPreviewSound, SyncPreviewSound DEF Init, Roots
<1>4. MaxRequests \in Nat \ {0}
  BY WorkspaceAssumption
<1>5. tree.scans.next + preview.loads.next <= MaxRequests + 2
  BY <1>2, <1>3, <1>4
<1>6. Ordered(tree.items, DOMAIN tree.pending)
  BY <1>2, NoRows
<1> QED BY <1>1, <1>2, <1>3, <1>5, <1>6 DEF IInv

\* A step of a thread of the tree's runner.
LEMMA ScanThreadSound ==
  ASSUME NEW r, LoadSound(r, ScanTasks), NEW i \in DOMAIN r.tasks, NEW s,
         \/ s = Begin(r, i) \/ s = Posted(r, i) \/ s = Raised(r, i)
         \/ \E result \in ScanResults(r.tasks[i].path) : s = Loaded(r, i, result)
  PROVE  Progress(r, s, ScanTasks)
<1> DEFINE task == r.tasks[i]
<1>1. task \in ScanTasks
  BY DEF LoadSound
<1>2. CASE s = Begin(r, i)
  BY <1>2, BeginSound, ScanTasksClosed
<1>3. CASE s = Posted(r, i)
  BY <1>3, PostedSound, ScanTasksClosed
<1>4. CASE s = Raised(r, i)
  BY <1>4, RaisedSound, ScanTasksClosed
<1>5. CASE \E result \in ScanResults(r.tasks[i].path) : s = Loaded(r, i, result)
  <2>1. PICK result \in ScanResults(r.tasks[i].path) : s = Loaded(r, i, result)
    BY <1>5
  <2> DEFINE unstopped == "unstopped"
  <2>2. /\ task.path \in Seq(Names) /\ Len(task.path) <= MaxDepth /\ task.root \in Workspaces
        /\ task.callback \in BOOLEAN /\ task.token \in BOOLEAN
    BY <1>1 DEF ScanTasks, TaskOf
  <2>3. result \in ScanResult /\ result.entries \in Listings(task.path)
    BY <2>2, ResultsListed
  <2>4. TaskShape(task.root, task.path, unstopped, task.callback, task.token, result) \in ScanTasks
    <3> DEFINE t == TaskShape(task.root, task.path, unstopped, task.callback, task.token, result)
    <3>1. t \in TaskOf(Seq(Names), ScanResult)
      BY <2>2, <2>3 DEF TaskOf, TaskShape, Stage
    <3>2. t.path = task.path /\ t.result = result
      BY DEF TaskShape
    <3> HIDE DEF t
    <3>3. t \in ScanTasks
      BY <2>2, <2>3, <3>1, <3>2 DEF ScanTasks
    <3> QED BY <3>3 DEF t
  <2>5. Progress(r, Loaded(r, i, result), ScanTasks)
    BY <2>4, LoadedSound, ScanTasksClosed
  <2> QED BY <2>1, <2>5
<1> QED BY <1>2, <1>3, <1>4, <1>5

\* A step of a thread of the preview's runner.
LoadMove(r, i, s) ==
    \/ r.tasks[i].stage = "queued" /\ s = Begin(r, i)
    \/ r.tasks[i].stage = "unstopped" /\ s = Posted(r, i)
    \/ r.tasks[i].stage = "running" /\ s = Raised(r, i)
    \/ /\ r.tasks[i].stage = "running"
       /\ \E result \in PreviewResults :
             /\ result.status = "cancelled" => r.tasks[i].token
             /\ s = Loaded(r, i, result)

LEMMA LoadThreadSound ==
  ASSUME NEW r, LoadSound(r, LoadTasks), NEW i \in DOMAIN r.tasks, NEW s,
         LoadMove(r, i, s)
  PROVE  Progress(r, s, LoadTasks) /\ (Answers(r) => Answers(s))
<1> DEFINE task == r.tasks[i]
<1>1. task \in LoadTasks
  BY DEF LoadSound
(* A task that was on another stage, or ended.                              *)
<1>a. ASSUME NEW stage, NEW result, Changed(r, s, i, stage, result, r.posted),
             s.next = r.next, r.tasks[i].stage # "posted",
             stage \in {"unstopped", "posted"} => result.status # "cancelled"
      PROVE  Answers(r) => Answers(s)
  <2> DEFINE posted == r.posted
  <2>1. /\ Changed(r, s, i, stage, result, posted)
        /\ posted = r.posted \/ (stage = "posted" /\ posted = Append(r.posted, i))
    BY <1>a
  <2> HIDE DEF posted
  <2> QED BY <1>a, <2>1, AnswersChanged
<1>b. ASSUME s.next = r.next, Dropped(r, s, i, r.posted)
      PROVE  Answers(r) => Answers(s)
  BY <1>b, AnswersDropped
<1>2. CASE task.stage = "queued" /\ s = Begin(r, i)
  <2> DEFINE stage == "running"
             result == task.result
  <2>1. Progress(r, s, LoadTasks) /\ Changed(r, s, i, stage, result, r.posted)
    BY <1>2, BeginSound, LoadTasksClosed
  <2>2. /\ s.next = r.next /\ r.tasks[i].stage # "posted"
        /\ stage \in {"unstopped", "posted"} => result.status # "cancelled"
    BY <1>2, <2>1 DEF Progress
  <2> HIDE DEF stage, result
  <2>3. Answers(r) => Answers(s)
    BY <1>a, <2>1, <2>2
  <2> QED BY <2>1, <2>3
<1>3. CASE task.stage = "unstopped" /\ s = Posted(r, i)
  <2> DEFINE stage == "posted"
             result == task.result
             posted == Append(r.posted, i)
  <2>1. Progress(r, s, LoadTasks) /\ Changed(r, s, i, stage, result, posted)
    BY <1>3, PostedSound, LoadTasksClosed
  <2>2. /\ s.next = r.next /\ r.tasks[i].stage # "posted"
        /\ stage = "posted" /\ posted = Append(r.posted, i)
    BY <1>3, <2>1 DEF Progress
  <2>3. Answers(r) => result.status # "cancelled"
    BY <1>3 DEF Answers
  <2> HIDE DEF stage, result, posted
  <2>4. Answers(r) => Answers(s)
    BY <2>1, <2>2, <2>3, AnswersChanged
  <2> QED BY <2>1, <2>4
<1>4. CASE task.stage = "running" /\ s = Raised(r, i)
  <2> DEFINE stage == "dead"
             result == task.result
  <2>1. /\ Progress(r, s, LoadTasks)
        /\ Dropped(r, s, i, r.posted) \/ Changed(r, s, i, stage, result, r.posted)
    BY <1>4, RaisedSound, LoadTasksClosed
  <2>2. /\ s.next = r.next /\ r.tasks[i].stage # "posted"
        /\ stage \in {"unstopped", "posted"} => result.status # "cancelled"
    BY <1>4, <2>1 DEF Progress
  <2> HIDE DEF stage, result
  <2>3. CASE Changed(r, s, i, stage, result, r.posted)
    <3>1. Answers(r) => Answers(s)
      BY <1>a, <2>2, <2>3
    <3> QED BY <2>1, <3>1
  <2>4. CASE Dropped(r, s, i, r.posted)
    <3>1. Answers(r) => Answers(s)
      BY <1>b, <2>2, <2>4
    <3> QED BY <2>1, <3>1
  <2> QED BY <2>1, <2>3, <2>4
<1>5. ASSUME task.stage = "running", NEW result \in PreviewResults,
             result.status = "cancelled" => task.token, s = Loaded(r, i, result)
      PROVE  Progress(r, s, LoadTasks) /\ (Answers(r) => Answers(s))
  <2> DEFINE unstopped == "unstopped"
  <2>2. /\ task.path \in Seq(Names) /\ task.root \in Workspaces
        /\ task.callback \in BOOLEAN /\ task.token \in BOOLEAN
    BY <1>1 DEF LoadTasks, TaskOf
  <2>3. result \in LoadResult /\ (result.status = "ready" => Shown(result.file))
    BY ResultsShown
  <2>4. TaskShape(task.root, task.path, unstopped, task.callback, task.token, result) \in LoadTasks
    <3> DEFINE t == TaskShape(task.root, task.path, unstopped, task.callback, task.token, result)
    <3>1. t \in TaskOf(Seq(Names), LoadResult)
      BY <2>2, <2>3 DEF TaskOf, TaskShape, Stage
    <3>2. t.path = task.path /\ t.result = result
      BY DEF TaskShape
    <3> HIDE DEF t
    <3>3. t \in LoadTasks
      BY <2>2, <2>3, <3>1, <3>2 DEF LoadTasks
    <3> QED BY <3>3 DEF t
  <2>5. /\ Progress(r, s, LoadTasks)
        /\ IF task.token THEN Dropped(r, s, i, r.posted)
                         ELSE Changed(r, s, i, "unstopped", result, r.posted)
    BY <1>5, <2>4, LoadedSound, LoadTasksClosed
  <2>6. CASE task.token
    BY <1>b, <2>5, <2>6 DEF Progress
  <2>7. CASE ~task.token
    BY <1>5, <1>a, <2>5, <2>7 DEF Progress
  <2> QED BY <2>6, <2>7
<1> QED BY <1>2, <1>3, <1>4, <1>5 DEF LoadMove

\* Every step keeps the invariant, and is a move of the tree.
LEMMA NextSound == IInv /\ [Next]_vars => IInv' /\ TreeMove(tree, tree')
<1> SUFFICES ASSUME IInv, [Next]_vars PROVE IInv' /\ TreeMove(tree, tree')
  OBVIOUS
<1>1. /\ TreeSound(tree, workspace) /\ PreviewSound(preview, workspace)
      /\ tree.scans.next + preview.loads.next <= MaxRequests + 2
      /\ closed \in BOOLEAN /\ workspace \in Roots
      /\ tree.root = workspace /\ Ordered(tree.items, DOMAIN tree.pending)
      /\ PreviewWaits(preview)
      /\ tree.scans.closed = closed /\ preview.loads.closed = closed
  BY DEF IInv, TreeSound
<1>s. tree' = tree /\ workspace' = workspace => TreeMove(tree, tree')
  BY DEF TreeMove, Still
<1>2. /\ MaxRequests \in Nat \ {0}
      /\ tree.scans.next \in Nat \ {0} /\ preview.loads.next \in Nat \ {0}
  BY <1>1, WorkspaceAssumption, NextIds
(* What is left to show of a step that requests at most one scan or load.   *)
<1>3. ASSUME TreeSound(tree', workspace'), PreviewSound(preview', workspace'),
             TreeMove(tree, tree'), PreviewWaits(preview'),
             closed' \in BOOLEAN, tree'.scans.closed = closed', preview'.loads.closed = closed',
             \/ tree'.scans.next = tree.scans.next /\ preview'.loads.next = preview.loads.next
             \/ /\ MaySubmit
                /\ tree'.scans.next \in {tree.scans.next, tree.scans.next + 1}
                /\ preview'.loads.next = preview.loads.next
             \/ /\ MaySubmit
                /\ tree'.scans.next = tree.scans.next
                /\ preview'.loads.next \in {preview.loads.next, preview.loads.next + 1}
      PROVE  IInv' /\ TreeMove(tree, tree')
  <2>1. tree'.scans.next + preview'.loads.next <= MaxRequests + 2
    BY <1>1, <1>2, <1>3 DEF MaySubmit
  <2>2. Ordered(tree'.items, DOMAIN tree'.pending)
    BY <1>1, <1>3, MoveOrdered
  <2> QED BY <1>3, <2>1, <2>2 DEF IInv
<1>4. CASE ChooseWorkspace
  <2>1. PICK w \in Workspaces :
          /\ MaySubmit /\ workspace' = w
          /\ tree' = SyncTree(tree, w) /\ preview' = SyncPreview(preview, w)
          /\ closed' = closed
    BY <1>4 DEF ChooseWorkspace
  <2>2. w \in Roots
    BY DEF Roots
  <2>3. /\ TreeSound(tree', w) /\ tree'.scans.next \in {tree.scans.next, tree.scans.next + 1}
        /\ tree'.scans.closed = tree.scans.closed
        /\ tree' = tree \/ tree.scans.closed \/ Fresh(tree', w)
    <3>1. TreeSound(tree, workspace)
      BY <1>1
    <3>2. LET e == SyncTree(tree, w)
          IN  /\ TreeSound(e, w)
              /\ e.scans.next \in {tree.scans.next, tree.scans.next + 1}
              /\ e.scans.closed = tree.scans.closed
              /\ e = tree \/ tree.scans.closed \/ Fresh(e, w)
      BY <2>2, <3>1, SyncTreeSound
    <3> QED BY <2>1, <3>2
  <2>4. /\ PreviewSound(preview', w) /\ preview'.loads.next = preview.loads.next
        /\ preview'.loads.closed = preview.loads.closed /\ PreviewWaits(preview')
    BY <1>1, <2>1, <2>2, SyncPreviewSound
  <2>5. TreeMove(tree, tree')
    BY <1>1, <2>1, <2>3 DEF TreeMove, Still, MaySubmit, TreeSound
  <2> QED BY <1>1, <1>3, <2>1, <2>3, <2>4, <2>5
<1>5. CASE RefreshTree
  <2>1. /\ MaySubmit /\ tree' = Refresh(tree, workspace)
        /\ workspace' = workspace /\ preview' = preview /\ closed' = closed
    BY <1>5 DEF RefreshTree
  <2>2. /\ TreeSound(tree', workspace)
        /\ tree'.scans.next \in {tree.scans.next, tree.scans.next + 1}
        /\ tree'.scans.closed = tree.scans.closed
        /\ \/ tree' = tree \/ tree.scans.closed
           \/ workspace # NoWorkspace /\ Fresh(tree', workspace)
    BY <1>1, <2>1, RefreshSound
  <2>3. TreeMove(tree, tree')
    BY <1>1, <2>1, <2>2 DEF TreeMove, Still, MaySubmit, TreeSound, Roots
  <2> QED BY <1>1, <1>3, <2>1, <2>2, <2>3
<1>6. CASE ActivateDirectory
  <2>1. PICK k \in DOMAIN tree.items :
          /\ MaySubmit /\ tree' = ToggleDirectory(tree, k)
          /\ workspace' = workspace /\ preview' = preview /\ closed' = closed
    BY <1>6 DEF ActivateDirectory
  <2>2. /\ TreeSound(tree', workspace)
        /\ tree'.scans.next \in {tree.scans.next, tree.scans.next + 1}
        /\ tree'.scans.closed = tree.scans.closed
        /\ \/ tree' = tree \/ tree.scans.closed
           \/ tree.items[k].expanded /\ tree' = Collapse(tree, k)
           \/ /\ tree.items[k].kind = "directory" /\ ~tree.items[k].expanded
              /\ tree'.items = OpenedRows(tree.items, k)
              /\ DOMAIN tree'.pending = DOMAIN tree.pending \cup {tree.items[k].path}
    BY <1>1, <2>1, ToggleSound
  <2>3. ASSUME tree.items[k].expanded, tree' = Collapse(tree, k)
        PROVE  Collapses(tree, tree', k)
    BY <1>1, <2>3, CollapseSound DEF Collapses
  <2>4. /\ tree'.root = tree.root
        /\ Still(tree, tree') \/ Opens(tree, tree', k) \/ Collapses(tree, tree', k)
    BY <1>1, <2>1, <2>2, <2>3 DEF Still, Opens, MaySubmit, TreeSound
  <2>5. TreeMove(tree, tree')
    BY <2>4 DEF TreeMove
  <2> QED BY <1>1, <1>3, <2>1, <2>2, <2>5
<1>7. CASE ActivateLeaf
  <2>1. PICK k \in DOMAIN tree.items :
          /\ MaySubmit /\ preview' = OpenPath(preview, tree.items[k].path, workspace)
          /\ workspace' = workspace /\ tree' = tree /\ closed' = closed
    BY <1>7 DEF ActivateLeaf
  <2>2. tree.items[k].path \in Seq(Names)
    BY <1>1 DEF TreeSound, RowsOf
  <2>3. /\ PreviewSound(preview', workspace) /\ PreviewWaits(preview')
        /\ preview'.loads.next \in {preview.loads.next, preview.loads.next + 1}
        /\ preview'.loads.closed = preview.loads.closed
    BY <1>1, <2>1, <2>2, OpenPathSound
  <2> QED BY <1>s, <1>1, <1>3, <2>1, <2>3
<1>8. CASE ReloadDocument
  <2>1. /\ MaySubmit /\ CanReload(preview) /\ preview' = Reload(preview)
        /\ workspace' = workspace /\ tree' = tree /\ closed' = closed
    BY <1>8 DEF ReloadDocument
  <2>2. /\ PreviewSound(preview', workspace) /\ PreviewWaits(preview')
        /\ preview'.loads.next \in {preview.loads.next, preview.loads.next + 1}
        /\ preview'.loads.closed = preview.loads.closed
    BY <1>1, <2>1, ReloadSound
  <2> QED BY <1>s, <1>1, <1>3, <2>1, <2>2
<1>9. CASE ClearDocument
  <2>1. /\ preview' = ClearState(preview)
        /\ workspace' = workspace /\ tree' = tree /\ closed' = closed
    BY <1>9 DEF ClearDocument
  <2>2. /\ LoadSound(preview.loads, LoadTasks) /\ preview.root = workspace
        /\ preview = PreviewShape(preview.root, preview.state, preview.selected, preview.text,
                                  preview.pending, preview.loads)
    BY <1>1 DEF PreviewSound
  <2>3. /\ PreviewSound(preview', workspace) /\ preview'.loads.next = preview.loads.next
        /\ preview'.loads.closed = preview.loads.closed /\ PreviewWaits(preview')
    BY <1>1, <2>1, <2>2, ClearStateSound DEF PreviewWaits
  <2> QED BY <1>1, <1>3, <1>s, <2>1, <2>3
<1>10. CASE CloseWindow
  <2>1. /\ preview' = [CancelPreview(preview) EXCEPT !.loads = Shutdown(@)]
        /\ tree' = [CancelTree(tree) EXCEPT !.scans = Shutdown(@)]
        /\ workspace' = workspace /\ closed' = TRUE
    BY <1>10 DEF CloseWindow
  <2>2. /\ TreeSound(tree', workspace) /\ tree'.scans.next = tree.scans.next
        /\ tree'.scans.closed = TRUE
        /\ tree'.items = QuietRows(tree.items) /\ DOMAIN tree'.pending = {}
    <3>1. TreeSound(tree, workspace) /\ tree' = [CancelTree(tree) EXCEPT !.scans = Shutdown(@)]
      BY <1>1, <2>1
    <3> QED BY <3>1, CloseTreeSound
  <2>3. /\ PreviewSound(preview', workspace) /\ preview'.loads.next = preview.loads.next
        /\ preview'.loads.closed = TRUE /\ PreviewWaits(preview')
    BY <1>1, <2>1, ClosePreviewSound
  <2>4. TreeMove(tree, tree')
    BY <1>1, <2>2 DEF TreeMove, Stops, TreeSound
  <2> QED BY <1>1, <1>3, <2>1, <2>2, <2>3, <2>4
<1>a. ASSUME NEW i \in DOMAIN tree.scans.tasks, NEW s,
             \/ s = Begin(tree.scans, i) \/ s = Posted(tree.scans, i) \/ s = Raised(tree.scans, i)
             \/ \E result \in ScanResults(tree.scans.tasks[i].path) : s = Loaded(tree.scans, i, result),
             tree' = [tree EXCEPT !.scans = s], UNCHANGED <<workspace, preview, closed>>
      PROVE  IInv' /\ TreeMove(tree, tree')
  <2>1. /\ tree = TreeShape(tree.root, tree.items, tree.pending, tree.scans)
        /\ LoadSound(tree.scans, ScanTasks)
    BY <1>1 DEF TreeSound
  <2>2. tree' = TreeShape(tree.root, tree.items, tree.pending, s)
    BY <1>a, <2>1 DEF TreeShape
  <2>3. Progress(tree.scans, s, ScanTasks)
    BY <1>a, <2>1, ScanThreadSound
  <2>4. /\ TreeSound(tree', workspace) /\ tree'.scans.next = tree.scans.next
        /\ tree'.scans.closed = tree.scans.closed
        /\ tree'.items = tree.items /\ tree'.pending = tree.pending
    BY <1>1, <2>2, <2>3, TreeProgress
  <2>5. TreeMove(tree, tree')
    BY <1>1, <2>4 DEF TreeMove, Still, TreeSound
  <2> QED BY <1>1, <1>3, <1>a, <2>4, <2>5
<1>b. ASSUME NEW i \in DOMAIN preview.loads.tasks, NEW s,
             LoadMove(preview.loads, i, s),
             preview' = [preview EXCEPT !.loads = s], UNCHANGED <<workspace, tree, closed>>
      PROVE  IInv' /\ TreeMove(tree, tree')
  <2>1. /\ preview = PreviewShape(preview.root, preview.state, preview.selected, preview.text,
                                  preview.pending, preview.loads)
        /\ LoadSound(preview.loads, LoadTasks)
    BY <1>1 DEF PreviewSound
  <2>2. preview' = PreviewShape(preview.root, preview.state, preview.selected, preview.text,
                                preview.pending, s)
    BY <1>b, <2>1 DEF PreviewShape
  <2>3. Progress(preview.loads, s, LoadTasks) /\ (Answers(preview.loads) => Answers(s))
    BY <1>b, <2>1, LoadThreadSound
  <2>4. /\ PreviewSound(preview', workspace) /\ preview'.loads.next = preview.loads.next
        /\ preview'.loads.closed = preview.loads.closed /\ PreviewWaits(preview')
    BY <1>1, <2>2, <2>3, PreviewProgress DEF PreviewWaits
  <2> QED BY <1>1, <1>3, <1>b, <1>s, <2>4
<1>11. ASSUME NEW i \in 1..MaxRequests, ScanStep(i) PROVE IInv' /\ TreeMove(tree, tree')
  <2>1. PICK s : /\ i \in DOMAIN tree.scans.tasks
                 /\ \/ s = Begin(tree.scans, i) \/ s = Posted(tree.scans, i)
                    \/ \E result \in ScanResults(tree.scans.tasks[i].path) :
                          s = Loaded(tree.scans, i, result)
                 /\ tree' = [tree EXCEPT !.scans = s] /\ UNCHANGED <<workspace, preview, closed>>
    BY <1>11 DEF ScanStep
  <2> QED BY <1>a, <2>1
<1>12. ASSUME NEW i \in 1..MaxRequests, LoadStep(i) PROVE IInv' /\ TreeMove(tree, tree')
  <2>1. PICK s : /\ i \in DOMAIN preview.loads.tasks
                 /\ LoadMove(preview.loads, i, s)
                 /\ preview' = [preview EXCEPT !.loads = s] /\ UNCHANGED <<workspace, tree, closed>>
    BY <1>12 DEF LoadStep, LoadMove, MayBegin
  <2> QED BY <1>b, <2>1
<1>13. CASE ScanRaises
  <2>1. PICK i \in DOMAIN tree.scans.tasks :
          /\ tree' = [tree EXCEPT !.scans = Raised(tree.scans, i)]
          /\ UNCHANGED <<workspace, preview, closed>>
    BY <1>13 DEF ScanRaises
  <2> DEFINE s == Raised(tree.scans, i)
  <2>2. s = Raised(tree.scans, i) /\ tree' = [tree EXCEPT !.scans = s]
    BY <2>1
  <2> HIDE DEF s
  <2> QED BY <1>a, <2>1, <2>2
<1>14. CASE LoadRaises
  <2>1. PICK i \in DOMAIN preview.loads.tasks :
          /\ preview.loads.tasks[i].stage = "running"
          /\ preview' = [preview EXCEPT !.loads = Raised(preview.loads, i)]
          /\ UNCHANGED <<workspace, tree, closed>>
    BY <1>14 DEF LoadRaises
  <2> DEFINE s == Raised(preview.loads, i)
  <2>2. LoadMove(preview.loads, i, s) /\ preview' = [preview EXCEPT !.loads = s]
    BY <2>1 DEF LoadMove
  <2> HIDE DEF s
  <2> QED BY <1>b, <2>1, <2>2
<1>15. CASE ScanFinished
  <2>1. /\ tree.scans.posted # <<>> /\ tree' = DeliverScan(tree)
        /\ workspace' = workspace /\ preview' = preview /\ closed' = closed
    BY <1>15 DEF ScanFinished
  <2>2. /\ TreeSound(tree', workspace) /\ tree'.scans.next = tree.scans.next
        /\ tree'.scans.closed = tree.scans.closed
        /\ \/ tree'.items = tree.items /\ tree'.pending = tree.pending
           \/ /\ workspace \in Workspaces
              /\ \E task \in ScanTasks :
                    /\ task.path \in DOMAIN tree.pending
                    /\ DOMAIN tree'.pending = DOMAIN tree.pending \ {task.path}
                    /\ AnswerShown(tree, task, tree'.items, workspace)
    BY <1>1, <2>1, DeliverScanSound
  <2>3. TreeMove(tree, tree')
    BY <1>1, <2>2 DEF TreeMove, Still, Takes, TreeSound
  <2> QED BY <1>1, <1>3, <2>1, <2>2, <2>3
<1>16. CASE LoadFinished
  <2>1. /\ preview.loads.posted # <<>> /\ preview' = DeliverLoad(preview)
        /\ workspace' = workspace /\ tree' = tree /\ closed' = closed
    BY <1>16 DEF LoadFinished
  <2>2. /\ PreviewSound(preview', workspace) /\ preview'.loads.next = preview.loads.next
        /\ preview'.loads.closed = preview.loads.closed /\ PreviewWaits(preview')
    BY <1>1, <2>1, DeliverLoadSound
  <2> QED BY <1>1, <1>3, <1>s, <2>1, <2>2
<1>17. CASE UNCHANGED vars
  BY <1>1, <1>3, <1>17, <1>s DEF vars
<1> QED BY <1>4, <1>5, <1>6, <1>7, <1>8, <1>9, <1>10, <1>11, <1>12, <1>13, <1>14, <1>15,
           <1>16, <1>17 DEF Next

\* Every reachable state is one where both controllers agree with the tasks
\* of their runners.
THEOREM Invariant == Spec => []IInv
BY InitSound, NextSound, PTL DEF Spec

-----------------------------------------------------------------------------
(* The properties.                                                          *)

\* The workspace, the rows, the requests and the tasks have their types.
LEMMA IInvTyped == IInv => TypeOK
<1> SUFFICES ASSUME IInv PROVE TypeOK
  OBVIOUS
<1>1. /\ TreeSound(tree, workspace) /\ PreviewSound(preview, workspace)
      /\ tree.scans.next + preview.loads.next <= MaxRequests + 2
      /\ closed \in BOOLEAN /\ MaxRequests \in Nat \ {0}
  BY WorkspaceAssumption DEF IInv
<1>2. tree.scans.next \in Nat \ {0} /\ preview.loads.next \in Nat \ {0}
  BY <1>1, NextIds
<1>3. tree.scans.next <= MaxRequests + 1 /\ preview.loads.next <= MaxRequests + 1
  BY <1>1, <1>2
<1>4. /\ tree.root = workspace /\ workspace \in Roots
      /\ LoadSound(tree.scans, ScanTasks) /\ tree.items \in Seq(RowsOf(workspace))
      /\ PendingSound(tree.pending, tree.scans, workspace)
  BY <1>1 DEF TreeSound
<1>5. /\ preview.root = workspace
      /\ LoadSound(preview.loads, LoadTasks)
      /\ preview.state \in {"idle", "loading", "ready", "unsupported", "error"}
      /\ preview.pending \in Nat
      /\ preview.pending # 0
            => Awaited(preview.loads, preview.pending, workspace, preview.selected)
  BY <1>1 DEF PreviewSound
<1>6. ASSUME NEW k \in DOMAIN tree.items
      PROVE  tree.items[k] \in [path : Seq(Names), kind : Kinds, depth : 0..MaxDepth,
                                expanded : BOOLEAN, loading : BOOLEAN, of : Workspaces]
  <2>1. tree.items[k] \in RowsOf(workspace)
    BY <1>4
  <2> QED BY <2>1 DEF RowsOf
<1>7. \A i \in DOMAIN tree.scans.tasks : i \in 1..MaxRequests /\ i < tree.scans.next
  BY <1>1, <1>2, <1>3, <1>4 DEF LoadSound
<1>8. \A i \in DOMAIN preview.loads.tasks : i \in 1..MaxRequests /\ i < preview.loads.next
  BY <1>1, <1>2, <1>3, <1>5 DEF LoadSound
<1>9. \A d \in DOMAIN tree.pending : d \in Seq(Names) /\ tree.pending[d] \in 1..MaxRequests
  BY <1>4, <1>7 DEF PendingSound, Awaited
<1>10. \A i \in DOMAIN tree.scans.tasks : tree.scans.tasks[i].stage \in Stage
  <2>1. \A i \in DOMAIN tree.scans.tasks : tree.scans.tasks[i] \in ScanTasks
    BY <1>4 DEF LoadSound
  <2> QED BY <2>1, ScanTasksClosed DEF Shaped
<1>11. preview.pending \in 0..MaxRequests
  BY <1>1, <1>5, <1>8 DEF Awaited
<1>12. \A i \in DOMAIN preview.loads.tasks :
          preview.loads.tasks[i] \in TaskOf(Seq(Names), [status : DocumentStatus, file : File])
  <2>1. \A i \in DOMAIN preview.loads.tasks : preview.loads.tasks[i] \in LoadTasks
    BY <1>5 DEF LoadSound
  <2> QED BY <2>1 DEF LoadTasks, LoadResult
<1> QED BY <1>1, <1>4, <1>5, <1>6, <1>7, <1>8, <1>9, <1>10, <1>11, <1>12 DEF TypeOK

\* Nothing of another workspace or another selection is shown.
LEMMA IInvShows == IInv => ShowsItsWorkspace
<1> SUFFICES ASSUME IInv PROVE ShowsItsWorkspace
  OBVIOUS
<1>1. /\ tree.root = workspace /\ preview.root = workspace
      /\ tree.items \in Seq(RowsOf(workspace)) /\ TextOf(preview)
  BY DEF IInv, TreeSound, PreviewSound
<1>2. ASSUME NEW k \in DOMAIN tree.items
      PROVE  tree.items[k].of = workspace
  <2>1. tree.items[k] \in RowsOf(workspace)
    BY <1>1
  <2> QED BY <2>1 DEF RowsOf
<1> QED BY <1>1, <1>2 DEF ShowsItsWorkspace, TextOf, Shown

\* The rows are the expanded directories and what they hold, in preorder.
LEMMA IInvTree == IInv => TreeWellFormed
<1> SUFFICES ASSUME IInv PROVE TreeWellFormed
  OBVIOUS
<1> DEFINE items == tree.items
<1>1. items \in Seq(RowsOf(workspace)) /\ Preorder(items) /\ Flags(items, DOMAIN tree.pending)
  BY DEF IInv, TreeSound, Ordered
<1>2. \A i \in DOMAIN items :
         /\ i \in Nat /\ 1 <= i /\ items[i].path \in Seq(Names)
         /\ Len(items[i].path) \in Nat /\ Len(items[i].path) = items[i].depth + 1
         /\ items[i].depth \in Nat /\ Len(items[i].path) >= 1
  <2> HIDE DEF items
  <2> QED BY <1>1, RowFacts
<1>3. ASSUME NEW k \in DOMAIN items
      PROVE  /\ items[k].depth = Len(items[k].path) - 1
             /\ \A j \in DOMAIN items : items[j].path = items[k].path => j = k
             /\ Below(tree, k) = {j \in DOMAIN items \ {k} : IsPrefix(items[k].path, items[j].path)}
             /\ items[k].depth > 0 => \E j \in 1..(k - 1) :
                   items[j].path = Front(items[k].path) /\ items[j].expanded
             /\ ~items[k].expanded => Below(tree, k) = {}
  <2>1. Below(tree, k) = Descendants(items, k)
    BY <1>1, BelowAre
  <2>2. \A j \in DOMAIN items : items[j].path = items[k].path => j = k
    <3> HIDE DEF items
    <3> QED BY <1>1, RowPrefixes
  <2>3. ASSUME items[k].depth > 0
        PROVE  \E j \in 1..(k - 1) : items[j].path = Front(items[k].path) /\ items[j].expanded
    <3>1. Len(items[k].path) > 1
      BY <1>2, <2>3
    <3>2. PICK j \in DOMAIN items : items[j].path = Front(items[k].path) /\ items[j].expanded
      BY <1>1, <3>1 DEF Preorder
    <3>3. IsPrefix(items[j].path, items[k].path) /\ Len(items[j].path) = Len(items[k].path) - 1
      BY <1>2, <3>1, <3>2, PrefixFront
    <3>4. j <= k /\ j # k
      BY <1>1, <1>2, <3>3 DEF Preorder
    <3>5. j \in 1..(k - 1)
      BY <1>2, <3>4
    <3> QED BY <3>2, <3>5
  <2>4. ~items[k].expanded => Descendants(items, k) = {}
    <3> HIDE DEF items
    <3> QED BY <1>1, Childless
  <2>5. items[k].depth = Len(items[k].path) - 1
    <3>1. Len(items[k].path) = items[k].depth + 1 /\ items[k].depth \in Nat
      BY <1>2
    <3> QED BY <3>1
  <2> QED BY <2>1, <2>2, <2>3, <2>4, <2>5 DEF Descendants
<1> QED BY <1>3 DEF TreeWellFormed

\* What says that it loads waits for a request.
LEMMA IInvLoading == IInv => LoadingIsPending
<1> SUFFICES ASSUME IInv PROVE LoadingIsPending
  OBVIOUS
<1>1. /\ Flags(tree.items, DOMAIN tree.pending)
      /\ PendingSound(tree.pending, tree.scans, workspace)
      /\ preview.pending # 0 => Awaited(preview.loads, preview.pending, workspace, preview.selected)
      /\ ~closed => (preview.state = "loading" <=> preview.pending # 0)
  BY DEF IInv, TreeSound, Ordered, PreviewSound, PreviewWaits
<1>2. \A k \in DOMAIN tree.items :
         tree.items[k].loading <=> tree.items[k].path \in DOMAIN tree.pending
  BY <1>1 DEF Flags
<1>3. <<>> \in DOMAIN tree.pending => tree.items = <<>>
  BY <1>1 DEF Flags
<1>4. \A d \in DOMAIN tree.pending :
         /\ d = <<>> \/ FindIndex(tree, d) # {}
         /\ tree.pending[d] \in DOMAIN tree.scans.tasks
         /\ tree.scans.tasks[tree.pending[d]].callback
         /\ ~tree.scans.tasks[tree.pending[d]].token
         /\ tree.scans.tasks[tree.pending[d]].path = d
  BY <1>1 DEF Flags, PendingSound, Awaited, FindIndex
<1>5. preview.pending # 0 => /\ preview.pending \in DOMAIN preview.loads.tasks
                             /\ preview.loads.tasks[preview.pending].callback
                             /\ ~preview.loads.tasks[preview.pending].token
  BY <1>1 DEF Awaited
<1> QED BY <1>1, <1>2, <1>3, <1>4, <1>5 DEF LoadingIsPending

\* A request that the tree or the preview waits for is a task that was not
\* cancelled, for the root and the path its owner shows: no answer it needs is
\* lost to a cancel_all() or to a request submitted since (_pending of both
\* controllers, _callbacks and _cancel_tokens of both runners).
RequestsAwaited ==
    /\ \A d \in DOMAIN tree.pending : Awaited(tree.scans, tree.pending[d], workspace, d)
    /\ preview.pending # 0
          => Awaited(preview.loads, preview.pending, workspace, preview.selected)

LEMMA IInvAwaited == IInv => RequestsAwaited
BY DEF IInv, TreeSound, PendingSound, PreviewSound, RequestsAwaited

\* Type correctness of both controllers and their runners.
THEOREM TypeCorrect == Spec => []TypeOK
BY Invariant, IInvTyped, PTL

\* Whatever order scans, loads and choices of workspaces happen in, only what
\* was read for the present workspace and selection is shown.
THEOREM ShowsOwn == Spec => []ShowsItsWorkspace
BY Invariant, IInvShows, PTL

\* However directories are expanded, collapsed and expanded again while scans of
\* them are under way, and whatever these find, the flat list stays a tree.
THEOREM WellFormed == Spec => []TreeWellFormed
BY Invariant, IInvTree, PTL

\* Nothing loads for ever because its request is gone, and no request is pending
\* that nothing shows.
THEOREM LoadsArePending == Spec => []LoadingIsPending
BY Invariant, IInvLoading, PTL

\* The requests of every reachable state will call back.
THEOREM Awaiting == Spec => []RequestsAwaited
BY Invariant, IInvAwaited, PTL

-----------------------------------------------------------------------------
(* What the browser promises (TreeContract).                                *)

\* What the open directories show depends on which rows there are only.
Rows(items) == {items[k] : k \in DOMAIN items}
Entry(row) == [path |-> row.path, kind |-> row.kind]
EntriesIn(items, c) == {Entry(row) : row \in {row \in Rows(items) : Front(row.path) = c}}
OpenPaths(items) == {row.path : row \in {row \in Rows(items) : row.expanded}}
OpenOf(items, P) ==
    [c \in OpenPaths(items) \cup {<<>>} |-> [loading |-> c \in P, entries |-> EntriesIn(items, c)]]
OpenIn(b) == IF b.root = NoWorkspace THEN <<>> ELSE OpenOf(b.items, DOMAIN b.pending)

LEMMA OpenDirectoriesAre == OpenDirectories = OpenIn(tree)
<1> DEFINE items == tree.items
           P == DOMAIN tree.pending
           opened == {items[k].path : k \in {k \in DOMAIN items : items[k].expanded}}
           entries(c) == {[path |-> items[k].path, kind |-> items[k].kind] :
                             k \in {k \in DOMAIN items : Front(items[k].path) = c}}
<1>1. opened = OpenPaths(items)
  BY DEF OpenPaths, Rows
<1>2. ASSUME NEW c PROVE entries(c) = EntriesIn(items, c)
  BY DEF EntriesIn, Rows, Entry
<1>3. OpenDirectories
        = IF tree.root = NoWorkspace THEN <<>>
          ELSE [c \in opened \cup {<<>>} |-> [loading |-> c \in P, entries |-> entries(c)]]
  BY Zenon DEF OpenDirectories
<1> HIDE DEF opened, entries, items, P
<1>4. [c \in opened \cup {<<>>} |-> [loading |-> c \in P, entries |-> entries(c)]]
        = OpenOf(items, P)
  BY <1>1, <1>2 DEF OpenOf
<1> QED BY <1>3, <1>4 DEF OpenIn, items, P

\* Row k replaced, some rows gone, some added.
Replaced(old, new, k, row, gone, added) ==
    /\ \A r : r \in Rows(new) <=> \/ \E j \in DOMAIN old \ (gone \cup {k}) : r = old[j]
                                  \/ r = row
                                  \/ r \in added
    /\ row.path = old[k].path /\ row.kind = old[k].kind
    /\ k \in DOMAIN old /\ k \notin gone

\* What is open then, and what it shows.
LEMMA ReplacedShows ==
  ASSUME NEW old, NEW new, NEW k, NEW row, NEW gone, NEW added,
         Replaced(old, new, k, row, gone, added)
  PROVE  /\ \A c, e : e \in EntriesIn(new, c) <=>
               \/ \E j \in DOMAIN old \ gone : Front(old[j].path) = c /\ e = Entry(old[j])
               \/ \E r \in added : Front(r.path) = c /\ e = Entry(r)
         /\ \A c : c \in OpenPaths(new) <=>
               \/ \E j \in DOMAIN old \ (gone \cup {k}) : old[j].expanded /\ c = old[j].path
               \/ row.expanded /\ c = old[k].path
               \/ \E r \in added : r.expanded /\ c = r.path
<1>1. Entry(row) = Entry(old[k])
  BY DEF Replaced, Entry
<1>2. ASSUME NEW c, NEW e
      PROVE  e \in EntriesIn(new, c) <=>
               \/ \E j \in DOMAIN old \ gone : Front(old[j].path) = c /\ e = Entry(old[j])
               \/ \E r \in added : Front(r.path) = c /\ e = Entry(r)
  <2>1. e \in EntriesIn(new, c) <=> \E r \in Rows(new) : Front(r.path) = c /\ e = Entry(r)
    BY DEF EntriesIn
  <2>2. (\E r \in Rows(new) : Front(r.path) = c /\ e = Entry(r)) <=>
          \/ \E j \in DOMAIN old \ (gone \cup {k}) : Front(old[j].path) = c /\ e = Entry(old[j])
          \/ Front(old[k].path) = c /\ e = Entry(old[k])
          \/ \E r \in added : Front(r.path) = c /\ e = Entry(r)
    BY <1>1 DEF Replaced
  <2> QED BY <2>1, <2>2 DEF Replaced
<1>3. ASSUME NEW c
      PROVE  c \in OpenPaths(new) <=>
               \/ \E j \in DOMAIN old \ (gone \cup {k}) : old[j].expanded /\ c = old[j].path
               \/ row.expanded /\ c = old[k].path
               \/ \E r \in added : r.expanded /\ c = r.path
  <2>1. c \in OpenPaths(new) <=> \E r \in Rows(new) : r.expanded /\ c = r.path
    BY DEF OpenPaths
  <2> QED BY <2>1 DEF Replaced
<1> QED BY <1>2, <1>3

\* The same rows.
LEMMA OldShows ==
  ASSUME NEW items
  PROVE  /\ \A c, e : e \in EntriesIn(items, c)
               <=> \E j \in DOMAIN items : Front(items[j].path) = c /\ e = Entry(items[j])
         /\ \A c : c \in OpenPaths(items)
               <=> \E j \in DOMAIN items : items[j].expanded /\ c = items[j].path
BY DEF EntriesIn, OpenPaths, Rows

\* OpenedRows, FailedRows of a directory that is there, CollapsedRows and
\* FilledRows as such changes.
LEMMA OpenedReplaced ==
  ASSUME NEW w, NEW items \in Seq(RowsOf(w)), NEW k \in DOMAIN items
  PROVE  Replaced(items, OpenedRows(items, k), k, Opening(items[k]), {}, {})
<1> DEFINE row == Opening(items[k])
           new == [items EXCEPT ![k] = row]
<1>1. row.path = items[k].path /\ row.kind = items[k].kind
  BY RowFlags
<1>2. OpenedRows(items, k) = new
  BY DEF OpenedRows
<1> HIDE DEF row
<1>3. DOMAIN new = DOMAIN items /\ new[k] = row /\ \A j \in DOMAIN items : j # k => new[j] = items[j]
  OBVIOUS
<1> HIDE DEF new
<1> QED BY <1>1, <1>2, <1>3 DEF Replaced, Rows, row

LEMMA FailedReplaced ==
  ASSUME NEW w, NEW items \in Seq(RowsOf(w)), Preorder(items), NEW k \in DOMAIN items,
         NEW d, d = items[k].path
  PROVE  Replaced(items, FailedRows(items, d), k, Shut(items[k]), {}, {})
<1> DEFINE row == Shut(items[k])
           new == FailedRows(items, d)
<1>1. row.path = items[k].path /\ row.kind = items[k].kind
  BY RowFlags
<1>2. DOMAIN new = DOMAIN items /\ new[k] = row /\ \A j \in DOMAIN items : j # k => new[j] = items[j]
  <2>1. \A j \in DOMAIN items : items[j].path = items[k].path => j = k
    BY RowPrefixes
  <2> QED BY <2>1 DEF FailedRows
<1> HIDE DEF new, row
<1> QED BY <1>1, <1>2 DEF Replaced, Rows, new, row

LEMMA CollapsedReplaced ==
  ASSUME NEW w, NEW items \in Seq(RowsOf(w)), NEW k \in DOMAIN items, NEW g \in Nat,
         k + g <= Len(items), NEW gone, gone = (k + 1)..(k + g)
  PROVE  Replaced(items, CollapsedRows(items, k, g), k, Shut(items[k]), gone, {})
<1> DEFINE new == CollapsedRows(items, k, g)
           row == Shut(items[k])
           f(i) == Place(k, g, i)
<1>1. row.path = items[k].path /\ row.kind = items[k].kind
  BY RowFlags
<1>2. k \in Nat /\ 1 <= k /\ k <= Len(items) /\ Len(items) \in Nat /\ k \notin gone
  BY RowFacts
<1>3. /\ new \in Seq(RowsOf(w)) /\ Len(new) = Len(items) - g /\ k \in DOMAIN new
      /\ new[k] = row
      /\ \A i \in DOMAIN new : f(i) \in DOMAIN items \ gone /\ (i # k => new[i] = items[f(i)])
  BY CollapsedPlaces
<1>4. \A j \in DOMAIN items \ gone : \E i \in DOMAIN new : f(i) = j
  <2>1. ASSUME NEW j \in DOMAIN items \ gone
        PROVE  \E i \in DOMAIN new : f(i) = j
    <3>1. j \in Nat /\ 1 <= j /\ j <= Len(items) /\ ~(j \in (k + 1)..(k + g))
      BY RowFacts
    <3>2. CASE j <= k
      BY <1>2, <1>3, <3>1, <3>2 DEF Place
    <3>3. CASE ~(j <= k)
      <4>1. j - g \in DOMAIN new /\ ~(j - g <= k) /\ j - g + g = j
        BY <1>2, <1>3, <3>1, <3>3
      <4> QED BY <4>1 DEF Place
    <3> QED BY <3>2, <3>3
  <2> QED BY <2>1
<1>5. \A i \in DOMAIN new : f(i) = k <=> i = k
  BY <1>2, <1>3 DEF Place
<1> HIDE DEF new, row, f
<1>6. \A r : r \in Rows(new) <=> \/ \E j \in DOMAIN items \ (gone \cup {k}) : r = items[j]
                                 \/ r = row
  <2>1. ASSUME NEW i \in DOMAIN new
        PROVE  \/ \E j \in DOMAIN items \ (gone \cup {k}) : new[i] = items[j]
               \/ new[i] = row
    BY <1>3, <1>5
  <2>2. ASSUME NEW j \in DOMAIN items \ (gone \cup {k})
        PROVE  items[j] \in Rows(new)
    <3>1. PICK i \in DOMAIN new : f(i) = j
      BY <1>4
    <3> QED BY <1>3, <1>5, <3>1 DEF Rows
  <2>3. row \in Rows(new)
    BY <1>3 DEF Rows
  <2>4. ASSUME NEW r \in Rows(new)
        PROVE  \/ \E j \in DOMAIN items \ (gone \cup {k}) : r = items[j]
               \/ r = row
    BY <2>1 DEF Rows
  <2> QED BY <2>2, <2>3, <2>4
<1> QED BY <1>1, <1>2, <1>6 DEF Replaced, new, row

LEMMA FilledReplaced ==
  ASSUME NEW w, NEW items \in Seq(RowsOf(w)), NEW k \in DOMAIN items,
         NEW rows \in Seq(RowsOf(w))
  PROVE  Replaced(items, FilledRows(items, k, rows), k, Quiet(items[k]), {}, Rows(rows))
<1> DEFINE n == Len(rows)
           new == FilledRows(items, k, rows)
           row == Quiet(items[k])
           f(j) == Moved(k, n, j)
           h(i) == k + i
           moved == DOMAIN items
           listed == DOMAIN rows
           shown == DOMAIN new
<1>1. row.path = items[k].path /\ row.kind = items[k].kind
  BY RowFlags
<1>2. /\ new \in Seq(RowsOf(w)) /\ k \in DOMAIN new /\ n \in Nat /\ new[k] = Quiet(items[k])
      /\ \A j \in DOMAIN items : f(j) \in DOMAIN new /\ (j # k => new[f(j)] = items[j])
      /\ \A i \in DOMAIN rows : k + i \in DOMAIN new /\ new[k + i] = rows[i]
      /\ \A x \in DOMAIN new : \/ \E j \in DOMAIN items : x = f(j)
                               \/ \E i \in DOMAIN rows : x = k + i
  BY FilledPlaces
<1>3. f(k) = k /\ new[k] = row
  BY <1>2, RowFacts DEF Moved
<1>7. /\ \A j \in moved : f(j) \in shown /\ (j # k => new[f(j)] = items[j])
      /\ \A i \in listed : h(i) \in shown /\ new[h(i)] = rows[i]
      /\ \A x \in shown : \/ \E j \in moved : x = f(j)
                           \/ \E i \in listed : x = h(i)
      /\ k \in shown /\ new[k] = row
      /\ \A r : r \in Rows(new) <=> \E x \in shown : r = new[x]
      /\ \A r : r \in Rows(rows) <=> \E i \in listed : r = rows[i]
  BY <1>2, <1>3 DEF Rows
<1> HIDE DEF new, row, f, h, moved, listed, shown
<1>4. ASSUME NEW x \in shown
      PROVE  \/ \E j \in moved \ {k} : new[x] = items[j]
             \/ new[x] = row
             \/ new[x] \in Rows(rows)
  BY <1>3, <1>7
<1>5. /\ \A j \in moved \ {k} : items[j] \in Rows(new)
      /\ row \in Rows(new)
      /\ \A r \in Rows(rows) : r \in Rows(new)
  BY <1>7
<1>6. ASSUME NEW r \in Rows(new)
      PROVE  \/ \E j \in moved \ {k} : r = items[j]
             \/ r = row
             \/ r \in Rows(rows)
  BY <1>4, <1>7
<1> QED BY <1>1, <1>5, <1>6 DEF Replaced, new, row, moved

\* The steps of TreeContract, from what was open to what is.
ExpandStep(o, p) == \E d \in DOMAIN o : \E e \in o[d].entries :
    /\ e.kind = "directory" /\ e.path \notin DOMAIN o
    /\ p = [c \in DOMAIN o \cup {e.path} |->
               IF c = e.path THEN [loading |-> TRUE, entries |-> {}] ELSE o[c]]
ListedStep(o, p) == \E d \in DOMAIN o :
    /\ o[d].loading
    /\ DOMAIN p = DOMAIN o
    /\ ~p[d].loading
    /\ \A e \in p[d].entries : Front(e.path) = d
    /\ p = [o EXCEPT ![d] = p[d]]
CloseStep(o, p) == \E d \in DOMAIN o \ {<<>>} :
    p = [c \in {c \in DOMAIN o : ~IsPrefix(d, c)} |-> o[c]]
StopStep(o, p) == p = [d \in DOMAIN o |-> [o[d] EXCEPT !.loading = FALSE]]

\* What one directory shows.
At(items, P, c) == [loading |-> c \in P, entries |-> EntriesIn(items, c)]

LEMMA AtFields ==
  ASSUME NEW items, NEW P, NEW c
  PROVE  /\ c \in P => At(items, P, c).loading
         /\ c \notin P => ~At(items, P, c).loading
         /\ At(items, P, c).entries = EntriesIn(items, c)
<1> DEFINE waits == c \in P
<1>1. At(items, P, c) = [loading |-> waits, entries |-> EntriesIn(items, c)]
  BY Zenon DEF At
<1> HIDE DEF waits
<1>2. At(items, P, c).loading = waits /\ At(items, P, c).entries = EntriesIn(items, c)
  BY <1>1
<1>3. waits = (c \in P)
  BY DEF waits
<1>4. (c \in P => At(items, P, c).loading) /\ (c \notin P => ~At(items, P, c).loading)
  BY <1>2, <1>3, Zenon
<1> QED BY <1>2, <1>4

LEMMA SameAt ==
  ASSUME NEW old, NEW new, NEW P, NEW Q, NEW c,
         c \in P <=> c \in Q, \A e : e \in EntriesIn(old, c) <=> e \in EntriesIn(new, c)
  PROVE  At(old, P, c) = At(new, Q, c)
<1>1. (c \in P) = (c \in Q)
  OBVIOUS
<1>2. EntriesIn(old, c) = EntriesIn(new, c)
  OBVIOUS
<1> QED BY <1>1, <1>2, Zenon DEF At

LEMMA OpenOfAt ==
  ASSUME NEW items, NEW P
  PROVE  /\ OpenOf(items, P) = [c \in OpenPaths(items) \cup {<<>>} |-> At(items, P, c)]
         /\ DOMAIN OpenOf(items, P) = OpenPaths(items) \cup {<<>>}
         /\ \A c \in OpenPaths(items) \cup {<<>>} : OpenOf(items, P)[c] = At(items, P, c)
<1>1. OpenOf(items, P) = [c \in OpenPaths(items) \cup {<<>>} |-> At(items, P, c)]
  BY Zenon DEF OpenOf, At
<1> QED BY <1>1

\* A directory that is open, and not the root, has one row, and it is expanded.
LEMMA OpenRows ==
  ASSUME NEW w, NEW items \in Seq(RowsOf(w)), Preorder(items), NEW k \in DOMAIN items
  PROVE  /\ items[k].path \in OpenPaths(items) <=> items[k].expanded
         /\ \A j \in DOMAIN items : Front(items[j].path) = items[k].path
               => j \in Descendants(items, k)
         /\ \A c \in OpenPaths(items) : c \in Seq(Names) /\ Len(c) \in Nat /\ Len(c) >= 1
         /\ items[k].path # <<>> /\ items[k].path \in Seq(Names)
         /\ Len(items[k].path) \in Nat /\ Len(items[k].path) >= 1
<1>1. \A j \in DOMAIN items : /\ items[j].path \in Seq(Names)
                              /\ Len(items[j].path) \in Nat /\ Len(items[j].path) >= 1
  BY RowFacts
<1>2. items[k].path \in OpenPaths(items) <=> items[k].expanded
  <2>1. \A j \in DOMAIN items : items[j].path = items[k].path => j = k
    BY RowPrefixes
  <2> QED BY <2>1, OldShows
<1>3. ASSUME NEW j \in DOMAIN items, Front(items[j].path) = items[k].path
      PROVE  j \in Descendants(items, k)
  <2>1. /\ Len(Front(items[j].path)) = Len(items[j].path) - 1
        /\ IsPrefix(Front(items[j].path), items[j].path)
    BY <1>1, PrefixFront
  <2>2. Len(items[j].path) \in Nat
    BY <1>1
  <2>3. j # k
    BY <1>3, <2>1, <2>2
  <2> QED BY <1>3, <2>1, <2>3 DEF Descendants
<1>4. \A c \in OpenPaths(items) : \E j \in DOMAIN items : c = items[j].path
  BY OldShows
<1>5. items[k].path # <<>>
  BY RowIsNoRoot
<1> QED BY <1>1, <1>2, <1>3, <1>4, <1>5

\* ToggleDirectory opens a row.
LEMMA OpensStep ==
  ASSUME NEW w, NEW items \in Seq(RowsOf(w)), NEW P, Ordered(items, P), NEW k \in DOMAIN items,
         items[k].kind = "directory", ~items[k].expanded
  PROVE  ExpandStep(OpenOf(items, P), OpenOf(OpenedRows(items, k), P \cup {items[k].path}))
<1> DEFINE new == OpenedRows(items, k)
           a == items[k].path
           Q == P \cup {a}
           o == OpenOf(items, P)
           p == OpenOf(new, Q)
           d == Front(a)
           row == Opening(items[k])
<1>1. Preorder(items)
  BY DEF Ordered
<1>2. /\ ~(a \in OpenPaths(items)) /\ a # <<>> /\ a \in Seq(Names)
      /\ Len(a) \in Nat /\ Len(a) >= 1
      /\ \A j \in DOMAIN items : Front(items[j].path) = a => j \in Descendants(items, k)
  BY <1>1, OpenRows
<1>3. Descendants(items, k) = {}
  BY <1>1, Childless
<1>4. Replaced(items, new, k, row, {}, {})
  BY OpenedReplaced
<1>5. row.expanded
  BY RowFlags
<1> HIDE DEF new, row
<1>6. /\ \A c, e : e \in EntriesIn(new, c) <=>
            \E j \in DOMAIN items : Front(items[j].path) = c /\ e = Entry(items[j])
      /\ \A c : c \in OpenPaths(new) <=>
            \/ \E j \in DOMAIN items \ {k} : items[j].expanded /\ c = items[j].path
            \/ c = a
  BY <1>4, <1>5, ReplacedShows
<1>7. /\ \A c, e : e \in EntriesIn(new, c) <=> e \in EntriesIn(items, c)
      /\ \A c : c \in OpenPaths(new) <=> c \in OpenPaths(items) \/ c = a
  BY <1>6, OldShows
<1>8. EntriesIn(new, a) = {}
  BY <1>2, <1>3, <1>6
<1>9. At(new, Q, a) = [loading |-> TRUE, entries |-> {}]
  <2>1. (a \in Q) = TRUE
    OBVIOUS
  <2> QED BY <1>8, <2>1, Zenon DEF At
<1>10. \A c : c # a => At(new, Q, c) = At(items, P, c)
  BY <1>7, SameAt
<1>11. /\ DOMAIN o = OpenPaths(items) \cup {<<>>}
       /\ \A c \in DOMAIN o : o[c] = At(items, P, c)
       /\ p = [c \in OpenPaths(new) \cup {<<>>} |-> At(new, Q, c)]
  BY OpenOfAt
<1>12. d \in DOMAIN o
  <2>1. CASE Len(a) > 1
    <3>1. PICK j \in DOMAIN items : items[j].path = d /\ items[j].expanded
      BY <1>1, <2>1 DEF Preorder
    <3> QED BY <1>11, <3>1, OldShows
  <2>2. CASE ~(Len(a) > 1)
    <3>1. Len(d) = 0 /\ d \in Seq(Names)
      BY <1>2, <2>2, PrefixFront
    <3> QED BY <1>11, <3>1
  <2> QED BY <2>1, <2>2
<1> DEFINE e == Entry(items[k])
<1>13. e.path = a /\ e.kind = "directory"
  BY DEF Entry
<1>14. e \in EntriesIn(items, d)
  BY OldShows
<1>15. e \in o[d].entries
  BY <1>11, <1>12, <1>14, AtFields
<1>16. OpenPaths(new) \cup {<<>>} = DOMAIN o \cup {a}
  BY <1>7, <1>11
<1> HIDE DEF a, Q, o, p, d, e
<1>17. p = [c \in DOMAIN o \cup {a} |->
               IF c = a THEN [loading |-> TRUE, entries |-> {}] ELSE o[c]]
  <2>1. \A c \in DOMAIN o \cup {a} :
           At(new, Q, c) = IF c = a THEN [loading |-> TRUE, entries |-> {}] ELSE o[c]
    BY <1>9, <1>10, <1>11
  <2> QED BY <1>11, <1>16, <2>1
<1>18. a \notin DOMAIN o
  BY <1>2, <1>11
<1>19. \E x \in DOMAIN o : \E y \in o[x].entries :
          /\ y.kind = "directory" /\ y.path \notin DOMAIN o
          /\ p = [c \in DOMAIN o \cup {y.path} |->
                     IF c = y.path THEN [loading |-> TRUE, entries |-> {}] ELSE o[c]]
  <2> WITNESS d \in DOMAIN o
  <2> WITNESS e \in o[d].entries
  <2> QED BY <1>13, <1>17, <1>18
<1> QED BY <1>19 DEF ExpandStep, o, p, new, Q, a

\* A row is closed, with all that was below it.
LEMMA ClosedStep ==
  ASSUME NEW w, NEW items \in Seq(RowsOf(w)), NEW P, Ordered(items, P), NEW k \in DOMAIN items,
         items[k].expanded, NEW gone, gone = Descendants(items, k), NEW new,
         Replaced(items, new, k, Shut(items[k]), gone, {}), NEW Q,
         Q = P \ {items[j].path : j \in gone \cup {k}}
  PROVE  CloseStep(OpenOf(items, P), OpenOf(new, Q))
<1> DEFINE a == items[k].path
           o == OpenOf(items, P)
           p == OpenOf(new, Q)
           row == Shut(items[k])
<1>1. Preorder(items)
  BY DEF Ordered
<1>2. /\ a \in OpenPaths(items) /\ a # <<>> /\ a \in Seq(Names)
      /\ Len(a) \in Nat /\ Len(a) >= 1
      /\ \A c \in OpenPaths(items) : c \in Seq(Names) /\ Len(c) \in Nat
  BY <1>1, OpenRows
<1>3. ~row.expanded
  BY RowFlags
<1> HIDE DEF row
<1>4. /\ \A c, e : e \in EntriesIn(new, c) <=>
            \E j \in DOMAIN items \ gone : Front(items[j].path) = c /\ e = Entry(items[j])
      /\ \A c : c \in OpenPaths(new) <=>
            \E j \in DOMAIN items \ (gone \cup {k}) : items[j].expanded /\ c = items[j].path
  <2>1. Replaced(items, new, k, row, gone, {})
    BY DEF row
  <2> QED BY <1>3, <2>1, ReplacedShows
<1>5. /\ IsPrefix(a, a)
      /\ \A j \in DOMAIN items : IsPrefix(a, items[j].path) <=> j \in gone \cup {k}
  <2>1. IsPrefix(a, a)
    BY <1>2, PrefixOrder
  <2> QED BY <2>1 DEF Descendants
<1>6. \A c : c \in OpenPaths(new) <=> c \in OpenPaths(items) /\ ~IsPrefix(a, c)
  BY <1>4, <1>5, OldShows
<1>7. ASSUME NEW c, ~IsPrefix(a, c), NEW j \in gone
      PROVE  Front(items[j].path) # c
  <2> SUFFICES ASSUME Front(items[j].path) = c PROVE FALSE
    OBVIOUS
  <2> DEFINE b == items[j].path
  <2>1. /\ j \in DOMAIN items /\ j # k /\ IsPrefix(a, b)
    BY DEF Descendants
  <2>2. b \in Seq(Names) /\ Len(b) \in Nat /\ Len(b) >= 1
    BY <2>1, RowFacts
  <2>3. Len(a) < Len(b)
    BY <1>1, <2>1, RowPrefixes
  <2> HIDE DEF b, a
  <2>4. IsPrefix(a, Front(b))
    BY <1>2, <2>1, <2>2, <2>3, PrefixFront
  <2> QED BY <1>7, <2>4 DEF b
<1>8. ASSUME NEW c, ~IsPrefix(a, c)
      PROVE  At(new, Q, c) = At(items, P, c)
  <2>1. \A e : e \in EntriesIn(items, c) <=> e \in EntriesIn(new, c)
    <3>1. gone \subseteq DOMAIN items
      BY DEF Descendants
    <3> QED BY <1>4, <1>7, <1>8, <3>1, OldShows
  <2>2. c \in P <=> c \in Q
    <3>1. \A j \in gone \cup {k} : items[j].path # c
      BY <1>5, <1>8 DEF Descendants
    <3> QED BY <3>1
  <2> QED BY <2>1, <2>2, SameAt
<1>9. /\ DOMAIN o = OpenPaths(items) \cup {<<>>}
      /\ \A c \in DOMAIN o : o[c] = At(items, P, c)
      /\ p = [c \in OpenPaths(new) \cup {<<>>} |-> At(new, Q, c)]
  BY OpenOfAt
<1>10. ~IsPrefix(a, <<>>)
  <2> DEFINE none == <<>>
  <2>1. none \in Seq(Names) /\ Len(none) = 0
    OBVIOUS
  <2> HIDE DEF none, a
  <2>2. IsPrefix(a, none) => Len(a) <= Len(none)
    BY <1>2, <2>1, PrefixByName
  <2> QED BY <1>2, <2>1, <2>2 DEF none
<1>11. OpenPaths(new) \cup {<<>>} = {c \in DOMAIN o : ~IsPrefix(a, c)}
  BY <1>6, <1>9, <1>10
<1>12. a \in DOMAIN o \ {<<>>}
  BY <1>2, <1>9
<1> HIDE DEF a, o, p
<1>13. p = [c \in {c \in DOMAIN o : ~IsPrefix(a, c)} |-> o[c]]
  <2>1. \A c \in {c \in DOMAIN o : ~IsPrefix(a, c)} : At(new, Q, c) = o[c]
    BY <1>8, <1>9
  <2> QED BY <1>9, <1>11, <2>1
<1> QED BY <1>12, <1>13 DEF CloseStep, o, p

\* _on_scan_result lists an open directory.
LEMMA FilledStep ==
  ASSUME NEW w, NEW items \in Seq(RowsOf(w)), NEW P, Ordered(items, P), NEW k \in DOMAIN items,
         NEW d, d = items[k].path, d \in P, NEW rows \in Seq(RowsOf(w)), ListedOf(rows, d)
  PROVE  ListedStep(OpenOf(items, P), OpenOf(FilledRows(items, k, rows), P \ {d}))
<1> DEFINE new == FilledRows(items, k, rows)
           Q == P \ {d}
           o == OpenOf(items, P)
           p == OpenOf(new, Q)
           row == Quiet(items[k])
           added == Rows(rows)
<1>1. items[k].expanded
  BY DEF Ordered, Flags
<1>2. Replaced(items, new, k, row, {}, added)
  BY FilledReplaced
<1>3. row.expanded = items[k].expanded
  BY RowFlags
<1>4. \A r \in added : Front(r.path) = d /\ ~r.expanded
  BY DEF Rows, ListedOf
<1> HIDE DEF new, row, added
<1>5. /\ \A c, e : e \in EntriesIn(new, c) <=>
            \/ \E j \in DOMAIN items : Front(items[j].path) = c /\ e = Entry(items[j])
            \/ \E r \in added : Front(r.path) = c /\ e = Entry(r)
      /\ \A c : c \in OpenPaths(new) <=>
            \/ \E j \in DOMAIN items \ {k} : items[j].expanded /\ c = items[j].path
            \/ row.expanded /\ c = items[k].path
            \/ \E r \in added : r.expanded /\ c = r.path
  BY <1>2, ReplacedShows
<1>6. /\ \A c, e : c # d => (e \in EntriesIn(new, c) <=> e \in EntriesIn(items, c))
      /\ \A c : c \in OpenPaths(new) <=> c \in OpenPaths(items)
  BY <1>1, <1>3, <1>4, <1>5, OldShows
<1>7. d \in OpenPaths(items)
  BY <1>1, OldShows
<1>8. \A c : c # d => At(new, Q, c) = At(items, P, c)
  BY <1>6, SameAt
<1>9. /\ DOMAIN o = OpenPaths(items) \cup {<<>>}
      /\ \A c \in DOMAIN o : o[c] = At(items, P, c)
      /\ p = [c \in OpenPaths(new) \cup {<<>>} |-> At(new, Q, c)]
      /\ DOMAIN p = OpenPaths(new) \cup {<<>>}
  BY OpenOfAt
<1>10. DOMAIN p = DOMAIN o /\ d \in DOMAIN o
  BY <1>6, <1>7, <1>9
<1>11. p[d] = At(new, Q, d) /\ o[d] = At(items, P, d)
  BY <1>9, <1>10
<1>12. o[d].loading /\ ~p[d].loading
  BY <1>11, AtFields
<1>13. \A e \in p[d].entries : Front(e.path) = d
  <2>1. \A e \in EntriesIn(new, d) : Front(e.path) = d
    BY DEF EntriesIn, Entry
  <2> QED BY <1>11, <2>1, AtFields
<1> HIDE DEF o, p, Q
<1>14. p = [o EXCEPT ![d] = p[d]]
  <2>1. \A c \in DOMAIN o : p[c] = IF c = d THEN p[d] ELSE o[c]
    BY <1>8, <1>9, <1>10
  <2> QED BY <1>9, <1>10, <2>1
<1> QED BY <1>10, <1>12, <1>13, <1>14 DEF ListedStep, o, p, new, Q

\* The first scan of the root is listed, or it failed: no row is expanded.
LEMMA RootStep ==
  ASSUME NEW items, items = <<>>, NEW P, <<>> \in P, NEW new,
         \A r \in Rows(new) : ~r.expanded
  PROVE  ListedStep(OpenOf(items, P), OpenOf(new, P \ {<<>>}))
<1> DEFINE d == <<>>
           Q == P \ {d}
           o == OpenOf(items, P)
           p == OpenOf(new, Q)
<1>1. OpenPaths(items) = {} /\ OpenPaths(new) = {}
  <2>1. DOMAIN items = {}
    OBVIOUS
  <2> QED BY <2>1 DEF OpenPaths, Rows
<1>2. /\ DOMAIN o = {d} /\ DOMAIN p = {d} /\ o[d] = At(items, P, d) /\ p[d] = At(new, Q, d)
      /\ p = [c \in {d} |-> At(new, Q, c)] /\ o = [c \in {d} |-> At(items, P, c)]
  BY <1>1, OpenOfAt
<1>3. d \in P /\ ~(d \in Q)
  OBVIOUS
<1> HIDE DEF d, o, p, Q
<1>4. o[d].loading /\ ~p[d].loading
  BY <1>2, <1>3, AtFields
<1>5. \A e \in p[d].entries : Front(e.path) = d
  <2>1. \A e \in EntriesIn(new, d) : Front(e.path) = d
    BY DEF EntriesIn, Entry
  <2> QED BY <1>2, <2>1, AtFields
<1>6. p = [o EXCEPT ![d] = p[d]]
  BY <1>2
<1> QED BY <1>2, <1>4, <1>5, <1>6 DEF ListedStep, d, o, p, Q

\* CancelTree: nothing loads any more.
LEMMA StopsStep ==
  ASSUME NEW w, NEW items \in Seq(RowsOf(w)), NEW P
  PROVE  StopStep(OpenOf(items, P), OpenOf(QuietRows(items), {}))
<1> DEFINE new == QuietRows(items)
           o == OpenOf(items, P)
           p == OpenOf(new, {})
<1>1. DOMAIN new = DOMAIN items
  BY DEF QuietRows
<1>2. \A j \in DOMAIN items : /\ new[j].path = items[j].path /\ Entry(new[j]) = Entry(items[j])
                              /\ new[j].expanded = items[j].expanded
  <2>1. ASSUME NEW j \in DOMAIN items
        PROVE  /\ new[j].path = items[j].path /\ new[j].kind = items[j].kind
               /\ new[j].expanded = items[j].expanded
    <3>1. new[j] = Quiet(items[j])
      BY DEF QuietRows
    <3>2. items[j] \in RowsOf(w)
      OBVIOUS
    <3> QED BY <3>1, <3>2, RowFlags
  <2> QED BY <2>1 DEF Entry
<1> HIDE DEF new
<1>3. /\ \A c, e : e \in EntriesIn(new, c) <=> e \in EntriesIn(items, c)
      /\ \A c : c \in OpenPaths(new) <=> c \in OpenPaths(items)
  BY <1>1, <1>2, OldShows
<1>4. /\ DOMAIN o = OpenPaths(items) \cup {<<>>}
      /\ \A c \in DOMAIN o : o[c] = At(items, P, c)
      /\ p = [c \in OpenPaths(new) \cup {<<>>} |-> At(new, {}, c)]
  BY OpenOfAt
<1>5. OpenPaths(new) \cup {<<>>} = DOMAIN o
  BY <1>3, <1>4
<1>6. ASSUME NEW c
      PROVE  At(new, {}, c) = [At(items, P, c) EXCEPT !.loading = FALSE]
  <2> DEFINE no == FALSE
             yes == c \in P
  <2>1. EntriesIn(new, c) = EntriesIn(items, c)
    <3> DEFINE x == EntriesIn(new, c)
               y == EntriesIn(items, c)
    <3>1. \A e : e \in x <=> e \in y
      BY <1>3
    <3> HIDE DEF x, y
    <3>2. x = y
      BY <3>1
    <3> QED BY <3>2 DEF x, y
  <2>2. (c \in {}) = no
    OBVIOUS
  <2>3. At(items, P, c) = [loading |-> yes, entries |-> EntriesIn(items, c)]
    BY Zenon DEF At
  <2>4. At(new, {}, c) = [loading |-> no, entries |-> EntriesIn(items, c)]
    BY <2>1, <2>2, Zenon DEF At
  <2>5. [At(items, P, c) EXCEPT !.loading = FALSE] = [At(items, P, c) EXCEPT !.loading = no]
    OBVIOUS
  <2> HIDE DEF no, yes
  <2> QED BY <2>3, <2>4, <2>5
<1> HIDE DEF o, p
<1>7. p = [d \in DOMAIN o |-> [o[d] EXCEPT !.loading = FALSE]]
  BY <1>4, <1>5, <1>6
<1> QED BY <1>7 DEF StopStep, o, p, new

\* A tree that is read again.
LEMMA FreshOpen ==
  ASSUME NEW items, items = <<>>
  PROVE  OpenOf(items, {<<>>}) = [d \in {<<>>} |-> [loading |-> TRUE, entries |-> {}]]
<1> DEFINE root == <<>>
           P == {root}
<1>1. OpenPaths(items) = {} /\ EntriesIn(items, root) = {}
  <2>1. DOMAIN items = {}
    OBVIOUS
  <2> QED BY <2>1 DEF OpenPaths, EntriesIn, Rows
<1>2. At(items, P, root) = [loading |-> TRUE, entries |-> {}]
  <2>1. (root \in P) = TRUE
    OBVIOUS
  <2> QED BY <1>1, <2>1, Zenon DEF At
<1>3. OpenOf(items, P) = [c \in {root} |-> At(items, P, c)]
  BY <1>1, OpenOfAt
<1> HIDE DEF root
<1>4. OpenOf(items, P) = [d \in {root} |-> [loading |-> TRUE, entries |-> {}]]
  BY <1>2, <1>3
<1> QED BY <1>4 DEF root

\* What a step of the rows does to the open directories.
OpenStep(o, p) ==
    p = o \/ ExpandStep(o, p) \/ ListedStep(o, p) \/ CloseStep(o, p) \/ StopStep(o, p)
OpenMove(b, e) ==
    \/ /\ e.root \in Workspaces
       /\ OpenIn(e) = [d \in {<<>>} |-> [loading |-> TRUE, entries |-> {}]]
    \/ e.root = b.root /\ OpenStep(OpenIn(b), OpenIn(e))

\* The answer of a scan.
LEMMA TakesStep ==
  ASSUME NEW b, b.root \in Workspaces, b.items \in Seq(RowsOf(b.root)),
         Ordered(b.items, DOMAIN b.pending), NEW e, NEW task \in ScanTasks, Takes(b, e, task)
  PROVE  OpenStep(OpenOf(b.items, DOMAIN b.pending), OpenOf(e.items, DOMAIN e.pending))
<1> DEFINE items == b.items
           P == DOMAIN b.pending
           d == task.path
           entries == task.result.entries
           root == <<>>
           w == b.root
           after == e.items
           Q == DOMAIN e.pending
<1>1. /\ d \in Seq(Names) /\ Len(d) <= MaxDepth /\ entries \in Listings(d)
      /\ d \in P /\ Q = P \ {d} /\ w \in Workspaces /\ items \in Seq(RowsOf(w))
      /\ Ordered(items, P)
  BY DEF ScanTasks, TaskOf, Takes
<1>2. \/ after = FailedRows(items, d)
      \/ d = root /\ after = ListedUnder(entries, 0, w)
      \/ \E k \in DOMAIN items :
            /\ items[k].path = d
            /\ after = FilledRows(items, k, ListedUnder(entries, items[k].depth + 1, w))
  BY TakesShown
<1>3. root = <<>> /\ Len(root) = 0
  OBVIOUS
<1> HIDE DEF items, P, d, entries, root, w, after, Q
<1>4. d = root => items = <<>>
  BY <1>1, <1>3 DEF Ordered, Flags
<1>5. CASE after = FailedRows(items, d) /\ d = root
  <2>1. DOMAIN items = {}
    BY <1>4, <1>5
  <2>2. DOMAIN after = {}
    BY <1>5, <2>1 DEF FailedRows
  <2>3. \A r \in Rows(after) : ~r.expanded
    BY <2>2 DEF Rows
  <2>4. ListedStep(OpenOf(items, P), OpenOf(after, P \ {<<>>}))
    BY <1>1, <1>3, <1>4, <1>5, <2>3, RootStep
  <2> QED BY <1>1, <1>3, <1>5, <2>4 DEF OpenStep, items, P, after, Q
<1>6. CASE after = FailedRows(items, d) /\ d # root
  <2>1. PICK k \in DOMAIN items : items[k].path = d
    BY <1>1, <1>3, <1>6 DEF Ordered, Flags
  <2>2. items[k].loading /\ items[k].expanded /\ Preorder(items)
    BY <1>1, <2>1 DEF Ordered, Flags
  <2>3. Descendants(items, k) = {}
    BY <1>1, <2>2, Childless
  <2>4. Replaced(items, after, k, Shut(items[k]), {}, {})
    <3>1. d = items[k].path
      BY <2>1
    <3>2. Replaced(items, FailedRows(items, d), k, Shut(items[k]), {}, {})
      BY <1>1, <2>2, <3>1, FailedReplaced
    <3> QED BY <1>6, <3>2
  <2>5. Q = P \ {items[j].path : j \in {} \cup {k}}
    BY <1>1, <2>1
  <2>6. CloseStep(OpenOf(items, P), OpenOf(after, Q))
    <3> DEFINE gone == {}
    <3>1. /\ gone = Descendants(items, k) /\ Replaced(items, after, k, Shut(items[k]), gone, {})
          /\ Q = P \ {items[j].path : j \in gone \cup {k}}
      BY <2>3, <2>4, <2>5
    <3> HIDE DEF gone
    <3> QED BY <1>1, <2>2, <3>1, ClosedStep
  <2> QED BY <2>6 DEF OpenStep, items, P, after, Q
<1>7. CASE d = root /\ after = ListedUnder(entries, 0, w)
  <2>1. \A r \in Rows(after) : ~r.expanded
    <3> DEFINE zero == 0
               rows == ListedUnder(entries, zero, w)
    <3>1. zero = Len(d)
      BY <1>3, <1>7
    <3> HIDE DEF zero
    <3>2. ListedOf(rows, d)
      BY <1>1, <3>1, ListedFacts
    <3>3. after = rows
      BY <1>7 DEF zero
    <3> HIDE DEF rows
    <3> QED BY <3>2, <3>3 DEF Rows, ListedOf
  <2>2. ListedStep(OpenOf(items, P), OpenOf(after, P \ {<<>>}))
    BY <1>1, <1>3, <1>4, <1>7, <2>1, RootStep
  <2> QED BY <1>1, <1>3, <1>7, <2>2 DEF OpenStep, items, P, after, Q
<1>8. ASSUME NEW k \in DOMAIN items, items[k].path = d,
             after = FilledRows(items, k, ListedUnder(entries, items[k].depth + 1, w))
      PROVE  ListedStep(OpenOf(items, P), OpenOf(after, Q))
  <2> DEFINE depth == items[k].depth + 1
             rows == ListedUnder(entries, depth, w)
  <2>1. depth = Len(d)
    BY <1>1, <1>8, RowFacts
  <2>2. after = FilledRows(items, k, rows)
    BY <1>8
  <2> HIDE DEF depth
  <2>3. rows \in Seq(RowsOf(w)) /\ ListedOf(rows, d)
    BY <1>1, <2>1, ListedFacts
  <2> HIDE DEF rows
  <2>4. ListedStep(OpenOf(items, P), OpenOf(FilledRows(items, k, rows), P \ {d}))
    BY <1>1, <1>8, <2>3, FilledStep
  <2> QED BY <1>1, <2>2, <2>4
<1> QED BY <1>2, <1>5, <1>6, <1>7, <1>8 DEF OpenStep, items, P, after, Q

\* Every move of the rows.
LEMMA MoveOpens ==
  ASSUME NEW b, TreeSound(b, b.root), Ordered(b.items, DOMAIN b.pending), NEW e, TreeMove(b, e)
  PROVE  OpenMove(b, e)
<1> DEFINE items == b.items
           P == DOMAIN b.pending
           o == OpenOf(items, P)
           p == OpenOf(e.items, DOMAIN e.pending)
<1>1. /\ items \in Seq(RowsOf(b.root)) /\ Ordered(items, P) /\ Preorder(items)
      /\ b.root \in Roots /\ NoWorkspace \notin Workspaces
  BY WorkspaceAssumption DEF TreeSound, Ordered
<1>2. ASSUME e.root \in Workspaces, Fresh(e, e.root)
      PROVE  OpenMove(b, e)
  <2>1. e.items = <<>> /\ DOMAIN e.pending = {<<>>} /\ e.root # NoWorkspace
    BY <1>1, <1>2 DEF Fresh
  <2>2. OpenIn(e) = OpenOf(e.items, {<<>>})
    BY <2>1 DEF OpenIn
  <2>3. OpenIn(e) = [d \in {<<>>} |-> [loading |-> TRUE, entries |-> {}]]
    BY <2>1, <2>2, FreshOpen
  <2> QED BY <1>2, <2>3 DEF OpenMove
<1>3. ASSUME e.root = b.root, b.root = NoWorkspace
      PROVE  OpenMove(b, e)
  <2>1. OpenIn(b) = <<>> /\ OpenIn(e) = <<>>
    BY <1>3 DEF OpenIn
  <2> QED BY <1>3, <2>1 DEF OpenMove, OpenStep
<1>4. ASSUME e.root = b.root, b.root # NoWorkspace, OpenStep(o, p)
      PROVE  OpenMove(b, e)
  <2>1. OpenIn(b) = o /\ OpenIn(e) = p
    BY <1>4, Zenon DEF OpenIn
  <2> QED BY <1>4, <2>1 DEF OpenMove
<1>5. ASSUME Still(b, e)
      PROVE  OpenStep(o, p)
  BY <1>5 DEF Still, OpenStep
<1>6. ASSUME Stops(b, e)
      PROVE  OpenStep(o, p)
  <2>1. StopStep(OpenOf(items, P), OpenOf(QuietRows(items), {}))
    <3> HIDE DEF items, P
    <3> QED BY <1>1, StopsStep
  <2> QED BY <1>6, <2>1 DEF Stops, OpenStep
<1>7. ASSUME NEW k \in DOMAIN items, Opens(b, e, k)
      PROVE  OpenStep(o, p)
  <2>1. /\ items[k].kind = "directory" /\ ~items[k].expanded
        /\ e.items = OpenedRows(items, k) /\ DOMAIN e.pending = P \cup {items[k].path}
    BY <1>7 DEF Opens
  <2> HIDE DEF items, P
  <2>2. ExpandStep(OpenOf(items, P), OpenOf(OpenedRows(items, k), P \cup {items[k].path}))
    BY <1>1, <2>1, OpensStep
  <2> QED BY <2>1, <2>2 DEF OpenStep
<1>8. ASSUME NEW k \in DOMAIN items, Collapses(b, e, k)
      PROVE  OpenStep(o, p)
  <2> DEFINE g == Cardinality(Below(b, k))
             gone == Descendants(items, k)
             new == e.items
             Q == DOMAIN e.pending
  <2>1. g \in Nat /\ k + g <= Len(items) /\ Below(b, k) = (k + 1)..(k + g)
    <3> DEFINE n == g
    <3>1. n = Cardinality(Below(b, k))
      OBVIOUS
    <3> HIDE DEF n
    <3>2. n \in Nat /\ k + n <= Len(b.items) /\ Below(b, k) = (k + 1)..(k + n)
      BY <1>1, <3>1, BelowInterval
    <3> QED BY <3>1, <3>2
  <2>2. Below(b, k) = gone
    BY <1>1, BelowAre
  <2>3. /\ items[k].expanded /\ new = CollapsedRows(items, k, g)
        /\ Q = P \ {items[j].path : j \in gone \cup {k}}
        /\ gone = (k + 1)..(k + g)
    BY <1>8, <2>1, <2>2 DEF Collapses
  <2>4. gone = Descendants(items, k)
    OBVIOUS
  <2> HIDE DEF items, P, g, gone, new, Q
  <2>5. Replaced(items, CollapsedRows(items, k, g), k, Shut(items[k]), gone, {})
    BY <1>1, <2>1, <2>3, CollapsedReplaced
  <2>6. Replaced(items, new, k, Shut(items[k]), gone, {})
    BY <2>3, <2>5
  <2>7. CloseStep(OpenOf(items, P), OpenOf(new, Q))
    BY <1>1, <2>3, <2>4, <2>6, ClosedStep
  <2> QED BY <2>7 DEF OpenStep, new, Q
<1>9. ASSUME b.root \in Workspaces, NEW task \in ScanTasks, Takes(b, e, task)
      PROVE  OpenStep(o, p)
  BY <1>1, <1>9, TakesStep
<1> HIDE DEF o, p, items
<1>10. CASE e.root = b.root
  <2>1. b.root # NoWorkspace => OpenStep(o, p) \/ (Fresh(e, e.root) /\ e.root \in Workspaces)
    BY <1>5, <1>6, <1>7, <1>8, <1>9 DEF TreeMove, items
  <2> QED BY <1>2, <1>3, <1>4, <1>10, <2>1
<1> QED BY <1>2, <1>10 DEF TreeMove

ContractStep == [Contract!TreeNext]_(Contract!treeVars)

\* The steps of the open directories are the contract's.
LEMMA OpenStepIsContract ==
  ASSUME tree'.root = tree.root, OpenStep(OpenDirectories, OpenDirectories')
  PROVE  ContractStep
<1> DEFINE o == OpenDirectories
           p == OpenDirectories'
<1>1. ASSUME p = o
      PROVE  ContractStep
  BY <1>1 DEF ContractStep, Contract!treeVars
<1>2. ASSUME ExpandStep(o, p)
      PROVE  Contract!Expand
  <2> HIDE DEF o, p
  <2>1. PICK d \in DOMAIN o : \E e \in o[d].entries :
          /\ e.kind = "directory" /\ e.path \notin DOMAIN o
          /\ p = [c \in DOMAIN o \cup {e.path} |->
                    IF c = e.path THEN [loading |-> TRUE, entries |-> {}] ELSE o[c]]
    BY <1>2 DEF ExpandStep
  <2> QED BY <2>1, Zenon DEF Contract!Expand, Contract!Loading, o, p
<1>3. ASSUME ListedStep(o, p)
      PROVE  Contract!Listed
  BY <1>3, Zenon DEF ListedStep, Contract!Listed, Front, Contract!Front
<1>4. ASSUME CloseStep(o, p)
      PROVE  Contract!Close
  BY <1>4, Zenon DEF CloseStep, Contract!Close, IsPrefix, Contract!IsPrefix
<1>5. ASSUME StopStep(o, p)
      PROVE  Contract!Stop
  BY <1>5, Zenon DEF StopStep, Contract!Stop
<1> QED
  BY <1>1, <1>2, <1>3, <1>4, <1>5 DEF OpenStep, ContractStep, Contract!TreeNext

LEMMA MoveIsContract ==
  ASSUME OpenMove(tree, tree'), OpenDirectories = OpenIn(tree), OpenDirectories' = OpenIn(tree')
  PROVE  ContractStep
<1>1. ASSUME tree'.root \in Workspaces,
             OpenIn(tree') = [d \in {<<>>} |-> [loading |-> TRUE, entries |-> {}]]
      PROVE  ContractStep
  <2>1. Contract!Reset
    BY <1>1, Zenon DEF Contract!Reset, Contract!Unread, Contract!Loading
  <2> QED BY <2>1 DEF ContractStep, Contract!TreeNext
<1>2. ASSUME tree'.root = tree.root, OpenStep(OpenIn(tree), OpenIn(tree'))
      PROVE  ContractStep
  BY <1>2, OpenStepIsContract
<1> QED BY <1>1, <1>2 DEF OpenMove

\* The rows, the requests and the threads of the browser implement the tree of
\* open directories: only a directory that is shown is opened, an answer is shown
\* only in the directory that waits for it, and lists nothing of any other, and
\* what is closed takes all that was opened below it along.
THEOREM TreeRefinesContract == Spec => TreeKeepsContract
<1>0. OpenDirectories = OpenIn(tree)
  BY OpenDirectoriesAre
<1>1. Init => Contract!TreeInit
  <2> SUFFICES ASSUME Init PROVE Contract!TreeInit
    OBVIOUS
  <2>1. /\ workspace \in Roots
        /\ tree.items = <<>> /\ tree.root = workspace
        /\ DOMAIN tree.pending = IF workspace = NoWorkspace THEN {} ELSE {<<>>}
    <3>1. workspace \in Roots /\ tree = SyncTree(NewTree, workspace)
      BY DEF Init, Roots
    <3>2. /\ TreeSound(tree, workspace)
          /\ tree = NewTree \/ NewTree.scans.closed \/ Fresh(tree, workspace)
      BY <3>1, NewTreeSound, SyncTreeSound
    <3>3. ~NewTree.scans.closed /\ NewTree.root = NoWorkspace /\ Fresh(NewTree, NoWorkspace)
      BY NewTreeSound DEF TreeSound
    <3>4. tree.root = workspace
      BY <3>2 DEF TreeSound
    <3>5. Fresh(tree, workspace)
      BY <3>2, <3>3, <3>4
    <3> QED BY <3>1, <3>4, <3>5 DEF Fresh
  <2>2. CASE workspace = NoWorkspace
    <3>1. OpenDirectories = <<>>
      BY <1>0, <2>1, <2>2 DEF OpenIn
    <3> QED BY <2>1, <2>2, <3>1 DEF Contract!TreeInit
  <2>3. CASE workspace # NoWorkspace
    <3>1. OpenDirectories = OpenOf(tree.items, {<<>>})
      BY <1>0, <2>1, <2>3 DEF OpenIn
    <3>2. OpenDirectories = [d \in {<<>>} |-> [loading |-> TRUE, entries |-> {}]]
      BY <2>1, <3>1, FreshOpen
    <3> QED BY <2>1, <2>3, <3>2, Zenon DEF Contract!TreeInit, Contract!Unread, Contract!Loading, Roots
  <2> QED BY <2>2, <2>3
<1>2. (OpenDirectories = OpenIn(tree))'
  BY <1>0, PTL
<1>3. IInv /\ [Next]_vars => [Contract!TreeNext]_(Contract!treeVars)
  <2> SUFFICES ASSUME IInv, [Next]_vars PROVE ContractStep
    BY DEF ContractStep
  <2>1. TreeMove(tree, tree')
    BY NextSound
  <2>2. TreeSound(tree, tree.root) /\ Ordered(tree.items, DOMAIN tree.pending)
    BY DEF IInv, TreeSound
  <2>3. OpenMove(tree, tree')
    BY <2>1, <2>2, MoveOpens
  <2>4. OpenDirectories' = OpenIn(tree')
    BY <1>2 DEF OpenIn
  <2> QED BY <1>0, <2>3, <2>4, MoveIsContract
<1> QED BY <1>1, <1>3, Invariant, PTL DEF Spec, TreeKeepsContract, Contract!TreeSpec
=============================================================================
