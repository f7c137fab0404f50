----------------------------- MODULE Scheduler -----------------------------
(***************************************************************************)
(* Scheduler (src/src/common/scheduler.{h,cc}): one thread that runs        *)
(* periodic tasks; any thread adds and completes tasks, the library's Init  *)
(* and Uninit start, stop and clear it.                                     *)
(*                                                                          *)
(* Points in time are kept relative to now: a task with left <= 0 is due,   *)
(* and Tick brings every deadline nearer.  What happens under tasks_mutex_  *)
(* is one step; running_ and the condition variable are used without it.    *)
(***************************************************************************)
EXTENDS Integers, FiniteSets

CONSTANTS
    Users,      \* threads that add and complete tasks
    Intervals,  \* intervals of the tasks, in ticks
    MaxId,      \* bound: tasks added before a Clear
    MaxLate     \* bound: ticks the thread may be behind

\* Ids are counted from 1, and intervals are a number of ticks.
ConstantsOK == MaxId \in Nat /\ Intervals \subseteq Nat

VARIABLES
    running,      \* running_
    tasks,        \* tasks_: the heap, a set of [id, left, interval]
    task_status,  \* task_status_: set of [id, on]
    id_cnt,
    pc,           \* the scheduler thread
    current,      \* the task it runs, or waits for in wait_until
    upc,          \* users inside AddPeriodicTask, before the notification
    mpc,          \* the thread that starts and stops
    completed     \* history: tasks whose CompleteTask has returned

vars == <<running, tasks, task_status, id_cnt, pc, current, upc, mpc, completed>>

NoTask == [id |-> 0, left |-> 0, interval |-> 0]

Init ==
    /\ running = FALSE
    /\ tasks = {} /\ task_status = {} /\ id_cnt = 0
    /\ pc = "none" /\ current = NoTask
    /\ upc = [u \in Users |-> "idle"]
    /\ mpc = "idle"
    /\ completed = {}

Top(t) == t \in tasks /\ \A s \in tasks : t.left <= s.left
On(id) == \E s \in task_status : s.id = id /\ s.on

Waiting == pc \in {"wait", "wait_until"}
Awake == IF Waiting THEN "loop" ELSE pc

(***************************************************************************)
(* AddPeriodicTask: the notification is sent after the unlock, and only if  *)
(* the new task is the next one to run.                                     *)
(***************************************************************************)
AddPeriodicTask(u, interval) ==
    LET t == [id |-> id_cnt + 1, left |-> interval, interval |-> interval]
    IN  /\ upc[u] = "idle" /\ id_cnt < MaxId
        /\ id_cnt' = id_cnt + 1
        /\ tasks' = tasks \cup {t}
        /\ task_status' = task_status \cup {[id |-> t.id, on |-> TRUE]}
        /\ upc' = [upc EXCEPT ![u] = IF \A s \in tasks : interval < s.left
                                     THEN "notify" ELSE "idle"]
        /\ UNCHANGED <<running, pc, current, mpc, completed>>

\* Mutant: a new task never wakes the thread.
NotifyNobody(u) ==
    /\ upc[u] = "notify"
    /\ upc' = [upc EXCEPT ![u] = "idle"]
    /\ UNCHANGED <<running, tasks, task_status, id_cnt, pc, current, mpc, completed>>

NotifyOne(u) ==
    /\ upc[u] = "notify"
    /\ upc' = [upc EXCEPT ![u] = "idle"]
    /\ pc' = Awake
    /\ UNCHANGED <<running, tasks, task_status, id_cnt, current, mpc, completed>>

CompleteTask(id) ==
    /\ \E s \in task_status : s.id = id /\ s.on
    /\ task_status' = {IF s.id = id THEN [s EXCEPT !.on = FALSE] ELSE s : s \in task_status}
    /\ completed' = completed \cup {id}
    /\ UNCHANGED <<running, tasks, id_cnt, pc, current, upc, mpc>>

(***************************************************************************)
(* The thread                                                               *)
(***************************************************************************)
\* while (running_), without the lock
Loop ==
    /\ pc = "loop"
    /\ pc' = IF running THEN "lock" ELSE "exit"
    /\ UNCHANGED <<running, tasks, task_status, id_cnt, current, upc, mpc, completed>>

WaitForTask ==
    /\ pc = "lock" /\ tasks = {}
    /\ pc' = "wait"
    /\ UNCHANGED <<running, tasks, task_status, id_cnt, current, upc, mpc, completed>>

\* Mutant: the status is not looked at.
TakeAnyway(t) ==
    /\ pc = "lock" /\ Top(t) /\ t.left <= 0
    /\ tasks' = tasks \ {t}
    /\ pc' = "run" /\ current' = t
    /\ UNCHANGED <<running, task_status, id_cnt, upc, mpc, completed>>

\* The next task is due: it leaves the heap, and runs unless it is completed.
TakeTask(t) ==
    /\ pc = "lock" /\ Top(t) /\ t.left <= 0
    /\ tasks' = tasks \ {t}
    /\ IF On(t.id)
       THEN pc' = "run" /\ current' = [t EXCEPT !.left = t.interval] /\ UNCHANGED task_status
       ELSE /\ task_status' = {s \in task_status : s.id # t.id}
            /\ pc' = "loop" /\ UNCHANGED current
    /\ UNCHANGED <<running, id_cnt, upc, mpc, completed>>

\* Mutant: the task is not scheduled again.
RescheduleForgets ==
    /\ pc = "run" /\ pc' = "loop" /\ current' = NoTask
    /\ UNCHANGED <<running, tasks, task_status, id_cnt, upc, mpc, completed>>

\* task() has returned: it is scheduled again, counted from when it was taken.
Reschedule ==
    /\ pc = "run"
    /\ tasks' = tasks \cup {current}
    /\ pc' = "loop" /\ current' = NoTask
    /\ UNCHANGED <<running, task_status, id_cnt, upc, mpc, completed>>

WaitUntil(t) ==
    /\ pc = "lock" /\ Top(t) /\ t.left > 0
    /\ pc' = "wait_until" /\ current' = t
    /\ UNCHANGED <<running, tasks, task_status, id_cnt, upc, mpc, completed>>

TimedOut ==
    /\ pc = "wait_until" /\ current.left <= 0
    /\ pc' = "loop"
    /\ UNCHANGED <<running, tasks, task_status, id_cnt, current, upc, mpc, completed>>

SpuriousWakeup ==
    /\ Waiting
    /\ pc' = "loop"
    /\ UNCHANGED <<running, tasks, task_status, id_cnt, current, upc, mpc, completed>>

Nearer(t) == [t EXCEPT !.left = @ - 1]
Tick ==
    /\ \A t \in tasks : t.left > -MaxLate
    /\ pc \in {"run", "wait_until"} => current.left > -MaxLate
    /\ tasks' = {Nearer(t) : t \in tasks}
    /\ current' = IF pc \in {"run", "wait_until"} THEN Nearer(current) ELSE NoTask
    /\ UNCHANGED <<running, task_status, id_cnt, pc, upc, mpc, completed>>

(***************************************************************************)
(* Start, Stop and Clear, called by one thread (under g_vesal_init_mutex).  *)
(***************************************************************************)
Start ==
    /\ mpc = "idle" /\ ~running
    /\ running' = TRUE /\ pc' = "loop"
    /\ UNCHANGED <<tasks, task_status, id_cnt, current, upc, mpc, completed>>

StopFlag ==
    /\ mpc = "idle" /\ running
    /\ running' = FALSE
    /\ mpc' = "notify"
    /\ UNCHANGED <<tasks, task_status, id_cnt, pc, current, upc, completed>>

StopNotify ==
    /\ mpc = "notify"
    /\ pc' = Awake
    /\ mpc' = "join"
    /\ UNCHANGED <<running, tasks, task_status, id_cnt, current, upc, completed>>

StopJoin ==
    /\ mpc = "join" /\ pc = "exit"
    /\ mpc' = "clear" /\ current' = NoTask
    /\ UNCHANGED <<running, tasks, task_status, id_cnt, pc, upc, completed>>

\* UninitImpl returns between Stop and Clear when QatUserStop fails: the tasks stay, and
\* are there when a later Init starts the thread again.
LeaveTasks ==
    /\ mpc = "clear"
    /\ mpc' = "idle" /\ pc' = "none"
    /\ UNCHANGED <<running, tasks, task_status, id_cnt, current, upc, completed>>

\* Clear follows Stop in UninitImpl, which does nothing when the thread is already
\* stopped.  It takes no lock and is one step here: a task that is added or completed
\* while it runs would be a data race on the heap, and nobody uses the library during
\* Uninit.  A notification begun before may still come.
Clear ==
    /\ mpc = "clear" \/ (mpc = "idle" /\ ~running)
    /\ tasks' = {} /\ task_status' = {} /\ id_cnt' = 0
    /\ mpc' = "idle" /\ pc' = "none" /\ completed' = {}
    /\ UNCHANGED <<running, current, upc>>

Thread == \/ Loop \/ WaitForTask \/ Reschedule \/ TimedOut
          \/ \E t \in tasks : TakeTask(t) \/ WaitUntil(t)

Next ==
    \/ \E u \in Users : \/ \E i \in Intervals : AddPeriodicTask(u, i)
                        \/ NotifyOne(u)
    \/ \E id \in 1 .. MaxId : CompleteTask(id)
    \/ Thread
    \/ SpuriousWakeup
    \/ Tick
    \/ Start \/ StopFlag \/ StopNotify \/ StopJoin \/ LeaveTasks \/ Clear

Spec == Init /\ [][Next]_vars

\* The threads run, time passes, a notification that was begun is sent; nobody
\* has to add, complete, start or stop anything, and no wakeup is spurious.
FairSpec == /\ Spec
            /\ WF_vars(Thread) /\ WF_vars(Tick)
            /\ \A u \in Users : WF_vars(NotifyOne(u))
            /\ WF_vars(StopNotify) /\ WF_vars(StopJoin)

-----------------------------------------------------------------------------
Tasks == [id : 0 .. MaxId, left : Int, interval : Intervals \cup {0}]

\* The types of the fields and of the threads.
TypeOK ==
    /\ running \in BOOLEAN
    /\ tasks \subseteq Tasks /\ current \in Tasks
    /\ task_status \subseteq [id : 1 .. MaxId, on : BOOLEAN]
    /\ id_cnt \in 0 .. MaxId
    /\ pc \in {"none", "loop", "lock", "wait", "wait_until", "run", "exit"}
    /\ upc \in [Users -> {"idle", "notify"}]
    /\ mpc \in {"idle", "notify", "join", "clear"}
    /\ completed \subseteq 1 .. MaxId

\* "Remove the task before running it, to prevent overlap" (scheduler.cc:62): a task
\* whose status is kept is in the heap once, or is the one that runs; none is lost
\* between the pop and the push after it ran, and none is scheduled twice.
TaskHasOnePlace ==
    \A s \in task_status :
        LET inHeap == {t \in tasks : t.id = s.id}
            runs == pc = "run" /\ current.id = s.id
        IN  IF runs THEN inHeap = {} ELSE Cardinality(inHeap) = 1

\* The heap, the status map and the thread's task keep their types and agree on the
\* place of every task.
TasksConsistent == TypeOK /\ TaskHasOnePlace

\* Ids name tasks: the heap and the status map have at most one entry for each that was
\* given out, and what is in the heap or runs has a status.
IdsUnique ==
    /\ \A t, u \in tasks : t.id = u.id => t = u
    /\ \A s, r \in task_status : s.id = r.id => s = r
    /\ \A s \in task_status : s.id \in 1 .. id_cnt
    /\ \A t \in tasks : \E s \in task_status : s.id = t.id
    /\ pc = "run" => \E s \in task_status : s.id = current.id

\* A task with a status is in the heap, unless it runs, and only then.
Placed ==
    \A s \in task_status :
        (\E t \in tasks : t.id = s.id) <=> ~(pc = "run" /\ current.id = s.id)

\* CompleteTask leaves no task on that it has returned for.
CompletedOff == \A id \in completed : id \in 1 .. id_cnt /\ ~On(id)

\* The thread exists while it is wanted, and is joined before the heap is cleared.
PhasesFit ==
    /\ pc = "none" <=> mpc = "idle" /\ ~running
    /\ mpc # "idle" => ~running
    /\ mpc = "clear" => pc = "exit"

\* What makes the properties above and below inductive.
SchedulerInvariant == TypeOK /\ IdsUnique /\ Placed /\ CompletedOff /\ PhasesFit

\* The scheduler keeps its heap, the status map and its thread in step.
SchedulerSafe == SchedulerInvariant /\ TasksConsistent

\* Once CompleteTask(id) has returned the thread does not start that task again.
CompletedNeverStarts ==
    [][pc # "run" /\ pc' = "run" => current'.id \notin completed]_vars

\* A task that is added and not completed is run again and again while the
\* scheduler runs, also one that became the earliest while the thread waited.
EveryTaskRuns ==
    \A id \in 1 .. MaxId :
        On(id) /\ running ~> \/ pc = "run" /\ current.id = id
                             \/ ~On(id)
                             \/ ~running

(***************************************************************************)
(* What a comment says, and the code does not do.                           *)
(***************************************************************************)
\* scheduler.h:57: Stop "Stops the scheduler and joins the thread."
StopReturns == mpc = "notify" ~> mpc = "clear"
=============================================================================
