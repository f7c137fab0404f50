---------------------------- MODULE PollerWorker ----------------------------
(***************************************************************************)
(* QatPollerWorker (src/src/codec/qat/qat_poller_worker.{h,cc}): user       *)
(* threads schedule requests, the thread of a QatPoller takes them from the *)
(* queue, submits them to a QatCodecEngine, polls it and runs the users'    *)
(* callbacks.  A rejected submission becomes a failed result that must be   *)
(* called back in its place among the engine's results.                     *)
(*                                                                          *)
(* worker_tasks_ is the FIFO queue that MpscQueue implements.  The engine   *)
(* is the channel QatEngine implements: it answers what it accepted once    *)
(* and in order, except that a fatal engine without HA answers nothing new. *)
(***************************************************************************)
EXTENDS Integers, Sequences, FiniteSets

CONSTANTS
    Users,         \* threads that call Schedule
    MaxSubmitNum,  \* kMaxSubmitNum, kMaxPollingNum
    MaxInQat,      \* the engine's max_in_qat_size_
    MaxTask        \* bound: calls of Schedule per user

ASSUME SizeAssumption == MaxSubmitNum \in Nat \ {0} /\ MaxInQat \in Nat \ {0}
ASSUME BoundAssumption == MaxTask \in Nat

VARIABLES
    running,        \* running_
    worker_tasks,   \* worker_tasks_
    task_buffer,    \* task_buffer_: drained tasks that are still to be submitted
    failed_tasks,   \* submit_failed_tasks_
    results,        \* result_buffer_: results that are still to be merged
    req_id, expected_req_id, inflight_num,
    engine,         \* tasks the engine has accepted and not returned, oldest first
    ready,          \* how many of them have a result buffered in the engine
    is_fatal,       \* the engine's is_fatal_
    ha_enabled,     \* the engine's ha_policy, an option of the channel
    wpc,            \* the poller's thread
    upc,            \* users: before, or between the two steps of Schedule
    scheduled,      \* history: calls of Schedule by each user
    pushed,         \* history: tasks in the order of Push
    called          \* history: tasks in the order of their callbacks

userVars == <<upc, scheduled>>
engineVars == <<engine, ready, is_fatal, ha_enabled>>
idVars == <<req_id, expected_req_id, inflight_num>>
vars == <<running, worker_tasks, task_buffer, failed_tasks, results, idVars, engineVars,
          wpc, userVars, pushed, called>>

Min(a, b) == IF a < b THEN a ELSE b
\* A task is [u, n], the n-th of user u; the worker gives it a req_id.
WithId(t, id) == [t |-> t, id |-> id]

Init ==
    /\ running = TRUE
    /\ worker_tasks = <<>> /\ task_buffer = <<>> /\ failed_tasks = <<>> /\ results = <<>>
    /\ req_id = 1 /\ expected_req_id = 1 /\ inflight_num = 0
    /\ engine = <<>> /\ ready = 0 /\ is_fatal = FALSE /\ ha_enabled \in BOOLEAN
    /\ wpc = "idle"
    /\ upc = [u \in Users |-> "idle"] /\ scheduled = [u \in Users |-> 0]
    /\ pushed = <<>> /\ called = <<>>

(***************************************************************************)
(* Schedule: running_ is looked at first, the task is pushed later.         *)
(***************************************************************************)
ScheduleCheck(u) ==
    /\ upc[u] = "idle" /\ scheduled[u] < MaxTask
    /\ scheduled' = [scheduled EXCEPT ![u] = @ + 1]
    /\ upc' = [upc EXCEPT ![u] = IF running THEN "push" ELSE "idle"]
    /\ UNCHANGED <<running, worker_tasks, task_buffer, failed_tasks, results, idVars,
                   engineVars, wpc, pushed, called>>

SchedulePush(u) ==
    LET t == [u |-> u, n |-> scheduled[u]]
    IN  /\ upc[u] = "push"
        /\ worker_tasks' = Append(worker_tasks, t)
        /\ pushed' = Append(pushed, t)
        /\ upc' = [upc EXCEPT ![u] = "idle"]
        /\ UNCHANGED <<running, task_buffer, failed_tasks, results, idVars, engineVars,
                       wpc, scheduled, called>>

(***************************************************************************)
(* LoopOnce                                                                 *)
(***************************************************************************)
LoopOnce ==
    /\ wpc = "idle"
    /\ wpc' = "drain"
    /\ UNCHANGED <<running, worker_tasks, task_buffer, failed_tasks, results, idVars,
                   engineVars, userVars, pushed, called>>

DrainOne ==
    /\ wpc = "drain"
    /\ worker_tasks # <<>> /\ Len(task_buffer) < MaxSubmitNum
    /\ task_buffer' = Append(task_buffer, Head(worker_tasks))
    /\ worker_tasks' = Tail(worker_tasks)
    /\ UNCHANGED <<running, failed_tasks, results, idVars, engineVars, wpc, userVars,
                   pushed, called>>

DrainEnds ==
    /\ wpc = "drain"
    /\ worker_tasks = <<>> \/ Len(task_buffer) = MaxSubmitNum
    /\ wpc' = "submit"
    /\ UNCHANGED <<running, worker_tasks, task_buffer, failed_tasks, results, idVars,
                   engineVars, userVars, pushed, called>>

\* Mutant: the request is not counted.
SubmitUncounted ==
    /\ wpc = "submit" /\ task_buffer # <<>>
    /\ ~is_fatal /\ Len(engine) - ready < MaxInQat
    /\ engine' = Append(engine, WithId(Head(task_buffer), req_id))
    /\ req_id' = req_id + 1
    /\ task_buffer' = Tail(task_buffer)
    /\ UNCHANGED <<running, worker_tasks, failed_tasks, results, expected_req_id,
                   inflight_num, ready, is_fatal, ha_enabled, wpc, userVars, pushed, called>>

SubmitAccepted ==
    /\ wpc = "submit" /\ task_buffer # <<>>
    /\ ~is_fatal /\ Len(engine) - ready < MaxInQat
    /\ engine' = Append(engine, WithId(Head(task_buffer), req_id))
    /\ req_id' = req_id + 1
    /\ inflight_num' = inflight_num + 1
    /\ task_buffer' = Tail(task_buffer)
    /\ UNCHANGED <<running, worker_tasks, failed_tasks, results, expected_req_id, ready,
                   is_fatal, ha_enabled, wpc, userVars, pushed, called>>

\* What an error may do to the engine: nothing; without HA it may become fatal;
\* with HA it may fall back to another device, which gives every request it
\* holds a result, and may fail to find one.
EngineError(rest, ready_now) ==
    \/ ready' = ready_now /\ UNCHANGED is_fatal
    \/ ~ha_enabled /\ ready' = ready_now /\ is_fatal' = TRUE
    \/ ha_enabled /\ ~is_fatal /\ ready' = Len(rest) /\ is_fatal' \in BOOLEAN

SubmitRejected ==
    /\ wpc = "submit" /\ task_buffer # <<>>
    /\ EngineError(engine, ready)
    /\ failed_tasks' = Append(failed_tasks, WithId(Head(task_buffer), req_id))
    /\ req_id' = req_id + 1
    /\ task_buffer' = Tail(task_buffer)
    /\ UNCHANGED <<running, worker_tasks, results, expected_req_id, inflight_num, engine,
                   ha_enabled, wpc, userVars, pushed, called>>

\* Poll of the engine: answered is how many requests have a result after it, by
\* callback or timeout.  A fatal engine hands out what it has buffered; without
\* HA an error makes the engine fatal only in a Poll that returns nothing.
Poll(answered) ==
    LET n == Min(answered, MaxSubmitNum)
        rest == SubSeq(engine, n + 1, Len(engine))
    IN  /\ wpc = "submit" /\ task_buffer = <<>>
        /\ IF is_fatal THEN answered = ready ELSE answered \in ready .. Len(engine)
        /\ results' = SubSeq(engine, 1, n)
        /\ engine' = rest
        /\ IF is_fatal \/ (~ha_enabled /\ n > 0)
           THEN ready' = answered - n /\ UNCHANGED is_fatal
           ELSE EngineError(rest, answered - n)
        /\ wpc' = IF n = 0 THEN "failed" ELSE "merge"
        /\ UNCHANGED <<running, worker_tasks, task_buffer, failed_tasks, idVars, ha_enabled,
                       userVars, pushed, called>>

\* Mutant: failed tasks are only looked at when the engine returned results.
FailedIsNextInMerge ==
    wpc = "merge" /\ failed_tasks # <<>> /\ Head(failed_tasks).id = expected_req_id

FailedIsNext == failed_tasks # <<>> /\ Head(failed_tasks).id = expected_req_id

\* TryProcessOneFailedTask succeeds
ProcessFailed ==
    /\ wpc \in {"failed", "merge"} /\ FailedIsNext
    /\ called' = Append(called, Head(failed_tasks).t)
    /\ failed_tasks' = Tail(failed_tasks)
    /\ expected_req_id' = expected_req_id + 1
    /\ UNCHANGED <<running, worker_tasks, task_buffer, results, req_id, inflight_num,
                   engineVars, wpc, userVars, pushed>>

AfterLoop == IF running THEN "idle" ELSE "uninit"

\* Mutant: failed requests are left for later although one is next.
MergeResultFirst ==
    /\ wpc = "merge"
    /\ called' = Append(called, Head(results).t)
    /\ expected_req_id' = IF Head(results).id = expected_req_id
                          THEN expected_req_id + 1 ELSE expected_req_id
    /\ inflight_num' = inflight_num - 1
    /\ results' = Tail(results)
    /\ wpc' = IF Len(results) = 1 THEN AfterLoop ELSE "merge"
    /\ UNCHANGED <<running, worker_tasks, task_buffer, failed_tasks, req_id, engineVars,
                   userVars, pushed>>

MergeResult ==
    /\ wpc = "merge" /\ ~FailedIsNext
    /\ called' = Append(called, Head(results).t)
    /\ expected_req_id' = IF Head(results).id = expected_req_id
                          THEN expected_req_id + 1 ELSE expected_req_id
    /\ inflight_num' = inflight_num - 1
    /\ results' = Tail(results)
    /\ wpc' = IF Len(results) = 1 THEN AfterLoop ELSE "merge"
    /\ UNCHANGED <<running, worker_tasks, task_buffer, failed_tasks, req_id, engineVars,
                   userVars, pushed>>

FailedEnds ==
    /\ wpc = "failed" /\ ~FailedIsNext
    /\ wpc' = AfterLoop
    /\ UNCHANGED <<running, worker_tasks, task_buffer, failed_tasks, results, idVars,
                   engineVars, userVars, pushed, called>>

(***************************************************************************)
(* Uninit, called by the poller when the last channel returns the worker    *)
(* and when the poller shuts down.                                          *)
(***************************************************************************)
Uninit ==
    /\ wpc = "idle"
    /\ running' = FALSE
    /\ wpc' = "uninit"
    /\ UNCHANGED <<worker_tasks, task_buffer, failed_tasks, results, idVars, engineVars,
                   userVars, pushed, called>>

\* Mutant: only the requests in the engine are waited for.
HasUnFinishedInflight == inflight_num > 0

HasUnFinishedReqs == inflight_num > 0 \/ failed_tasks # <<>> \/ worker_tasks # <<>>

UninitLoop ==
    /\ wpc = "uninit"
    /\ wpc' = IF HasUnFinishedReqs THEN "drain" ELSE "closed"
    /\ UNCHANGED <<running, worker_tasks, task_buffer, failed_tasks, results, idVars,
                   engineVars, userVars, pushed, called>>

Thread == \/ DrainOne \/ DrainEnds
          \/ SubmitAccepted \/ SubmitRejected
          \/ \E n \in 0 .. Len(engine) : Poll(n)
          \/ ProcessFailed \/ MergeResult \/ FailedEnds
          \/ UninitLoop

Next == \/ \E u \in Users : ScheduleCheck(u) \/ SchedulePush(u)
        \/ LoopOnce
        \/ Thread
        \/ Uninit

Spec == Init /\ [][Next]_vars

(***************************************************************************)
(* Fairness: the poller's thread runs and calls LoopOnce again and again    *)
(* until it is told to Uninit; an engine that is polled again and again     *)
(* answers, if only by timeout (EveryRequestAnswered of QatEngine).         *)
(***************************************************************************)
PollAnswers == \E n \in ready + 1 .. Len(engine) : Poll(n)

FairSpec == /\ Spec
            /\ WF_vars(Thread)
            /\ SF_vars(LoopOnce)
            /\ SF_vars(PollAnswers)

-----------------------------------------------------------------------------
Task == [u : Users, n : 1 .. MaxTask]
TaskId == [t : Task, id : Nat]

\* The types of the fields of QatPollerWorker.
TypeOK ==
    /\ running \in BOOLEAN /\ is_fatal \in BOOLEAN /\ ha_enabled \in BOOLEAN
    /\ worker_tasks \in Seq(Task) /\ task_buffer \in Seq(Task)
    /\ failed_tasks \in Seq(TaskId) /\ results \in Seq(TaskId) /\ engine \in Seq(TaskId)
    /\ req_id \in Nat /\ expected_req_id \in Nat /\ inflight_num \in Nat
    /\ ready \in Nat /\ ready <= Len(engine)
    /\ wpc \in {"idle", "drain", "submit", "failed", "merge", "uninit", "closed"}
    /\ upc \in [Users -> {"idle", "push"}]
    /\ scheduled \in [Users -> 0 .. MaxTask]
    /\ pushed \in Seq(Task) /\ called \in Seq(Task)

\* "callback 'user_cb' set in the option will be triggered in the same order as the
\* requests are submitted" (codec.h:183): callbacks run in the order of Push, each
\* once, however accepted and rejected submissions alternate; so
\* VESAL_DCHECK(matched) of PollingAndMerge never fails.
CallbacksInOrder ==
    /\ Len(called) <= Len(pushed)
    /\ \A i \in DOMAIN called : called[i] = pushed[i]
    /\ expected_req_id = Len(called) + 1

\* No task is lost in the worker, whose counter inflight_num_ is all that Uninit
\* looks at for the engine's part.
NoTaskLost ==
    /\ Len(pushed) = Len(called) + Len(worker_tasks) + Len(task_buffer)
                      + Len(failed_tasks) + Len(results) + Len(engine)
    /\ inflight_num = Len(engine) + Len(results)

\* The fields of the worker keep their types and account for every pushed task.
TasksAccounted == TypeOK /\ NoTaskLost

\* "Uninit() ensures all inflight requests are finished" (qat_poller.cc:211): the engine
\* is closed only when it and the failed tasks are empty.
UninitFinishesInflight ==
    wpc = "closed" => /\ engine = <<>> /\ results = <<>>
                      /\ failed_tasks = <<>> /\ task_buffer = <<>>

Increasing(s) == \A i, j \in DOMAIN s : i < j => s[i].id < s[j].id
Ids(s) == {s[i].id : i \in DOMAIN s}

\* req_id_ counts the tasks taken from task_buffer_: the tasks before it, in
\* task_buffer_ and in worker_tasks_ are those pushed, in this order.
TasksInOrder ==
    /\ req_id > 0 /\ Len(pushed) = req_id - 1 + Len(task_buffer) + Len(worker_tasks)
    /\ \A k \in DOMAIN task_buffer : task_buffer[k] = pushed[req_id - 1 + k]
    /\ \A k \in DOMAIN worker_tasks : worker_tasks[k] = pushed[req_id - 1 + Len(task_buffer) + k]

\* The tasks of s wait for their callback under the numbers they were pushed with.
Numbered(s) ==
    /\ Increasing(s)
    /\ \A i \in DOMAIN s : s[i].id \in expected_req_id .. req_id - 1 /\ s[i].t = pushed[s[i].id]

\* Each number from expected_req_id_ on is that of a result, of a request in the engine, or
\* of a failed task, of one only; and the results come before what is in the engine.
NumbersPlaced ==
    /\ Numbered(results) /\ Numbered(engine) /\ Numbered(failed_tasks)
    /\ \A i \in DOMAIN results, j \in DOMAIN engine : results[i].id < engine[j].id
    /\ Ids(failed_tasks) \cap (Ids(results) \cup Ids(engine)) = {}
    /\ expected_req_id .. req_id - 1 \subseteq Ids(results) \cup Ids(engine) \cup Ids(failed_tasks)
    /\ Len(results) + Len(engine) + Len(failed_tasks) = req_id - expected_req_id

\* Where the threads are says what they have done.
PhasesFit ==
    /\ wpc = "merge" <=> results # <<>>
    /\ wpc \in {"idle", "failed", "merge", "uninit", "closed"} => task_buffer = <<>>
    /\ wpc = "closed" => engine = <<>> /\ failed_tasks = <<>>
    /\ \A u \in Users : upc[u] = "push" => scheduled[u] > 0

\* What makes the properties above inductive.
WorkerInvariant ==
    /\ TypeOK /\ TasksInOrder /\ NumbersPlaced /\ PhasesFit
    /\ CallbacksInOrder /\ inflight_num = Len(engine) + Len(results)

\* What the worker promises of its tasks: none is lost, callbacks come in order, and
\* Uninit leaves nothing in flight.
WorkerSafe == WorkerInvariant /\ TasksAccounted /\ CallbacksInOrder /\ UninitFinishesInflight

\* With HA the worker catches up: what is pushed is called back, even if the engine
\* becomes fatal, unless the worker is closed.
EveryTaskCalled == ha_enabled ~> Len(called) = Len(pushed) \/ wpc = "closed"

\* With HA, Uninit ends: an engine that becomes fatal has answered what it held.
UninitEndsWithHa == ha_enabled /\ wpc = "uninit" ~> wpc = "closed"

\* qat_poller_manager.cc:41: "The real workers inside the pollers ensure that the
\* close(cleaning QAT) is not blocked."  The code does not do this without HA.
UninitEnds == wpc = "uninit" ~> wpc = "closed"
=============================================================================
