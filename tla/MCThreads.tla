----------------------------- MODULE MCThreads -----------------------------
(***************************************************************************)
(* The threads of the library side by side: a poller's worker, the          *)
(* scheduler, and the pollers of shared mode with their manager.  A         *)
(* behaviour is one of the three; part says which, and the variables of the *)
(* others rest.                                                             *)
(*                                                                          *)
(* First what is proved of the poller's worker alone, for any number of     *)
(* users and tasks, any size of batches and of the engine: callbacks come   *)
(* once and in the order of Push, however accepted and rejected submissions *)
(* alternate.  The theorems about the threads side by side, at the end,     *)
(* rest on it and on SharedModeProofs; the scheduler's are in               *)
(* ConcurrencyProofs.                                                       *)
(***************************************************************************)
EXTENDS PollerWorker, SequenceTheorems, TLAPS

USE SizeAssumption, BoundAssumption

LEMMA AppendIs ==
    ASSUME NEW S, NEW s \in Seq(S), NEW e \in S
    PROVE  /\ Append(s, e) \in Seq(S) /\ Len(Append(s, e)) = Len(s) + 1
           /\ DOMAIN s = 1 .. Len(s) /\ DOMAIN Append(s, e) = 1 .. Len(s) + 1 /\ Len(s) \in Nat
           /\ \A i \in 1 .. Len(s) : Append(s, e)[i] = s[i]
           /\ Append(s, e)[Len(s) + 1] = e
  OBVIOUS

LEMMA TailIs ==
    ASSUME NEW S, NEW s \in Seq(S), s # <<>>
    PROVE  /\ Tail(s) \in Seq(S) /\ Len(Tail(s)) = Len(s) - 1
           /\ DOMAIN s = 1 .. Len(s) /\ DOMAIN Tail(s) = 1 .. Len(s) - 1 /\ Len(s) \in Nat \ {0}
           /\ Head(s) = s[1] /\ Head(s) \in S
           /\ \A i \in 1 .. Len(s) - 1 : Tail(s)[i] = s[i + 1]
  OBVIOUS

LEMMA InitEstablishes == Init => WorkerInvariant
<1> SUFFICES ASSUME Init PROVE WorkerInvariant
  OBVIOUS
<1> USE DEF Init
<1>1. TypeOK
  <2>1. /\ <<>> \in Seq(Task) /\ <<>> \in Seq(TaskId) /\ Len(engine) = 0
    OBVIOUS
  <2>2. scheduled \in [Users -> 0 .. MaxTask] /\ upc \in [Users -> {"idle", "push"}]
    OBVIOUS
  <2>3. running \in BOOLEAN /\ is_fatal \in BOOLEAN /\ ha_enabled \in BOOLEAN
    BY Zenon
  <2>4. ready \in Nat /\ ready <= Len(engine) /\ req_id \in Nat /\ expected_req_id \in Nat
    BY <2>1
  <2>5. /\ wpc \in {"idle", "drain", "submit", "failed", "merge", "uninit", "closed"}
        /\ inflight_num \in Nat
    OBVIOUS
  <2>6. /\ worker_tasks \in Seq(Task) /\ task_buffer \in Seq(Task) /\ pushed \in Seq(Task)
        /\ called \in Seq(Task) /\ failed_tasks \in Seq(TaskId) /\ results \in Seq(TaskId)
        /\ engine \in Seq(TaskId)
    BY <2>1
  <2> QED BY <2>2, <2>3, <2>4, <2>5, <2>6 DEF TypeOK
<1>2. TasksInOrder
  BY DEF TasksInOrder
<1>3. NumbersPlaced
  BY DEF NumbersPlaced, Numbered, Increasing, Ids
<1>4. PhasesFit /\ CallbacksInOrder
  BY DEF PhasesFit, CallbacksInOrder
<1> QED BY <1>1, <1>2, <1>3, <1>4 DEF WorkerInvariant

LEMMA PlacesKept ==
    ASSUME NumbersPlaced,
           UNCHANGED <<results, engine, failed_tasks, expected_req_id, req_id, pushed>>
    PROVE  NumbersPlaced'
<1>1. Numbered(results)' /\ Numbered(engine)' /\ Numbered(failed_tasks)'
  <2>1. Numbered(results)'
    BY DEF NumbersPlaced, Numbered, Increasing
  <2>2. Numbered(engine)'
    BY DEF NumbersPlaced, Numbered, Increasing
  <2>3. Numbered(failed_tasks)'
    BY DEF NumbersPlaced, Numbered, Increasing
  <2> QED BY <2>1, <2>2, <2>3
<1>2. /\ Ids(results)' = Ids(results) /\ Ids(engine)' = Ids(engine)
      /\ Ids(failed_tasks)' = Ids(failed_tasks)
  BY DEF Ids
<1> QED BY <1>1, <1>2 DEF NumbersPlaced

(***************************************************************************)
(* Schedule                                                                 *)
(***************************************************************************)
LEMMA ScheduleCheckStep ==
    ASSUME WorkerInvariant, NEW u \in Users, ScheduleCheck(u)
    PROVE  WorkerInvariant'
<1>1. /\ scheduled[u] < MaxTask /\ scheduled' = [scheduled EXCEPT ![u] = @ + 1]
      /\ upc' = [upc EXCEPT ![u] = IF running THEN "push" ELSE "idle"]
      /\ UNCHANGED <<running, worker_tasks, task_buffer, failed_tasks, results, req_id,
                     expected_req_id, inflight_num, engine, ready, is_fatal, ha_enabled,
                     wpc, pushed, called>>
  BY DEF ScheduleCheck, idVars, engineVars
<1>2. /\ upc' \in [Users -> {"idle", "push"}] /\ scheduled' \in [Users -> 0 .. MaxTask]
      /\ \A v \in Users : upc'[v] = "push" => scheduled'[v] > 0
  <2>1. /\ scheduled \in [Users -> 0 .. MaxTask] /\ upc \in [Users -> {"idle", "push"}]
        /\ \A v \in Users : upc[v] = "push" => scheduled[v] > 0
    BY SMTT(30) DEF WorkerInvariant, TypeOK, PhasesFit
  <2>2. scheduled' \in [Users -> 0 .. MaxTask] /\ upc' \in [Users -> {"idle", "push"}]
    BY <1>1, <2>1
  <2>3. ASSUME NEW v \in Users, upc'[v] = "push" PROVE scheduled'[v] > 0
    BY <1>1, <2>1, <2>3
  <2> QED BY <2>2, <2>3
<1>3. TypeOK'
  BY <1>1, <1>2, SMTT(30) DEF WorkerInvariant, TypeOK
<1>4. TasksInOrder' /\ CallbacksInOrder'
  BY <1>1 DEF WorkerInvariant, TasksInOrder, CallbacksInOrder
<1>5. NumbersPlaced'
  BY <1>1, PlacesKept DEF WorkerInvariant
<1>6. PhasesFit'
  BY <1>1, <1>2 DEF WorkerInvariant, PhasesFit
<1> QED BY <1>1, <1>3, <1>4, <1>5, <1>6 DEF WorkerInvariant

LEMMA SchedulePushStep ==
    ASSUME WorkerInvariant, NEW u \in Users, SchedulePush(u)
    PROVE  WorkerInvariant'
<1> DEFINE t == [u |-> u, n |-> scheduled[u]]
<1>1. /\ upc[u] = "push" /\ worker_tasks' = Append(worker_tasks, t) /\ pushed' = Append(pushed, t)
      /\ upc' = [upc EXCEPT ![u] = "idle"]
      /\ UNCHANGED <<running, task_buffer, failed_tasks, results, req_id,
                     expected_req_id, inflight_num, engine, ready, is_fatal, ha_enabled,
                     wpc, scheduled, called>>
  BY DEF SchedulePush, idVars, engineVars
<1>2. t \in Task
  BY <1>1, SMTT(30) DEF WorkerInvariant, TypeOK, PhasesFit, Task
<1> HIDE DEF t
<1>3. /\ pushed \in Seq(Task) /\ worker_tasks \in Seq(Task) /\ task_buffer \in Seq(Task)
      /\ called \in Seq(Task) /\ req_id \in Nat /\ expected_req_id \in Nat
  BY DEF WorkerInvariant, TypeOK
<1>4. /\ pushed' \in Seq(Task) /\ Len(pushed') = Len(pushed) + 1 /\ Len(pushed) \in Nat
      /\ \A i \in 1 .. Len(pushed) : pushed'[i] = pushed[i]
      /\ pushed'[Len(pushed) + 1] = t
  BY <1>1, <1>2, <1>3, AppendIs
<1>5. /\ worker_tasks' \in Seq(Task) /\ Len(worker_tasks') = Len(worker_tasks) + 1
      /\ Len(worker_tasks) \in Nat /\ DOMAIN worker_tasks = 1 .. Len(worker_tasks)
      /\ DOMAIN worker_tasks' = 1 .. Len(worker_tasks) + 1
      /\ \A i \in 1 .. Len(worker_tasks) : worker_tasks'[i] = worker_tasks[i]
      /\ worker_tasks'[Len(worker_tasks) + 1] = t
  BY <1>1, <1>2, <1>3, AppendIs
<1>6. DOMAIN task_buffer = 1 .. Len(task_buffer) /\ Len(task_buffer) \in Nat
  BY <1>3
<1>7. /\ req_id > 0 /\ Len(pushed) = req_id - 1 + Len(task_buffer) + Len(worker_tasks)
      /\ \A k \in DOMAIN task_buffer : task_buffer[k] = pushed[req_id - 1 + k]
      /\ \A k \in DOMAIN worker_tasks : worker_tasks[k] = pushed[req_id - 1 + Len(task_buffer) + k]
  BY DEF WorkerInvariant, TasksInOrder
<1>8. TypeOK'
  BY <1>1, <1>4, <1>5, SMTT(30) DEF WorkerInvariant, TypeOK
<1>9. TasksInOrder'
  <2>1. Len(pushed') = req_id - 1 + Len(task_buffer) + Len(worker_tasks')
    BY <1>3, <1>4, <1>5, <1>6, <1>7
  <2>2. ASSUME NEW k \in DOMAIN task_buffer PROVE task_buffer[k] = pushed'[req_id - 1 + k]
    <3>1. req_id - 1 + k \in 1 .. Len(pushed)
      BY <1>3, <1>5, <1>6, <1>7
    <3> QED BY <1>4, <1>7, <3>1
  <2>3. ASSUME NEW k \in DOMAIN worker_tasks'
        PROVE  worker_tasks'[k] = pushed'[req_id - 1 + Len(task_buffer) + k]
    <3>1. CASE k \in 1 .. Len(worker_tasks)
      <4>1. req_id - 1 + Len(task_buffer) + k \in 1 .. Len(pushed)
        BY <1>3, <1>5, <1>6, <1>7, <3>1
      <4> QED BY <1>4, <1>5, <1>7, <3>1, <4>1
    <3>2. CASE k = Len(worker_tasks) + 1
      <4>1. req_id - 1 + Len(task_buffer) + k = Len(pushed) + 1
        BY <1>3, <1>5, <1>6, <1>7, <3>2
      <4> QED BY <1>4, <1>5, <3>2, <4>1
    <3> QED BY <1>5, <3>1, <3>2
  <2> QED BY Zenon, <1>1, <1>7, <2>1, <2>2, <2>3 DEF TasksInOrder
<1>10. CallbacksInOrder'
  BY <1>1, <1>3, <1>4 DEF WorkerInvariant, CallbacksInOrder
<1>11. NumbersPlaced'
  <2>1. ASSUME NEW n \in expected_req_id .. req_id - 1 PROVE pushed'[n] = pushed[n]
    <3>1. expected_req_id > 0
      BY <1>3 DEF WorkerInvariant, CallbacksInOrder
    <3>2. n \in 1 .. Len(pushed)
      BY <1>3, <1>5, <1>6, <1>7, <3>1
    <3> QED BY <1>4, <3>2
  <2>2. ASSUME NEW s, Numbered(s)
        PROVE  /\ Increasing(s)
               /\ \A i \in DOMAIN s : s[i].id \in expected_req_id .. req_id - 1 /\ s[i].t = pushed'[s[i].id]
    BY <2>1, <2>2 DEF Numbered
  <2>3. Numbered(results)' /\ Numbered(engine)' /\ Numbered(failed_tasks)'
    <3>1. Numbered(results) /\ Numbered(engine) /\ Numbered(failed_tasks)
      BY DEF WorkerInvariant, NumbersPlaced
    <3>2. Numbered(results)'
      BY ZenonT(40), <1>1, <2>2, <3>1 DEF Numbered, Increasing
    <3>3. Numbered(engine)'
      BY ZenonT(40), <1>1, <2>2, <3>1 DEF Numbered, Increasing
    <3>4. Numbered(failed_tasks)'
      BY ZenonT(40), <1>1, <2>2, <3>1 DEF Numbered, Increasing
    <3> QED BY <3>2, <3>3, <3>4
  <2>4. /\ Ids(results)' = Ids(results) /\ Ids(engine)' = Ids(engine)
        /\ Ids(failed_tasks)' = Ids(failed_tasks)
    BY <1>1 DEF Ids
  <2> QED BY <1>1, <2>3, <2>4 DEF WorkerInvariant, NumbersPlaced
<1>12. PhasesFit'
  BY <1>1 DEF WorkerInvariant, PhasesFit, TypeOK
<1> QED BY <1>1, <1>8, <1>9, <1>10, <1>11, <1>12 DEF WorkerInvariant

(***************************************************************************)
(* Steps that only move the poller's thread                                 *)
(***************************************************************************)
LEMMA ThreadMoves ==
    ASSUME WorkerInvariant, LoopOnce \/ DrainEnds \/ FailedEnds \/ Uninit \/ UninitLoop
    PROVE  WorkerInvariant'
<1>1. UNCHANGED <<worker_tasks, task_buffer, failed_tasks, results, req_id,
                  expected_req_id, inflight_num, engine, ready, is_fatal, ha_enabled,
                  upc, scheduled, pushed, called>>
  BY DEF LoopOnce, DrainEnds, FailedEnds, Uninit, UninitLoop, idVars, engineVars, userVars
<1>2. /\ running' \in BOOLEAN
      /\ wpc' \in {"idle", "drain", "submit", "failed", "merge", "uninit", "closed"}
  BY Zenon DEF LoopOnce, DrainEnds, FailedEnds, Uninit, UninitLoop, AfterLoop, WorkerInvariant, TypeOK
<1>3. TypeOK'
  BY <1>1, <1>2 DEF WorkerInvariant, TypeOK
<1>4. TasksInOrder' /\ CallbacksInOrder'
  BY <1>1 DEF WorkerInvariant, TasksInOrder, CallbacksInOrder
<1>5. NumbersPlaced'
  BY <1>1, PlacesKept DEF WorkerInvariant
<1>6. PhasesFit'
  <2>1. CASE LoopOnce \/ DrainEnds \/ FailedEnds \/ Uninit
    BY <1>1, <2>1 DEF WorkerInvariant, PhasesFit, LoopOnce, DrainEnds, FailedEnds, Uninit, AfterLoop
  <2>2. CASE UninitLoop
    <3>1. /\ engine \in Seq(TaskId) /\ results \in Seq(TaskId) /\ inflight_num \in Nat
          /\ inflight_num = Len(engine) + Len(results)
      BY DEF WorkerInvariant, TypeOK
    <3>2. ~HasUnFinishedReqs => engine = <<>> /\ failed_tasks = <<>>
      BY <3>1 DEF HasUnFinishedReqs
    <3> QED BY <1>1, <2>2, <3>2 DEF WorkerInvariant, PhasesFit, UninitLoop
  <2> QED BY <2>1, <2>2
<1> QED BY <1>1, <1>3, <1>4, <1>5, <1>6 DEF WorkerInvariant

LEMMA DrainOneStep ==
    ASSUME WorkerInvariant, DrainOne
    PROVE  WorkerInvariant'
<1>1. /\ wpc = "drain" /\ worker_tasks # <<>>
      /\ task_buffer' = Append(task_buffer, Head(worker_tasks)) /\ worker_tasks' = Tail(worker_tasks)
      /\ UNCHANGED <<running, failed_tasks, results, req_id, expected_req_id, inflight_num,
                     engine, ready, is_fatal, ha_enabled, wpc, upc, scheduled, pushed, called>>
  BY DEF DrainOne, idVars, engineVars, userVars
<1>2. worker_tasks \in Seq(Task) /\ task_buffer \in Seq(Task) /\ req_id \in Nat
  BY DEF WorkerInvariant, TypeOK
<1>3. /\ worker_tasks' \in Seq(Task) /\ Len(worker_tasks') = Len(worker_tasks) - 1
      /\ DOMAIN worker_tasks = 1 .. Len(worker_tasks) /\ DOMAIN worker_tasks' = 1 .. Len(worker_tasks) - 1
      /\ Len(worker_tasks) \in Nat \ {0} /\ Head(worker_tasks) = worker_tasks[1]
      /\ Head(worker_tasks) \in Task
      /\ \A i \in 1 .. Len(worker_tasks) - 1 : worker_tasks'[i] = worker_tasks[i + 1]
  BY <1>1, <1>2, TailIs
<1>4. /\ task_buffer' \in Seq(Task) /\ Len(task_buffer') = Len(task_buffer) + 1
      /\ Len(task_buffer) \in Nat /\ DOMAIN task_buffer = 1 .. Len(task_buffer)
      /\ DOMAIN task_buffer' = 1 .. Len(task_buffer) + 1
      /\ \A i \in 1 .. Len(task_buffer) : task_buffer'[i] = task_buffer[i]
      /\ task_buffer'[Len(task_buffer) + 1] = worker_tasks[1]
  BY <1>1, <1>2, <1>3, AppendIs
<1>5. /\ req_id > 0 /\ Len(pushed) = req_id - 1 + Len(task_buffer) + Len(worker_tasks)
      /\ \A k \in DOMAIN task_buffer : task_buffer[k] = pushed[req_id - 1 + k]
      /\ \A k \in DOMAIN worker_tasks : worker_tasks[k] = pushed[req_id - 1 + Len(task_buffer) + k]
  BY DEF WorkerInvariant, TasksInOrder
<1>6. TypeOK'
  BY <1>1, <1>3, <1>4, SMTT(30) DEF WorkerInvariant, TypeOK
<1>7. TasksInOrder'
  <2>1. Len(pushed) = req_id - 1 + Len(task_buffer') + Len(worker_tasks')
    BY <1>2, <1>3, <1>4, <1>5
  <2>2. ASSUME NEW k \in DOMAIN task_buffer' PROVE task_buffer'[k] = pushed[req_id - 1 + k]
    <3>1. CASE k \in 1 .. Len(task_buffer)
      BY <1>4, <1>5, <3>1
    <3>2. CASE k = Len(task_buffer) + 1
      <4>1. 1 \in DOMAIN worker_tasks /\ req_id - 1 + Len(task_buffer) + 1 = req_id - 1 + k
        BY <1>2, <1>3, <1>4, <3>2
      <4> QED BY <1>4, <1>5, <3>2, <4>1
    <3> QED BY <1>4, <3>1, <3>2
  <2>3. ASSUME NEW k \in DOMAIN worker_tasks'
        PROVE  worker_tasks'[k] = pushed[req_id - 1 + Len(task_buffer') + k]
    <3>1. k + 1 \in DOMAIN worker_tasks /\ worker_tasks'[k] = worker_tasks[k + 1]
      BY <1>3
    <3>2. req_id - 1 + Len(task_buffer) + (k + 1) = req_id - 1 + Len(task_buffer') + k
      BY <1>2, <1>3, <1>4
    <3> QED BY <1>5, <3>1, <3>2
  <2> QED BY <1>1, <1>5, <2>1, <2>2, <2>3 DEF TasksInOrder
<1>8. CallbacksInOrder'
  BY <1>1 DEF WorkerInvariant, CallbacksInOrder
<1>9. NumbersPlaced'
  BY <1>1, PlacesKept DEF WorkerInvariant
<1>10. PhasesFit'
  BY <1>1 DEF WorkerInvariant, PhasesFit
<1> QED BY <1>1, <1>6, <1>7, <1>8, <1>9, <1>10 DEF WorkerInvariant

(***************************************************************************)
(* The numbers of the tasks between submission and callback, as a statement *)
(* about any three sequences                                                *)
(***************************************************************************)
Num(s, lo, hi, p) ==
    /\ Increasing(s)
    /\ \A i \in DOMAIN s : s[i].id \in lo .. hi - 1 /\ s[i].t = p[s[i].id]

Placed(r, e, f, lo, hi, p) ==
    /\ Num(r, lo, hi, p) /\ Num(e, lo, hi, p) /\ Num(f, lo, hi, p)
    /\ \A i \in DOMAIN r, j \in DOMAIN e : r[i].id < e[j].id
    /\ Ids(f) \cap (Ids(r) \cup Ids(e)) = {}
    /\ lo .. hi - 1 \subseteq Ids(r) \cup Ids(e) \cup Ids(f)
    /\ Len(r) + Len(e) + Len(f) = hi - lo

LEMMA PlacedIs ==
    NumbersPlaced <=> Placed(results, engine, failed_tasks, expected_req_id, req_id, pushed)
  BY DEF NumbersPlaced, Placed, Numbered, Num

\* x carries the number that comes after those of s.
NextFor(s, lo, hi, p, x) ==
    /\ s \in Seq(TaskId) /\ lo \in Nat /\ hi \in Nat /\ lo <= hi /\ Num(s, lo, hi, p)
    /\ x \in TaskId /\ x.id = hi /\ x.t = p[hi]

LEMMA NumAppend ==
    ASSUME NEW s, NEW lo, NEW hi, NEW p, NEW x, NextFor(s, lo, hi, p, x)
    PROVE  Num(Append(s, x), lo, hi + 1, p) /\ Ids(Append(s, x)) = Ids(s) \cup {hi}
<1> USE DEF NextFor
<1> DEFINE a == Append(s, x)
<1>1. /\ Len(s) \in Nat /\ DOMAIN s = 1 .. Len(s) /\ DOMAIN a = 1 .. Len(s) + 1
      /\ \A i \in 1 .. Len(s) : a[i] = s[i]
      /\ a[Len(s) + 1] = x
  BY AppendIs
<1>2. \A i \in DOMAIN s : s[i].id \in lo .. hi - 1 /\ s[i].t = p[s[i].id]
  BY DEF Num
<1> HIDE DEF a
<1>3. Increasing(a)
  <2> SUFFICES ASSUME NEW i \in DOMAIN a, NEW j \in DOMAIN a, i < j PROVE a[i].id < a[j].id
    BY DEF Increasing
  <2>1. i \in 1 .. Len(s) /\ a[i].id = s[i].id
    BY <1>1
  <2>2. CASE j = Len(s) + 1
    BY <1>1, <1>2, <2>1, <2>2
  <2>3. CASE j \in 1 .. Len(s)
    BY <1>1, <2>1, <2>3 DEF Num, Increasing
  <2> QED BY <1>1, <2>2, <2>3
<1>4. ASSUME NEW i \in DOMAIN a PROVE a[i].id \in lo .. hi /\ a[i].t = p[a[i].id]
  <2>1. CASE i = Len(s) + 1
    BY <1>1, <2>1
  <2>2. CASE i \in 1 .. Len(s)
    BY <1>1, <1>2, <2>2
  <2> QED BY <1>1, <2>1, <2>2
<1>5. Num(a, lo, hi + 1, p)
  BY <1>3, <1>4 DEF Num
<1>6. ASSUME NEW n PROVE n \in Ids(a) <=> n \in Ids(s) \cup {hi}
  <2>1. n \in Ids(a) <=> \E i \in 1 .. Len(s) + 1 : a[i].id = n
    BY <1>1 DEF Ids
  <2>2. n \in Ids(s) <=> \E i \in 1 .. Len(s) : s[i].id = n
    BY <1>1 DEF Ids
  <2> QED BY <1>1, <2>1, <2>2
<1>7. Ids(a) = Ids(s) \cup {hi}
  BY <1>6
<1> QED BY <1>5, <1>7 DEF a

LEMMA NumWider ==
    ASSUME NEW s, NEW lo \in Nat, NEW hi \in Nat, NEW p, Num(s, lo, hi, p)
    PROVE  Num(s, lo, hi + 1, p) /\ hi \notin Ids(s)
  BY DEF Num, Ids

LEMMA NumAbove ==
    ASSUME NEW s, NEW lo \in Nat, NEW hi \in Nat, NEW p, Num(s, lo, hi, p), lo \notin Ids(s)
    PROVE  Num(s, lo + 1, hi, p)
<1>1. ASSUME NEW i \in DOMAIN s PROVE s[i].id \in lo + 1 .. hi - 1
  <2>1. s[i].id \in lo .. hi - 1 /\ s[i].id # lo
    BY DEF Num, Ids
  <2> QED BY <2>1
<1> QED BY <1>1 DEF Num

LEMMA NumTail ==
    ASSUME NEW s \in Seq(TaskId), s # <<>>, NEW lo \in Nat, NEW hi \in Nat, NEW p,
           Num(s, lo, hi, p), Head(s).id = lo
    PROVE  Num(Tail(s), lo + 1, hi, p) /\ Ids(Tail(s)) = Ids(s) \ {lo}
<1> DEFINE a == Tail(s)
<1>1. /\ Len(s) \in Nat \ {0} /\ DOMAIN s = 1 .. Len(s) /\ DOMAIN a = 1 .. Len(s) - 1
      /\ \A i \in 1 .. Len(s) - 1 : a[i] = s[i + 1]
      /\ Head(s) = s[1]
  BY TailIs
<1> HIDE DEF a
<1>2. \A i \in DOMAIN s : s[i].id \in lo .. hi - 1 /\ s[i].t = p[s[i].id]
  BY DEF Num
<1>3. ASSUME NEW i \in 2 .. Len(s) PROVE s[i].id > lo
  <2>1. 1 \in DOMAIN s /\ i \in DOMAIN s /\ 1 < i
    BY <1>1
  <2>2. s[1].id < s[i].id
    BY <2>1 DEF Num, Increasing
  <2> QED BY <1>1, <1>2, <2>1, <2>2
<1>4. Increasing(a)
  <2> SUFFICES ASSUME NEW i \in DOMAIN a, NEW j \in DOMAIN a, i < j PROVE a[i].id < a[j].id
    BY DEF Increasing
  <2>1. i + 1 \in DOMAIN s /\ j + 1 \in DOMAIN s /\ i + 1 < j + 1 /\ a[i] = s[i + 1] /\ a[j] = s[j + 1]
    BY <1>1
  <2> QED BY <2>1 DEF Num, Increasing
<1>5. ASSUME NEW i \in DOMAIN a PROVE a[i].id \in lo + 1 .. hi - 1 /\ a[i].t = p[a[i].id]
  <2>1. i + 1 \in DOMAIN s /\ i + 1 \in 2 .. Len(s) /\ a[i] = s[i + 1]
    BY <1>1
  <2>2. s[i + 1].id \in lo .. hi - 1 /\ s[i + 1].id > lo
    BY <1>2, <1>3, <2>1
  <2> QED BY <1>2, <2>1, <2>2
<1>6. Num(a, lo + 1, hi, p)
  BY <1>4, <1>5 DEF Num
<1>7. ASSUME NEW n PROVE n \in Ids(a) <=> n \in Ids(s) \ {lo}
  <2>1. n \in Ids(a) <=> \E i \in 1 .. Len(s) - 1 : a[i].id = n
    BY <1>1, SMTT(30) DEF Ids
  <2>2. n \in Ids(s) <=> \E i \in 1 .. Len(s) : s[i].id = n
    BY <1>1 DEF Ids
  <2>3. ASSUME n \in Ids(a) PROVE n \in Ids(s) \ {lo}
    <3>1. PICK i \in 1 .. Len(s) - 1 : a[i].id = n
      BY <2>1, <2>3
    <3>2. i + 1 \in 2 .. Len(s) /\ i + 1 \in 1 .. Len(s) /\ s[i + 1].id = n
      BY <1>1, <3>1
    <3>3. n > lo
      BY <1>3, <3>2
    <3> QED BY <2>2, <3>2, <3>3
  <2>4. ASSUME n \in Ids(s), n # lo PROVE n \in Ids(a)
    <3>1. PICK i \in 1 .. Len(s) : s[i].id = n
      BY <2>2, <2>4
    <3>2. i # 1
      BY <1>1, <2>4, <3>1
    <3>3. i - 1 \in 1 .. Len(s) - 1 /\ a[i - 1] = s[(i - 1) + 1] /\ (i - 1) + 1 = i
      BY <1>1, <3>1, <3>2
    <3> QED BY <2>1, <3>1, <3>3
  <2> QED BY <2>3, <2>4
<1>8. Ids(a) = Ids(s) \ {lo}
  BY <1>7
<1> QED BY <1>6, <1>8 DEF a

\* A rejected submission takes the next number.
LEMMA PlacedRejected ==
    ASSUME NEW r \in Seq(TaskId), NEW e \in Seq(TaskId), NEW f \in Seq(TaskId),
           NEW lo \in Nat, NEW hi \in Nat, NEW p, Placed(r, e, f, lo, hi, p),
           NEW x \in TaskId, x.id = hi, x.t = p[hi]
    PROVE  Placed(r, e, Append(f, x), lo, hi + 1, p)
<1>1. Len(r) \in Nat /\ Len(e) \in Nat /\ Len(f) \in Nat /\ lo <= hi
  BY DEF Placed
<1>2. Num(Append(f, x), lo, hi + 1, p) /\ Ids(Append(f, x)) = Ids(f) \cup {hi}
  <2>1. NextFor(f, lo, hi, p, x)
    BY <1>1 DEF Placed, NextFor
  <2> QED BY <2>1, NumAppend
<1>3. Num(r, lo, hi + 1, p) /\ hi \notin Ids(r) /\ Num(e, lo, hi + 1, p) /\ hi \notin Ids(e)
  BY NumWider DEF Placed
<1>4. Len(r) + Len(e) + Len(Append(f, x)) = hi + 1 - lo
  <2>1. Len(Append(f, x)) = Len(f) + 1
    BY AppendIs
  <2>2. Len(r) + Len(e) + Len(f) = hi - lo
    BY DEF Placed
  <2> QED BY <1>1, <2>1, <2>2, SMTT(30)
<1>5. Ids(Append(f, x)) \cap (Ids(r) \cup Ids(e)) = {}
  BY <1>2, <1>3 DEF Placed
<1>6. lo .. hi \subseteq Ids(r) \cup Ids(e) \cup Ids(Append(f, x))
  <2>1. \A n \in lo .. hi : n \in lo .. hi - 1 \/ n = hi
    OBVIOUS
  <2>2. lo .. hi - 1 \subseteq Ids(r) \cup Ids(e) \cup Ids(f)
    BY DEF Placed
  <2> QED BY <1>2, <2>1, <2>2
<1>7. lo .. (hi + 1) - 1 = lo .. hi
  OBVIOUS
<1> QED BY <1>2, <1>3, <1>4, <1>5, <1>6, <1>7 DEF Placed

\* So does an accepted one, behind all others.
LEMMA PlacedAccepted ==
    ASSUME NEW r \in Seq(TaskId), NEW e \in Seq(TaskId), NEW f \in Seq(TaskId),
           NEW lo \in Nat, NEW hi \in Nat, NEW p, Placed(r, e, f, lo, hi, p),
           NEW x \in TaskId, x.id = hi, x.t = p[hi]
    PROVE  Placed(r, Append(e, x), f, lo, hi + 1, p)
<1>1. Len(r) \in Nat /\ Len(e) \in Nat /\ Len(f) \in Nat /\ lo <= hi
  BY DEF Placed
<1>2. Num(Append(e, x), lo, hi + 1, p) /\ Ids(Append(e, x)) = Ids(e) \cup {hi}
  <2>1. NextFor(e, lo, hi, p, x)
    BY <1>1 DEF Placed, NextFor
  <2> QED BY <2>1, NumAppend
<1>3. Num(r, lo, hi + 1, p) /\ Num(f, lo, hi + 1, p) /\ hi \notin Ids(f)
  BY Zenon, NumWider DEF Placed
<1>4. Len(r) + Len(Append(e, x)) + Len(f) = hi + 1 - lo
  <2>1. Len(Append(e, x)) = Len(e) + 1
    BY AppendIs
  <2>2. Len(r) + Len(e) + Len(f) = hi - lo
    BY DEF Placed
  <2> QED BY <1>1, <2>1, <2>2, SMTT(30)
<1>5. Ids(f) \cap (Ids(r) \cup Ids(Append(e, x))) = {}
  BY <1>2, <1>3 DEF Placed
<1>6. lo .. hi \subseteq Ids(r) \cup Ids(Append(e, x)) \cup Ids(f)
  <2>1. \A n \in lo .. hi : n \in lo .. hi - 1 \/ n = hi
    OBVIOUS
  <2>2. lo .. hi - 1 \subseteq Ids(r) \cup Ids(e) \cup Ids(f)
    BY DEF Placed
  <2> QED BY <1>2, <2>1, <2>2
<1>7. lo .. (hi + 1) - 1 = lo .. hi
  OBVIOUS
<1>8. ASSUME NEW i \in DOMAIN r, NEW j \in DOMAIN Append(e, x)
      PROVE  r[i].id < Append(e, x)[j].id
  <2>1. /\ DOMAIN e = 1 .. Len(e) /\ DOMAIN Append(e, x) = 1 .. Len(e) + 1
        /\ \A k \in 1 .. Len(e) : Append(e, x)[k] = e[k]
        /\ Append(e, x)[Len(e) + 1] = x
    BY AppendIs
  <2>2. CASE j \in 1 .. Len(e)
    BY <2>1, <2>2 DEF Placed
  <2>3. CASE j = Len(e) + 1
    <3>1. r[i].id \in lo .. hi - 1
      BY DEF Placed, Num
    <3> QED BY <2>1, <2>3, <3>1
  <2> QED BY <1>1, <2>1, <2>2, <2>3
<1> QED BY <1>2, <1>3, <1>4, <1>5, <1>6, <1>7, <1>8 DEF Placed

\* The engine returns its n oldest requests.
LEMMA PlacedPolled ==
    ASSUME NEW e \in Seq(TaskId), NEW f \in Seq(TaskId),
           NEW lo \in Nat, NEW hi \in Nat, NEW p, Placed(<<>>, e, f, lo, hi, p),
           NEW n \in 0 .. Len(e)
    PROVE  /\ Placed(SubSeq(e, 1, n), SubSeq(e, n + 1, Len(e)), f, lo, hi, p)
           /\ SubSeq(e, 1, n) \in Seq(TaskId) /\ SubSeq(e, n + 1, Len(e)) \in Seq(TaskId)
           /\ Len(SubSeq(e, 1, n)) = n /\ Len(SubSeq(e, n + 1, Len(e))) = Len(e) - n
<1> DEFINE a == SubSeq(e, 1, n)  b == SubSeq(e, n + 1, Len(e))
<1>1. Len(e) \in Nat /\ DOMAIN e = 1 .. Len(e) /\ n \in Nat /\ n <= Len(e)
  OBVIOUS
<1>2. /\ a \in Seq(TaskId) /\ Len(a) = n /\ DOMAIN a = 1 .. n
      /\ \A i \in 1 .. n : a[i] = e[i]
  <2>1. \A i \in 1 .. n : e[i] \in TaskId
    BY <1>1
  <2>2. /\ a \in Seq(TaskId) /\ Len(a) = (IF 1 <= n THEN n - 1 + 1 ELSE 0)
        /\ \A i \in 1 .. n - 1 + 1 : a[i] = e[1 + i - 1]
    BY <1>1, <2>1, SubSeqProperties
  <2>3. Len(a) = n
    BY <1>1, <2>2
  <2>4. \A i \in 1 .. n : i \in 1 .. n - 1 + 1 /\ 1 + i - 1 = i
    BY <1>1
  <2> QED BY <2>2, <2>3, <2>4
<1>3. /\ b \in Seq(TaskId) /\ Len(b) = Len(e) - n /\ DOMAIN b = 1 .. Len(e) - n
      /\ \A i \in 1 .. Len(e) - n : b[i] = e[n + i]
  <2>1. \A i \in n + 1 .. Len(e) : e[i] \in TaskId
    BY <1>1
  <2>2. /\ b \in Seq(TaskId) /\ Len(b) = (IF n + 1 <= Len(e) THEN Len(e) - (n + 1) + 1 ELSE 0)
        /\ \A i \in 1 .. Len(e) - (n + 1) + 1 : b[i] = e[(n + 1) + i - 1]
    BY <1>1, <2>1, SubSeqProperties
  <2>3. Len(b) = Len(e) - n
    <3>1. CASE n < Len(e)
      <4>1. n + 1 <= Len(e) /\ Len(e) - (n + 1) + 1 = Len(e) - n
        BY <1>1, <3>1
      <4> QED BY <2>2, <4>1
    <3>2. CASE n = Len(e)
      <4>1. ~(n + 1 <= Len(e)) /\ Len(e) - n = 0
        BY <1>1, <3>2
      <4> QED BY <2>2, <4>1
    <3>3. n < Len(e) \/ n = Len(e)
      <4>1. \A k, l \in Nat : k <= l => k < l \/ k = l
        OBVIOUS
      <4> QED BY Zenon, <1>1, <4>1
    <3> QED BY <3>1, <3>2, <3>3
  <2>4. \A i \in 1 .. Len(e) - n : i \in 1 .. Len(e) - (n + 1) + 1 /\ (n + 1) + i - 1 = n + i
    BY <1>1
  <2> QED BY <2>2, <2>3, <2>4
<1> HIDE DEF a, b
<1>4. /\ \A i, j \in 1 .. Len(e) : i < j => e[i].id < e[j].id
      /\ \A i \in 1 .. Len(e) : e[i].id \in lo .. hi - 1 /\ e[i].t = p[e[i].id]
  BY Zenon, <1>1 DEF Placed, Num, Increasing
<1>5. Num(a, lo, hi, p)
  <2>1. Increasing(a)
    BY <1>1, <1>2, <1>4 DEF Increasing
  <2>2. \A i \in DOMAIN a : a[i].id \in lo .. hi - 1 /\ a[i].t = p[a[i].id]
    BY <1>1, <1>2, <1>4
  <2> QED BY <2>1, <2>2 DEF Num
<1>6. Num(b, lo, hi, p)
  <2>0. \A i \in DOMAIN b : n + i \in 1 .. Len(e) /\ b[i] = e[n + i]
    BY <1>1, <1>3, SMTT(30)
  <2>1. Increasing(b)
    <3> SUFFICES ASSUME NEW i \in DOMAIN b, NEW j \in DOMAIN b, i < j PROVE b[i].id < b[j].id
      BY DEF Increasing
    <3>1. n + i < n + j
      BY <1>1, <1>3
    <3> QED BY <1>4, <2>0, <3>1, SMTT(30)
  <2>2. \A i \in DOMAIN b : b[i].id \in lo .. hi - 1 /\ b[i].t = p[b[i].id]
    BY <1>4, <2>0
  <2> QED BY <2>1, <2>2 DEF Num
<1>7. ASSUME NEW i \in DOMAIN a, NEW j \in DOMAIN b PROVE a[i].id < b[j].id
  <2>1. i \in 1 .. n /\ a[i] = e[i] /\ j \in 1 .. Len(e) - n /\ b[j] = e[n + j]
    BY <1>2, <1>3, SMTT(30)
  <2>2. i \in 1 .. Len(e) /\ n + j \in 1 .. Len(e) /\ i < n + j
    BY <1>1, <2>1
  <2> QED BY <1>4, <2>1, <2>2, SMTT(30)
<1>8. Ids(a) \cup Ids(b) = Ids(e) /\ Ids(<<>>) = {}
  <2>1. \A k : k \in Ids(a) <=> \E i \in 1 .. n : e[i].id = k
    BY Zenon, <1>2 DEF Ids
  <2>2. \A k : k \in Ids(b) <=> \E i \in 1 .. Len(e) - n : e[n + i].id = k
    BY Zenon, <1>3 DEF Ids
  <2>3. \A k : k \in Ids(e) <=> \E i \in 1 .. Len(e) : e[i].id = k
    BY <1>1, SMTT(30) DEF Ids
  <2>4. ASSUME NEW k \in Ids(e) PROVE k \in Ids(a) \cup Ids(b)
    <3>1. PICK i \in 1 .. Len(e) : e[i].id = k
      BY <2>3
    <3>2. CASE i <= n
      BY <1>1, <2>1, <3>1, <3>2
    <3>3. CASE i > n
      <4>1. i - n \in 1 .. Len(e) - n /\ n + (i - n) = i
        BY <1>1, <3>3
      <4> QED BY <2>2, <3>1, <4>1
    <3> QED BY <1>1, <3>2, <3>3
  <2>5. ASSUME NEW k \in Ids(a) \cup Ids(b) PROVE k \in Ids(e)
    <3>1. \A i \in 1 .. n : i \in 1 .. Len(e)
      BY <1>1
    <3>2. \A i \in 1 .. Len(e) - n : n + i \in 1 .. Len(e)
      BY <1>1
    <3> QED BY <2>1, <2>2, <2>3, <3>1, <3>2
  <2>6. Ids(<<>>) = {}
    BY DEF Ids
  <2> QED BY <2>4, <2>5, <2>6
<1>9. Len(a) + Len(b) + Len(f) = hi - lo
  BY <1>1, <1>2, <1>3 DEF Placed
<1>10. /\ Ids(f) \cap (Ids(a) \cup Ids(b)) = {}
       /\ lo .. hi - 1 \subseteq Ids(a) \cup Ids(b) \cup Ids(f)
  BY <1>8 DEF Placed
<1>11. Placed(a, b, f, lo, hi, p)
  BY <1>5, <1>6, <1>7, <1>9, <1>10 DEF Placed
<1> QED BY <1>2, <1>3, <1>11, SMTT(30) DEF a, b

\* A failed task whose number is next is called back.
LEMMA PlacedFailedTaken ==
    ASSUME NEW r \in Seq(TaskId), NEW e \in Seq(TaskId), NEW f \in Seq(TaskId),
           NEW lo \in Nat, NEW hi \in Nat, NEW p, Placed(r, e, f, lo, hi, p),
           f # <<>>, Head(f).id = lo
    PROVE  Placed(r, e, Tail(f), lo + 1, hi, p)
<1>1. Num(Tail(f), lo + 1, hi, p) /\ Ids(Tail(f)) = Ids(f) \ {lo}
  BY NumTail DEF Placed
<1>2. lo \in Ids(f)
  BY TailIs DEF Ids
<1>3. Num(r, lo + 1, hi, p) /\ Num(e, lo + 1, hi, p)
  BY <1>2, NumAbove DEF Placed
<1>4. Len(r) + Len(e) + Len(Tail(f)) = hi - (lo + 1)
  <2>1. Len(r) \in Nat /\ Len(e) \in Nat /\ Len(f) \in Nat /\ Len(Tail(f)) = Len(f) - 1
    BY TailIs
  <2> QED BY <2>1 DEF Placed
<1>5. lo + 1 .. hi - 1 \subseteq Ids(r) \cup Ids(e) \cup Ids(Tail(f))
  <2>1. \A n \in lo + 1 .. hi - 1 : n \in lo .. hi - 1 /\ n # lo
    OBVIOUS
  <2> QED BY <1>1, <2>1 DEF Placed
<1> QED BY <1>1, <1>3, <1>4, <1>5 DEF Placed

\* When no failed task is next, the first result is: DCHECK(matched) of PollingAndMerge.
LEMMA ResultIsNext ==
    ASSUME NEW r \in Seq(TaskId), NEW e \in Seq(TaskId), NEW f \in Seq(TaskId),
           NEW lo \in Nat, NEW hi \in Nat, NEW p, Placed(r, e, f, lo, hi, p),
           r # <<>>, f = <<>> \/ Head(f).id # lo
    PROVE  Head(r).id = lo
<1>1. /\ 1 \in DOMAIN r /\ Head(r) = r[1] /\ DOMAIN r = 1 .. Len(r) /\ Len(r) \in Nat
      /\ r[1].id \in lo .. hi - 1
  <2>1. 1 \in DOMAIN r /\ Head(r) = r[1] /\ DOMAIN r = 1 .. Len(r) /\ Len(r) \in Nat
    BY TailIs
  <2> QED BY <2>1 DEF Placed, Num
<1>2. lo \in Ids(r) \cup Ids(e) \cup Ids(f)
  BY <1>1 DEF Placed
<1>3. lo \notin Ids(f)
  <2> SUFFICES ASSUME NEW i \in DOMAIN f, f[i].id = lo PROVE FALSE
    BY DEF Ids
  <2>1. f # <<>> /\ DOMAIN f = 1 .. Len(f) /\ Len(f) \in Nat
    OBVIOUS
  <2>2. 1 \in DOMAIN f /\ Head(f) = f[1]
    BY <2>1, TailIs
  <2>3. f[1].id \in lo .. hi - 1 /\ f[1].id # lo
    BY <2>1, <2>2, SMTT(30) DEF Placed, Num
  <2>4. 1 < i => f[1].id < f[i].id
    BY <2>2 DEF Placed, Num, Increasing
  <2> QED BY <2>1, <2>2, <2>3, <2>4
<1>4. lo \notin Ids(e)
  <2> SUFFICES ASSUME NEW j \in DOMAIN e, e[j].id = lo PROVE FALSE
    BY DEF Ids
  <2>1. r[1].id < e[j].id
    BY Zenon, <1>1 DEF Placed
  <2> QED BY <1>1, <2>1
<1>5. PICK i \in DOMAIN r : r[i].id = lo
  BY <1>2, <1>3, <1>4 DEF Ids
<1>6. 1 < i => r[1].id < r[i].id
  BY <1>1, SMTT(30) DEF Placed, Num, Increasing
<1> QED BY <1>1, <1>5, <1>6

LEMMA PlacedResultTaken ==
    ASSUME NEW r \in Seq(TaskId), NEW e \in Seq(TaskId), NEW f \in Seq(TaskId),
           NEW lo \in Nat, NEW hi \in Nat, NEW p, Placed(r, e, f, lo, hi, p),
           r # <<>>, Head(r).id = lo
    PROVE  Placed(Tail(r), e, f, lo + 1, hi, p)
<1>1. Num(Tail(r), lo + 1, hi, p) /\ Ids(Tail(r)) = Ids(r) \ {lo}
  BY NumTail DEF Placed
<1>2. lo \in Ids(r)
  BY TailIs DEF Ids
<1>3. lo \notin Ids(e)
  <2> SUFFICES ASSUME NEW j \in DOMAIN e, e[j].id = lo PROVE FALSE
    BY DEF Ids
  <2>1. 1 \in DOMAIN r /\ r[1].id = lo
    BY TailIs
  <2>2. r[1].id < e[j].id
    BY <2>1 DEF Placed
  <2> QED BY <2>1, <2>2
<1>4. Num(e, lo + 1, hi, p) /\ Num(f, lo + 1, hi, p)
  BY <1>2, <1>3, NumAbove DEF Placed
<1>5. Len(Tail(r)) + Len(e) + Len(f) = hi - (lo + 1)
  <2>1. Len(r) \in Nat /\ Len(e) \in Nat /\ Len(f) \in Nat /\ Len(Tail(r)) = Len(r) - 1
    BY TailIs
  <2> QED BY <2>1 DEF Placed
<1>6. lo + 1 .. hi - 1 \subseteq Ids(Tail(r)) \cup Ids(e) \cup Ids(f)
  <2>1. \A n \in lo + 1 .. hi - 1 : n \in lo .. hi - 1 /\ n # lo
    OBVIOUS
  <2> QED BY <1>1, <2>1 DEF Placed
<1>7. ASSUME NEW i \in DOMAIN Tail(r), NEW j \in DOMAIN e PROVE Tail(r)[i].id < e[j].id
  <2>1. i + 1 \in DOMAIN r /\ Tail(r)[i] = r[i + 1]
    BY TailIs
  <2> QED BY <2>1 DEF Placed
<1>8. Ids(f) \cap (Ids(Tail(r)) \cup Ids(e)) = {}
  BY <1>1 DEF Placed
<1> QED BY <1>1, <1>4, <1>5, <1>6, <1>7, <1>8 DEF Placed

LEMMA PlacedNext ==
    ASSUME Placed(results', engine', failed_tasks', expected_req_id', req_id', pushed')
    PROVE  NumbersPlaced'
  BY DEF NumbersPlaced, Numbered, Placed, Num

(***************************************************************************)
(* The steps of the thread that move numbered tasks                         *)
(***************************************************************************)
LEMMA TaskTaken ==
    ASSUME WorkerInvariant, task_buffer # <<>>, task_buffer' = Tail(task_buffer),
           req_id' = req_id + 1, UNCHANGED <<worker_tasks, pushed>>
    PROVE  /\ TasksInOrder' /\ task_buffer' \in Seq(Task) /\ req_id' \in Nat
           /\ WithId(Head(task_buffer), req_id) \in TaskId
           /\ WithId(Head(task_buffer), req_id).id = req_id
           /\ WithId(Head(task_buffer), req_id).t = pushed[req_id]
<1>1. worker_tasks \in Seq(Task) /\ task_buffer \in Seq(Task) /\ req_id \in Nat
  BY DEF WorkerInvariant, TypeOK
<1>2. /\ task_buffer' \in Seq(Task) /\ Len(task_buffer') = Len(task_buffer) - 1
      /\ DOMAIN task_buffer = 1 .. Len(task_buffer) /\ DOMAIN task_buffer' = 1 .. Len(task_buffer) - 1
      /\ Len(task_buffer) \in Nat \ {0} /\ Head(task_buffer) = task_buffer[1]
      /\ Head(task_buffer) \in Task
      /\ \A i \in 1 .. Len(task_buffer) - 1 : task_buffer'[i] = task_buffer[i + 1]
  BY <1>1, TailIs
<1>3. Len(worker_tasks) \in Nat /\ DOMAIN worker_tasks = 1 .. Len(worker_tasks)
  BY <1>1
<1>4. /\ req_id > 0 /\ Len(pushed) = req_id - 1 + Len(task_buffer) + Len(worker_tasks)
      /\ \A k \in DOMAIN task_buffer : task_buffer[k] = pushed[req_id - 1 + k]
      /\ \A k \in DOMAIN worker_tasks : worker_tasks[k] = pushed[req_id - 1 + Len(task_buffer) + k]
  BY DEF WorkerInvariant, TasksInOrder
<1>5. TasksInOrder'
  <2>1. req_id' > 0 /\ Len(pushed) = req_id' - 1 + Len(task_buffer') + Len(worker_tasks)
    BY <1>1, <1>2, <1>3, <1>4
  <2>2. ASSUME NEW k \in DOMAIN task_buffer' PROVE task_buffer'[k] = pushed[req_id' - 1 + k]
    <3>1. k + 1 \in DOMAIN task_buffer /\ task_buffer'[k] = task_buffer[k + 1]
      BY <1>2
    <3>2. req_id - 1 + (k + 1) = req_id' - 1 + k
      BY <1>1, <1>2
    <3> QED BY <1>4, <3>1, <3>2
  <2>3. ASSUME NEW k \in DOMAIN worker_tasks
        PROVE  worker_tasks[k] = pushed[req_id' - 1 + Len(task_buffer') + k]
    <3>1. req_id - 1 + Len(task_buffer) + k = req_id' - 1 + Len(task_buffer') + k
      BY <1>1, <1>2, <1>3
    <3> QED BY <1>4, <3>1
  <2> QED BY <2>1, <2>2, <2>3 DEF TasksInOrder
<1>6. Head(task_buffer) = pushed[req_id]
  <2>1. 1 \in DOMAIN task_buffer /\ req_id - 1 + 1 = req_id
    BY <1>1, <1>2
  <2> QED BY <1>2, <1>4, <2>1, SMTT(30)
<1>7. WithId(Head(task_buffer), req_id) \in TaskId
  BY <1>1, <1>2 DEF WithId, TaskId
<1>8. /\ WithId(Head(task_buffer), req_id).id = req_id
      /\ WithId(Head(task_buffer), req_id).t = pushed[req_id]
  BY <1>6 DEF WithId
<1> QED BY <1>1, <1>2, <1>5, <1>7, <1>8

LEMMA SubmitAcceptedStep ==
    ASSUME WorkerInvariant, SubmitAccepted
    PROVE  WorkerInvariant'
<1> DEFINE x == WithId(Head(task_buffer), req_id)
<1>1. /\ wpc = "submit" /\ task_buffer # <<>> /\ engine' = Append(engine, x)
      /\ req_id' = req_id + 1 /\ inflight_num' = inflight_num + 1 /\ task_buffer' = Tail(task_buffer)
      /\ UNCHANGED <<running, worker_tasks, failed_tasks, results, expected_req_id, ready,
                     is_fatal, ha_enabled, wpc, upc, scheduled, pushed, called>>
  BY DEF SubmitAccepted, userVars
<1>2. /\ TasksInOrder' /\ task_buffer' \in Seq(Task) /\ req_id' \in Nat
      /\ x \in TaskId /\ x.id = req_id /\ x.t = pushed[req_id]
  BY <1>1, TaskTaken
<1> HIDE DEF x
<1>3. /\ results \in Seq(TaskId) /\ engine \in Seq(TaskId) /\ failed_tasks \in Seq(TaskId)
      /\ req_id \in Nat /\ expected_req_id \in Nat /\ inflight_num \in Nat
      /\ ready \in Nat /\ ready <= Len(engine) /\ inflight_num = Len(engine) + Len(results)
  BY DEF WorkerInvariant, TypeOK
<1>4. engine' \in Seq(TaskId) /\ Len(engine') = Len(engine) + 1 /\ Len(engine) \in Nat
  BY <1>1, <1>2, <1>3, AppendIs
<1>5. ready <= Len(engine') /\ inflight_num' \in Nat /\ Len(results) \in Nat
  BY <1>1, <1>3, <1>4
<1>6. TypeOK'
  BY <1>1, <1>2, <1>4, <1>5, SMTT(30) DEF WorkerInvariant, TypeOK
<1>7. NumbersPlaced'
  <2>1. Placed(results, engine, failed_tasks, expected_req_id, req_id, pushed)
    BY PlacedIs DEF WorkerInvariant
  <2>2. Placed(results, Append(engine, x), failed_tasks, expected_req_id, req_id + 1, pushed)
    BY Zenon, <1>2, <1>3, <2>1, PlacedAccepted
  <2> QED BY <1>1, <2>2, PlacedNext
<1>8. PhasesFit' /\ CallbacksInOrder'
  BY <1>1 DEF WorkerInvariant, PhasesFit, CallbacksInOrder
<1>9. inflight_num' = Len(engine') + Len(results')
  BY <1>1, <1>3, <1>4, <1>5
<1> QED BY <1>2, <1>6, <1>7, <1>8, <1>9 DEF WorkerInvariant

LEMMA EngineErrorTypes ==
    ASSUME TypeOK, NEW rest \in Seq(TaskId), NEW r \in Nat, r <= Len(rest), EngineError(rest, r)
    PROVE  ready' \in Nat /\ ready' <= Len(rest) /\ is_fatal' \in BOOLEAN
<1>1. is_fatal' \in BOOLEAN
  BY Zenon DEF EngineError, TypeOK
<1>2. Len(rest) \in Nat
  OBVIOUS
<1>3. ready' = r \/ ready' = Len(rest)
  BY DEF EngineError
<1> QED BY <1>1, <1>2, <1>3

LEMMA SubmitRejectedStep ==
    ASSUME WorkerInvariant, SubmitRejected
    PROVE  WorkerInvariant'
<1> DEFINE x == WithId(Head(task_buffer), req_id)
<1>1. /\ wpc = "submit" /\ task_buffer # <<>> /\ failed_tasks' = Append(failed_tasks, x)
      /\ req_id' = req_id + 1 /\ task_buffer' = Tail(task_buffer) /\ EngineError(engine, ready)
      /\ UNCHANGED <<running, worker_tasks, results, expected_req_id, inflight_num, engine,
                     ha_enabled, wpc, upc, scheduled, pushed, called>>
  BY DEF SubmitRejected, userVars
<1>2. /\ TasksInOrder' /\ task_buffer' \in Seq(Task) /\ req_id' \in Nat
      /\ x \in TaskId /\ x.id = req_id /\ x.t = pushed[req_id]
  BY <1>1, TaskTaken
<1> HIDE DEF x
<1>3. /\ results \in Seq(TaskId) /\ engine \in Seq(TaskId) /\ failed_tasks \in Seq(TaskId)
      /\ req_id \in Nat /\ expected_req_id \in Nat
      /\ ready \in Nat /\ ready <= Len(engine)
  BY DEF WorkerInvariant, TypeOK
<1>4. failed_tasks' \in Seq(TaskId)
  BY <1>1, <1>2, <1>3, AppendIs
<1>5. ready' \in Nat /\ ready' <= Len(engine) /\ is_fatal' \in BOOLEAN
  BY <1>1, <1>3, EngineErrorTypes DEF WorkerInvariant
<1>6. TypeOK'
  BY <1>1, <1>2, <1>4, <1>5, SMTT(30) DEF WorkerInvariant, TypeOK
<1>7. NumbersPlaced'
  <2>1. Placed(results, engine, failed_tasks, expected_req_id, req_id, pushed)
    BY PlacedIs DEF WorkerInvariant
  <2>2. Placed(results, engine, Append(failed_tasks, x), expected_req_id, req_id + 1, pushed)
    BY <1>2, <1>3, <2>1, PlacedRejected, SMTT(30)
  <2> QED BY <1>1, <2>2, PlacedNext
<1>8. PhasesFit' /\ CallbacksInOrder'
  BY <1>1 DEF WorkerInvariant, PhasesFit, CallbacksInOrder
<1> QED BY <1>1, <1>2, <1>6, <1>7, <1>8 DEF WorkerInvariant

LEMMA PollStep ==
    ASSUME WorkerInvariant, NEW m \in 0 .. Len(engine), Poll(m)
    PROVE  WorkerInvariant'
<1> DEFINE n == Min(m, MaxSubmitNum)
           rest == SubSeq(engine, n + 1, Len(engine))
<1>1. /\ wpc = "submit" /\ task_buffer = <<>>
      /\ results' = SubSeq(engine, 1, n) /\ engine' = rest
      /\ IF is_fatal \/ (~ha_enabled /\ n > 0)
         THEN ready' = m - n /\ UNCHANGED is_fatal
         ELSE EngineError(rest, m - n)
      /\ wpc' = IF n = 0 THEN "failed" ELSE "merge"
      /\ UNCHANGED <<running, worker_tasks, task_buffer, failed_tasks, req_id, expected_req_id,
                     inflight_num, ha_enabled, upc, scheduled, pushed, called>>
  BY DEF Poll, userVars, idVars
<1>2. /\ engine \in Seq(TaskId) /\ failed_tasks \in Seq(TaskId) /\ req_id \in Nat
      /\ expected_req_id \in Nat /\ is_fatal \in BOOLEAN /\ Len(engine) \in Nat
  BY DEF WorkerInvariant, TypeOK
<1>3. n \in 0 .. Len(engine) /\ n \in Nat /\ m - n \in Nat /\ m <= Len(engine)
  BY <1>2 DEF Min
<1>4. results = <<>>
  BY <1>1 DEF WorkerInvariant, PhasesFit
<1>5. Placed(<<>>, engine, failed_tasks, expected_req_id, req_id, pushed)
  BY <1>4, PlacedIs DEF WorkerInvariant
<1> HIDE DEF n
<1>6. /\ Placed(SubSeq(engine, 1, n), rest, failed_tasks, expected_req_id, req_id, pushed)
      /\ SubSeq(engine, 1, n) \in Seq(TaskId) /\ rest \in Seq(TaskId)
      /\ Len(SubSeq(engine, 1, n)) = n /\ Len(rest) = Len(engine) - n
  BY <1>2, <1>3, <1>5, PlacedPolled
<1> HIDE DEF rest
<1>7. NumbersPlaced'
  BY <1>1, <1>6, PlacedNext
<1>8. ready' \in Nat /\ ready' <= Len(rest) /\ is_fatal' \in BOOLEAN
  <2>1. m - n <= Len(rest)
    BY <1>2, <1>3, <1>6
  <2>2. CASE is_fatal \/ (~ha_enabled /\ n > 0)
    BY <1>1, <1>2, <1>3, <2>1, <2>2
  <2>3. CASE ~(is_fatal \/ (~ha_enabled /\ n > 0))
    <3>1. EngineError(rest, m - n)
      BY <1>1, <2>3
    <3> QED BY <1>3, <1>6, <2>1, <3>1, EngineErrorTypes DEF WorkerInvariant
  <2> QED BY <2>2, <2>3
<1>9. TypeOK'
  <2>1. results' \in Seq(TaskId) /\ engine' \in Seq(TaskId) /\ ready' <= Len(engine')
    BY <1>1, <1>6, <1>8
  <2>2. wpc' \in {"idle", "drain", "submit", "failed", "merge", "uninit", "closed"}
    BY <1>1
  <2> QED BY <1>1, <1>8, <2>1, <2>2, SMTT(30) DEF WorkerInvariant, TypeOK
<1>10. TasksInOrder' /\ CallbacksInOrder'
  BY <1>1 DEF WorkerInvariant, TasksInOrder, CallbacksInOrder
<1>11. wpc' = "merge" <=> results' # <<>>
  <2>1. results' \in Seq(TaskId) /\ Len(results') = n
    BY <1>1, <1>6
  <2>2. n = 0 <=> results' = <<>>
    BY <2>1
  <2> QED BY <1>1, <2>2
<1>12. PhasesFit'
  <2>1. wpc' \in {"failed", "merge"}
    BY <1>1
  <2> QED BY <1>1, <1>11, <2>1 DEF WorkerInvariant, PhasesFit
<1>13. inflight_num' = Len(engine') + Len(results')
  <2>1. inflight_num = Len(engine) + 0
    BY <1>4 DEF WorkerInvariant
  <2>2. Len(engine') = Len(engine) - n /\ Len(results') = n
    BY <1>1, <1>6
  <2> QED BY <1>1, <1>2, <1>3, <2>1, <2>2
<1> QED BY <1>7, <1>9, <1>10, <1>12, <1>13 DEF WorkerInvariant

\* The callback of the task numbered expected_req_id is the next in the order of Push.
LEMMA CalledNext ==
    ASSUME WorkerInvariant, NEW x \in TaskId, x.id = expected_req_id, x.t = pushed[x.id],
           expected_req_id < req_id, called' = Append(called, x.t),
           expected_req_id' = expected_req_id + 1, UNCHANGED pushed
    PROVE  CallbacksInOrder' /\ called' \in Seq(Task) /\ expected_req_id' \in Nat
<1>1. /\ called \in Seq(Task) /\ x.t \in Task /\ expected_req_id \in Nat /\ req_id \in Nat
      /\ task_buffer \in Seq(Task) /\ worker_tasks \in Seq(Task)
  BY SMTT(30) DEF WorkerInvariant, TypeOK, TaskId
<1>2. /\ called' \in Seq(Task) /\ Len(called') = Len(called) + 1
      /\ DOMAIN called = 1 .. Len(called) /\ DOMAIN called' = 1 .. Len(called) + 1
      /\ Len(called) \in Nat
      /\ \A i \in 1 .. Len(called) : called'[i] = called[i]
      /\ called'[Len(called) + 1] = x.t
  BY <1>1, AppendIs
<1>3. /\ Len(called) <= Len(pushed) /\ \A i \in DOMAIN called : called[i] = pushed[i]
      /\ expected_req_id = Len(called) + 1
  BY DEF WorkerInvariant, CallbacksInOrder
<1>4. Len(called') <= Len(pushed)
  <2>1. Len(task_buffer) \in Nat /\ Len(worker_tasks) \in Nat
    BY <1>1
  <2>2. Len(pushed) = req_id - 1 + Len(task_buffer) + Len(worker_tasks)
    BY DEF WorkerInvariant, TasksInOrder
  <2>3. Len(pushed) >= req_id - 1
    BY <1>1, <2>1, <2>2
  <2>4. Len(pushed) \in Int
    BY <1>1, <2>1, <2>2
  <2> QED BY <1>1, <1>2, <1>3, <2>3, <2>4
<1>5. ASSUME NEW i \in DOMAIN called' PROVE called'[i] = pushed[i]
  <2>1. i \in 1 .. Len(called) \/ i = Len(called) + 1
    BY <1>2
  <2> QED BY <1>2, <1>3, <2>1
<1>6. expected_req_id' = Len(called') + 1
  BY <1>2, <1>3
<1> QED BY <1>1, <1>2, <1>4, <1>5, <1>6 DEF CallbacksInOrder

LEMMA ProcessFailedStep ==
    ASSUME WorkerInvariant, ProcessFailed
    PROVE  WorkerInvariant'
<1> DEFINE x == Head(failed_tasks)
<1>1. /\ wpc \in {"failed", "merge"} /\ failed_tasks # <<>> /\ x.id = expected_req_id
      /\ called' = Append(called, x.t) /\ failed_tasks' = Tail(failed_tasks)
      /\ expected_req_id' = expected_req_id + 1
      /\ UNCHANGED <<running, worker_tasks, task_buffer, results, req_id, inflight_num,
                     engine, ready, is_fatal, ha_enabled, wpc, upc, scheduled, pushed>>
  BY DEF ProcessFailed, FailedIsNext, engineVars, userVars
<1>2. /\ results \in Seq(TaskId) /\ engine \in Seq(TaskId) /\ failed_tasks \in Seq(TaskId)
      /\ req_id \in Nat /\ expected_req_id \in Nat
  BY DEF WorkerInvariant, TypeOK
<1>3. /\ failed_tasks' \in Seq(TaskId) /\ x \in TaskId /\ 1 \in DOMAIN failed_tasks
      /\ x = failed_tasks[1]
  BY <1>1, <1>2, TailIs
<1>4. Placed(results, engine, failed_tasks, expected_req_id, req_id, pushed)
  BY PlacedIs DEF WorkerInvariant
<1>5. x.t = pushed[x.id] /\ x.id \in expected_req_id .. req_id - 1
  BY <1>3, <1>4 DEF Placed, Num
<1>6. NumbersPlaced'
  <2>1. Placed(results, engine, Tail(failed_tasks), expected_req_id + 1, req_id, pushed)
    BY <1>1, <1>2, <1>4, PlacedFailedTaken
  <2> QED BY <1>1, <2>1, PlacedNext
<1> HIDE DEF x
<1>7. CallbacksInOrder' /\ called' \in Seq(Task) /\ expected_req_id' \in Nat
  <2>1. expected_req_id < req_id
    BY <1>1, <1>2, <1>5
  <2> QED BY <1>1, <1>3, <1>5, <2>1, CalledNext
<1>8. TypeOK'
  BY <1>1, <1>3, <1>7, SMTT(30) DEF WorkerInvariant, TypeOK
<1>9. TasksInOrder' /\ PhasesFit'
  BY <1>1 DEF WorkerInvariant, TasksInOrder, PhasesFit
<1> QED BY <1>1, <1>6, <1>7, <1>8, <1>9 DEF WorkerInvariant

LEMMA MergeResultStep ==
    ASSUME WorkerInvariant, MergeResult
    PROVE  WorkerInvariant'
<1> DEFINE x == Head(results)
<1>1. /\ wpc = "merge" /\ ~(failed_tasks # <<>> /\ Head(failed_tasks).id = expected_req_id)
      /\ called' = Append(called, x.t) /\ results' = Tail(results)
      /\ expected_req_id' = IF x.id = expected_req_id THEN expected_req_id + 1 ELSE expected_req_id
      /\ inflight_num' = inflight_num - 1
      /\ wpc' = IF Len(results) = 1 THEN AfterLoop ELSE "merge"
      /\ UNCHANGED <<running, worker_tasks, task_buffer, failed_tasks, req_id,
                     engine, ready, is_fatal, ha_enabled, upc, scheduled, pushed>>
  BY DEF MergeResult, FailedIsNext, engineVars, userVars
<1>2. /\ results \in Seq(TaskId) /\ engine \in Seq(TaskId) /\ failed_tasks \in Seq(TaskId)
      /\ req_id \in Nat /\ expected_req_id \in Nat /\ Len(engine) \in Nat
      /\ inflight_num = Len(engine) + Len(results)
  BY DEF WorkerInvariant, TypeOK
<1>3. results # <<>> /\ task_buffer = <<>>
  BY <1>1 DEF WorkerInvariant, PhasesFit
<1>4. /\ results' \in Seq(TaskId) /\ Len(results') = Len(results) - 1 /\ x \in TaskId
      /\ Len(results) \in Nat \ {0} /\ 1 \in DOMAIN results /\ x = results[1]
  BY <1>1, <1>2, <1>3, TailIs
<1>5. Placed(results, engine, failed_tasks, expected_req_id, req_id, pushed)
  BY PlacedIs DEF WorkerInvariant
<1>6. x.id = expected_req_id
  BY <1>1, <1>2, <1>3, <1>5, ResultIsNext, SMTT(30)
<1>7. x.t = pushed[x.id] /\ x.id \in expected_req_id .. req_id - 1
  BY <1>4, <1>5 DEF Placed, Num
<1>8. NumbersPlaced'
  <2>1. Placed(Tail(results), engine, failed_tasks, expected_req_id + 1, req_id, pushed)
    BY <1>2, <1>3, <1>5, <1>6, PlacedResultTaken
  <2> QED BY <1>1, <1>6, <2>1, PlacedNext
<1> HIDE DEF x
<1>9. CallbacksInOrder' /\ called' \in Seq(Task) /\ expected_req_id' \in Nat
  <2>1. expected_req_id < req_id
    BY <1>2, <1>6, <1>7
  <2> QED BY <1>1, <1>4, <1>6, <1>7, <2>1, CalledNext
<1>10. inflight_num' \in Nat /\ inflight_num' = Len(engine') + Len(results')
  BY <1>1, <1>2, <1>4
<1>11. wpc' \in {"idle", "uninit", "merge"} /\ (wpc' = "merge" <=> results' # <<>>)
  <2>1. Len(results) = 1 <=> results' = <<>>
    BY <1>4
  <2> QED BY <1>1, <2>1 DEF AfterLoop
<1>12. TypeOK'
  BY Zenon, <1>1, <1>4, <1>9, <1>10, <1>11 DEF WorkerInvariant, TypeOK
<1>13. TasksInOrder'
  BY <1>1 DEF WorkerInvariant, TasksInOrder
<1>14. PhasesFit'
  BY <1>1, <1>3, <1>11 DEF WorkerInvariant, PhasesFit
<1> QED BY <1>8, <1>9, <1>10, <1>12, <1>13, <1>14 DEF WorkerInvariant

LEMMA NextPreserves == WorkerInvariant /\ [Next]_vars => WorkerInvariant'
<1> SUFFICES ASSUME WorkerInvariant, [Next]_vars PROVE WorkerInvariant'
  OBVIOUS
<1>1. ASSUME NEW u \in Users, ScheduleCheck(u) \/ SchedulePush(u) PROVE WorkerInvariant'
  BY <1>1, ScheduleCheckStep, SchedulePushStep
<1>2. CASE LoopOnce \/ Uninit
  BY <1>2, ThreadMoves
<1>3. CASE Thread
  <2>1. CASE DrainOne
    BY <2>1, DrainOneStep
  <2>2. CASE DrainEnds \/ FailedEnds \/ UninitLoop
    BY <2>2, ThreadMoves
  <2>3. CASE SubmitAccepted
    BY <2>3, SubmitAcceptedStep
  <2>4. CASE SubmitRejected
    BY <2>4, SubmitRejectedStep
  <2>5. ASSUME NEW n \in 0 .. Len(engine), Poll(n) PROVE WorkerInvariant'
    BY <2>5, PollStep
  <2>6. CASE ProcessFailed
    BY <2>6, ProcessFailedStep
  <2>7. CASE MergeResult
    BY <2>7, MergeResultStep
  <2> QED BY <1>3, <2>1, <2>2, <2>3, <2>4, <2>5, <2>6, <2>7 DEF Thread
<1>4. CASE UNCHANGED vars
  <2>1. UNCHANGED <<running, worker_tasks, task_buffer, failed_tasks, results, req_id,
                    expected_req_id, inflight_num, engine, ready, is_fatal, ha_enabled, wpc,
                    upc, scheduled, pushed, called>>
    BY <1>4 DEF vars, idVars, engineVars, userVars
  <2>2. TypeOK' /\ TasksInOrder' /\ CallbacksInOrder' /\ PhasesFit'
    BY Zenon, <2>1 DEF WorkerInvariant, TypeOK, TasksInOrder, CallbacksInOrder, PhasesFit
  <2>3. NumbersPlaced'
    BY <2>1, PlacesKept DEF WorkerInvariant
  <2> QED BY <2>1, <2>2, <2>3 DEF WorkerInvariant
<1> QED BY <1>1, <1>2, <1>3, <1>4 DEF Next

\* WorkerInvariant holds in every reachable state of LoopOnce, Schedule and Uninit: the
\* queue, task_buffer_, the failed tasks and the engine hold the pushed tasks in order.
THEOREM WorkerBookkeeping == Spec => []WorkerInvariant
<1>1. Init => WorkerInvariant
  BY InitEstablishes
<1>2. WorkerInvariant /\ [Next]_vars => WorkerInvariant'
  BY NextPreserves
<1> QED BY <1>1, <1>2, PTL DEF Spec

\* However PollingAndMerge interleaves failed tasks and results, callbacks run once and in
\* the order of Push, no task is lost, and Uninit closes an engine that holds none.
THEOREM WorkerInOrder == Spec => []WorkerSafe
<1>1. WorkerInvariant => WorkerSafe
  <2> SUFFICES ASSUME WorkerInvariant PROVE WorkerSafe
    OBVIOUS
  <2>1. /\ Len(results) \in Nat /\ Len(engine) \in Nat /\ Len(failed_tasks) \in Nat
        /\ Len(task_buffer) \in Nat /\ Len(worker_tasks) \in Nat /\ Len(called) \in Nat
        /\ req_id \in Nat /\ expected_req_id \in Nat
    BY DEF WorkerInvariant, TypeOK
  <2>2. /\ Len(pushed) = req_id - 1 + Len(task_buffer) + Len(worker_tasks)
        /\ Len(results) + Len(engine) + Len(failed_tasks) = req_id - expected_req_id
        /\ expected_req_id = Len(called) + 1
    BY DEF WorkerInvariant, TasksInOrder, NumbersPlaced, CallbacksInOrder
  <2>3. Len(pushed) = Len(called) + Len(worker_tasks) + Len(task_buffer)
                       + Len(failed_tasks) + Len(results) + Len(engine)
    BY <2>1, <2>2, SMTT(30)
  <2>4. TasksAccounted
    BY <2>3 DEF WorkerInvariant, TasksAccounted, NoTaskLost
  <2>5. UninitFinishesInflight
    BY DEF WorkerInvariant, UninitFinishesInflight, PhasesFit
  <2> QED BY <2>4, <2>5 DEF WorkerSafe, WorkerInvariant
<1> QED BY <1>1, WorkerBookkeeping, PTL

CONSTANTS u1, u2, c1, c2, c3, k1, k2, w1, w2, w3, NoAddr, NoChannel

VARIABLES
    part,
    s_running, s_tasks, s_task_status, s_id_cnt, s_pc, s_current, s_upc, s_mpc, s_completed,
    m_pc, m_worker_of, m_reqs, m_mtx, m_next_poller_id, m_poller_by_worker, m_asked, m_answer,
    m_poller_tasks, m_workers, m_running, m_exited, m_uninit, m_stuck, m_reset

s_vars == <<s_running, s_tasks, s_task_status, s_id_cnt, s_pc, s_current, s_upc, s_mpc, s_completed>>
m_vars == <<m_pc, m_worker_of, m_reqs, m_mtx, m_next_poller_id, m_poller_by_worker, m_asked,
            m_answer, m_poller_tasks, m_workers, m_running, m_exited, m_uninit, m_stuck,
            m_reset>>
all == <<part, vars, s_vars, m_vars>>

\* Two users, tasks of a short and a long interval
Scheduling == INSTANCE Scheduler WITH
    Users <- {u1, u2}, Intervals <- {1, 3}, MaxId <- 2, MaxLate <- 4,
    running <- s_running, tasks <- s_tasks, task_status <- s_task_status, id_cnt <- s_id_cnt,
    pc <- s_pc, current <- s_current, upc <- s_upc, mpc <- s_mpc, completed <- s_completed

\* Three channels, two of them with the same option, on two pollers
Shared == INSTANCE SharedModeProofs WITH
    Channels <- {c1, c2, c3}, Key <- [c \in {c1, c2, c3} |-> IF c = c3 THEN k2 ELSE k1],
    PollerNum <- 2, MaxWorker <- 2, Addrs <- {w1, w2, w3}, MayShutdown <- TRUE, MaxReq <- 1,
    pc <- m_pc, worker_of <- m_worker_of, reqs <- m_reqs, mtx <- m_mtx,
    next_poller_id <- m_next_poller_id, poller_by_worker <- m_poller_by_worker,
    asked <- m_asked, answer <- m_answer, poller_tasks <- m_poller_tasks,
    workers <- m_workers, running <- m_running, exited <- m_exited,
    uninit <- m_uninit, stuck <- m_stuck, reset <- m_reset

ASSUME SharedAssumption == Shared!ConstantsOK
ASSUME SchedulingAssumption == Scheduling!ConstantsOK

ThreadsInit ==
    /\ part \in {"worker", "scheduler", "shared"}
    /\ Init /\ (part # "worker" => ha_enabled) /\ Scheduling!Init /\ Shared!Init

ThreadsNext ==
    \/ part = "worker" /\ Next /\ UNCHANGED <<part, s_vars, m_vars>>
    \/ part = "scheduler" /\ Scheduling!Next /\ UNCHANGED <<part, vars, m_vars>>
    \/ part = "shared" /\ Shared!Next /\ UNCHANGED <<part, vars, s_vars>>

\* Each with the fairness of its own specification
ThreadsFairness ==
    /\ WF_vars(part = "worker" /\ Thread)
    /\ SF_vars(part = "worker" /\ LoopOnce) /\ SF_vars(part = "worker" /\ PollAnswers)
    /\ WF_s_vars(part = "scheduler" /\ Scheduling!Thread)
    /\ WF_s_vars(part = "scheduler" /\ Scheduling!Tick)
    /\ \A u \in {u1, u2} : WF_s_vars(part = "scheduler" /\ Scheduling!NotifyOne(u))
    /\ WF_s_vars(part = "scheduler" /\ Scheduling!StopNotify)
    /\ WF_s_vars(part = "scheduler" /\ Scheduling!StopJoin)
    /\ \A p \in Shared!Pollers : /\ WF_m_vars(part = "shared" /\ Shared!Run(p))
                                 /\ WF_m_vars(part = "shared" /\ Shared!ShutdownJoin(p))
    /\ \A c \in {c1, c2, c3} :
          /\ WF_m_vars(part = "shared" /\ Shared!GotWorker(c))
          /\ WF_m_vars(part = "shared" /\ Shared!Returned(c))
          /\ WF_m_vars(part = "shared" /\ \E p \in Shared!Pollers : Shared!Callback(p, c))

ThreadsSpec == ThreadsInit /\ [][ThreadsNext]_all /\ ThreadsFairness

-----------------------------------------------------------------------------

\* With HA every task is called back, and Uninit ends, even if the engine fails.
WorkerLive == EveryTaskCalled /\ UninitEndsWithHa

\* The scheduler keeps its heap, the status map and its thread in step.
SchedulerSafe == Scheduling!SchedulerSafe

\* A task whose CompleteTask has returned is not started again.
CompletedNeverStarts == Scheduling!CompletedNeverStarts

\* Every task that is on runs again and again.
EveryTaskRuns == Scheduling!EveryTaskRuns

\* Workers are counted, reachable and mapped as long as a channel or a request needs them.
SharedSafe == Shared!SharedSafe

\* Calls of the manager and its Reset return, unless the poller hangs in Uninit or is gone.
SharedLive == Shared!CallsReturn /\ Shared!ResetReturns

(***************************************************************************)
(* What is proved of the threads side by side                               *)
(***************************************************************************)
\* Side by side with the others, a worker still calls back once, in order (PollerWorker).
THEOREM WorkerStaysSafe == ThreadsSpec => []WorkerSafe
<1>1. ThreadsInit => Init
  BY DEF ThreadsInit
<1>2. [ThreadsNext]_all => [Next]_vars
  BY DEF ThreadsNext, all
<1> QED BY <1>1, <1>2, WorkerInOrder, PTL DEF ThreadsSpec, Spec

\* Shared mode counts its workers, finds them, and keeps them mapped as long as a channel
\* or a request needs them (SharedPollerManager, Poller::Run).
THEOREM SharedStaysSafe == ThreadsSpec => []SharedSafe
<1>1. ThreadsInit => Shared!Init
  BY DEF ThreadsInit
<1>2. [ThreadsNext]_all => [Shared!Next]_(Shared!vars)
  BY DEF ThreadsNext, all, m_vars, Shared!vars
<1>3. Shared!ConstantsOK
  BY SharedAssumption
<1>4. Shared!Spec => []Shared!SharedSafe
  BY <1>3, Shared!WorkersFound
<1> QED BY <1>1, <1>2, <1>4, PTL DEF ThreadsSpec, Shared!Spec, SharedSafe
=============================================================================
