-------------------------- MODULE SharedModeProofs --------------------------
(***************************************************************************)
(* The control plane of the shared mode for any number of channels, pollers *)
(* and options: SharedMode's bookkeeping of workers is inductive.           *)
(***************************************************************************)
EXTENDS SharedMode, FiniteSetTheorems, SequenceTheorems, TLAPS

\* The poller next_poller_id_ leads to.
LEMMA NextPoller ==
    ASSUME ConstantsOK, NEW p \in Pollers
    PROVE  (p + 1) % PollerNum \in Pollers
  BY DEF ConstantsOK, Pollers

LEMMA InitEstablishes == ConstantsOK /\ Init => SharedInvariant
<1> SUFFICES ASSUME ConstantsOK, Init PROVE SharedInvariant
  OBVIOUS
<1> USE DEF Init, ConstantsOK
<1>1. TypeOK
  <2>1. 0 \in Pollers
    BY DEF Pollers
  <2> QED BY <2>1 DEF TypeOK, NoAnswer
<1>2. OneCallAtATime
  BY DEF OneCallAtATime
<1>3. AddressesUnique /\ HoldersReach /\ MapFollows /\ NoRequestsYet
  BY DEF AddressesUnique, HoldersReach, MapFollows, NoRequestsYet
<1>4. RefCountsExact /\ RequestsAreInWorkers
  BY DEF RefCountsExact, RequestsAreInWorkers
<1> QED BY <1>1, <1>2, <1>3, <1>4 DEF SharedInvariant

(***************************************************************************)
(* The manager's mutex                                                      *)
(***************************************************************************)
OnlyShutdowns(t) == \A p \in Pollers : \A i \in DOMAIN t[p] : t[p][i].op = "shutdown"

\* While the mutex is free, and once the answer is there, no task waits for an answer.
LEMMA NobodyAsks ==
    ASSUME ConstantsOK, SharedInvariant, mtx = NoChannel \/ answer.done
    PROVE  OnlyShutdowns(poller_tasks)
  BY DEF ConstantsOK, SharedInvariant, OneCallAtATime, OnlyShutdowns

\* A poller's next task is that of the thread in the manager, and the only one.
LEMMA TheTask ==
    ASSUME SharedInvariant, NEW p \in Pollers, NEW op \in {"get", "return"}, IsNext(p, op),
           poller_tasks' = [poller_tasks EXCEPT ![p] = Tail(@)]
    PROVE  /\ Head(poller_tasks[p]).c = mtx /\ mtx \in Channels /\ pc[mtx] = op
           /\ asked = p /\ ~answer.done
           /\ OnlyShutdowns(poller_tasks') /\ poller_tasks' \in [Pollers -> Seq(Task)]
<1> DEFINE t == poller_tasks[p]
<1>1. t \in Seq(Task) /\ t # <<>> /\ Head(t).op = op
  BY DEF SharedInvariant, TypeOK, IsNext
<1>2. 1 \in DOMAIN t /\ Head(t) = t[1]
  BY <1>1
<1>3. /\ t[1].c = mtx /\ mtx \in Channels /\ pc[mtx] = op /\ asked = p /\ ~answer.done
      /\ \A j \in DOMAIN t : t[j].op # "shutdown" => 1 = j
  BY <1>1, <1>2 DEF SharedInvariant, OneCallAtATime
<1>4. /\ Tail(t) \in Seq(Task)
      /\ \A i \in DOMAIN Tail(t) : i + 1 \in DOMAIN t /\ i + 1 # 1 /\ Tail(t)[i] = t[i + 1]
  BY <1>1
<1>5. \A i \in DOMAIN Tail(t) : Tail(t)[i].op = "shutdown"
  BY <1>3, <1>4
<1>6. \A q \in Pollers : q # p => \A i \in DOMAIN poller_tasks[q] : poller_tasks[q][i].op = "shutdown"
  BY <1>3 DEF SharedInvariant, OneCallAtATime
<1>7. /\ poller_tasks'[p] = Tail(t)
      /\ \A q \in Pollers : q # p => poller_tasks'[q] = poller_tasks[q]
  BY DEF SharedInvariant, TypeOK
<1>8. OnlyShutdowns(poller_tasks')
  BY ZenonT(40), <1>5, <1>6, <1>7 DEF OnlyShutdowns
<1>9. poller_tasks' \in [Pollers -> Seq(Task)]
  BY <1>4 DEF SharedInvariant, TypeOK
<1> QED BY <1>2, <1>3, <1>8, <1>9

\* What is behind the first task of a queue.
LEMMA TailIsRest ==
    ASSUME NEW t \in Seq(Task), t # <<>>
    PROVE  /\ Tail(t) \in Seq(Task)
           /\ \A i \in DOMAIN Tail(t) : i + 1 \in DOMAIN t /\ Tail(t)[i] = t[i + 1] /\ i \in Nat
  OBVIOUS

\* The mutex stays with the one thread that waits.
LEMMA CallKept ==
    ASSUME SharedInvariant, OnlyShutdowns(poller_tasks'),
           UNCHANGED <<pc, mtx, running, exited>>
    PROVE  OneCallAtATime'
  BY DEF SharedInvariant, OneCallAtATime, OnlyShutdowns

(***************************************************************************)
(* The channels' steps                                                      *)
(***************************************************************************)
\* Append of a task to poller p's queue.
LEMMA Appended ==
    ASSUME SharedInvariant, NEW p \in Pollers, NEW x \in Task,
           poller_tasks' = [poller_tasks EXCEPT ![p] = Append(@, x)]
    PROVE  /\ poller_tasks' \in [Pollers -> Seq(Task)]
           /\ \A q \in Pollers : q # p => poller_tasks'[q] = poller_tasks[q]
           /\ \A i \in DOMAIN poller_tasks'[p] :
                 \/ i \in DOMAIN poller_tasks[p] /\ poller_tasks'[p][i] = poller_tasks[p][i]
                 \/ i = Len(poller_tasks[p]) + 1 /\ poller_tasks'[p][i] = x
<1>1. poller_tasks[p] \in Seq(Task)
  BY DEF SharedInvariant, TypeOK
<1>2. poller_tasks'[p] = Append(poller_tasks[p], x)
  BY DEF SharedInvariant, TypeOK
<1>3. Append(poller_tasks[p], x) \in Seq(Task)
  BY <1>1
<1>4. \A i \in DOMAIN Append(poller_tasks[p], x) :
         \/ i \in DOMAIN poller_tasks[p] /\ Append(poller_tasks[p], x)[i] = poller_tasks[p][i]
         \/ i = Len(poller_tasks[p]) + 1 /\ Append(poller_tasks[p], x)[i] = x
  BY <1>1
<1> QED BY <1>2, <1>3, <1>4 DEF SharedInvariant, TypeOK

LEMMA GetWorkerStep ==
    ASSUME ConstantsOK, SharedInvariant, NEW c \in Channels, GetWorker(c)
    PROVE  SharedInvariant'
<1> DEFINE p == next_poller_id  x == [op |-> "get", c |-> c]
<1>1. /\ pc[c] = "none" /\ mtx = NoChannel /\ next_poller_id' = (p + 1) % PollerNum
      /\ UNCHANGED <<worker_of, reqs, poller_by_worker, workers, running, exited, uninit, stuck>>
  BY DEF GetWorker
<1>2. p \in Pollers /\ next_poller_id' \in Pollers /\ c # NoChannel
  BY <1>1, NextPoller DEF SharedInvariant, TypeOK, ConstantsOK
<1>3. OnlyShutdowns(poller_tasks) /\ \A d \in Channels : pc[d] \notin {"get", "return"}
  BY <1>1, NobodyAsks DEF SharedInvariant, OneCallAtATime, ConstantsOK
<1>4. InUse' = InUse /\ (AllRun' <=> AllRun)
  BY <1>1 DEF InUse, AllRun
<1>5. CASE running[p]
  <2>1. /\ poller_tasks' = [poller_tasks EXCEPT ![p] = Append(@, x)]
        /\ asked' = p /\ answer' = NoAnswer /\ mtx' = c /\ pc' = [pc EXCEPT ![c] = "get"]
    BY <1>5 DEF GetWorker, Ask
  <2>2. x \in Task
    BY DEF Task
  <2>3. /\ pc'[c] = "get" /\ \A d \in Channels : d # c => pc'[d] = pc[d]
        /\ pc' \in [Channels -> {"none", "get", "open", "return", "closed", "failed"}]
    BY <2>1 DEF SharedInvariant, TypeOK
  <2>4. TypeOK'
    BY Zenon, <1>1, <1>2, <2>1, <2>2, <2>3, Appended DEF SharedInvariant, TypeOK, NoAnswer
  <2>5. OneCallAtATime'
    <3>1. \A d \in Channels : pc'[d] \in {"get", "return"} <=> mtx' = d
      BY <1>3, <2>1, <2>3
    <3>2. ASSUME NEW q \in Pollers, NEW i \in DOMAIN poller_tasks'[q],
                 poller_tasks'[q][i].op # "shutdown"
          PROVE  q = p /\ i = Len(poller_tasks[p]) + 1 /\ poller_tasks'[q][i] = x
      BY <1>2, <1>3, <2>1, <2>2, <3>2, Appended DEF OnlyShutdowns
    <3>3. \A q \in Pollers : running'[q] \/ exited'[q]
      BY <1>1 DEF SharedInvariant, OneCallAtATime
    <3>4. answer'.done = FALSE
      BY <2>1 DEF NoAnswer
    <3> QED BY <2>1, <2>3, <3>1, <3>2, <3>3, <3>4 DEF OneCallAtATime
  <2>6. AddressesUnique' /\ NoRequestsYet'
    BY <1>1, <2>3 DEF SharedInvariant, AddressesUnique, NoRequestsYet
  <2>7. HoldersReach'
    BY <1>1, <1>3, <1>4, <2>1, <2>3
    DEF SharedInvariant, HoldersReach, HasWorker, NoAnswer
  <2>8. MapFollows'
    BY Zenon, <1>1, <1>4, <2>1, <2>3 DEF SharedInvariant, MapFollows, ConstantsOK
  <2>9. RefCountsExact'
    <3>1. ASSUME NEW a PROVE Holders(a)' = Holders(a)
      BY <1>1, <1>3, <2>1, <2>3 DEF Holders, NoAnswer
    <3> QED BY <1>1, <1>4, <3>1 DEF SharedInvariant, RefCountsExact
  <2>10. RequestsAreInWorkers'
    BY <1>1, <1>4 DEF SharedInvariant, RequestsAreInWorkers
  <2> QED BY <2>4, <2>5, <2>6, <2>7, <2>8, <2>9, <2>10 DEF SharedInvariant
<1>6. CASE ~running[p]
  <2>1. pc' = [pc EXCEPT ![c] = "failed"] /\ UNCHANGED <<poller_tasks, asked, answer, mtx>>
    BY <1>6 DEF GetWorker
  <2>2. /\ pc'[c] = "failed" /\ \A d \in Channels : d # c => pc'[d] = pc[d]
        /\ pc' \in [Channels -> {"none", "get", "open", "return", "closed", "failed"}]
    BY <2>1 DEF SharedInvariant, TypeOK
  <2>3. TypeOK'
    BY Zenon, <1>1, <1>2, <2>1, <2>2 DEF SharedInvariant, TypeOK
  <2>4. OneCallAtATime'
    BY <1>1, <1>2, <1>3, <2>1, <2>2 DEF SharedInvariant, OneCallAtATime, OnlyShutdowns
  <2>5. AddressesUnique' /\ NoRequestsYet'
    BY <1>1, <2>2 DEF SharedInvariant, AddressesUnique, NoRequestsYet
  <2>6. HoldersReach'
    BY <1>1, <1>4, <2>1, <2>2 DEF SharedInvariant, HoldersReach, HasWorker
  <2>7. MapFollows'
    BY Zenon, <1>1, <1>4, <2>1, <2>2 DEF SharedInvariant, MapFollows, ConstantsOK
  <2>8. RefCountsExact'
    <3>1. ASSUME NEW a PROVE Holders(a)' = Holders(a)
      BY <1>1, <2>1, <2>2 DEF Holders
    <3> QED BY <1>1, <1>4, <3>1 DEF SharedInvariant, RefCountsExact
  <2>9. RequestsAreInWorkers'
    BY <1>1, <1>4 DEF SharedInvariant, RequestsAreInWorkers
  <2> QED BY <2>3, <2>4, <2>5, <2>6, <2>7, <2>8, <2>9 DEF SharedInvariant
<1> QED BY <1>5, <1>6

LEMMA GotWorkerStep ==
    ASSUME ConstantsOK, SharedInvariant, NEW c \in Channels, GotWorker(c)
    PROVE  SharedInvariant'
<1>1. /\ pc[c] = "get" /\ answer.done /\ mtx' = NoChannel
      /\ UNCHANGED <<reqs, next_poller_id, asked, answer, poller_tasks, workers, running, exited, uninit, stuck>>
  BY DEF GotWorker
<1>2. /\ mtx = c /\ c # NoChannel /\ OnlyShutdowns(poller_tasks)
      /\ \A d \in Channels : d # c => pc[d] \notin {"get", "return"}
  BY <1>1, NobodyAsks DEF SharedInvariant, OneCallAtATime, ConstantsOK
<1>3. InUse' = InUse /\ (AllRun' <=> AllRun)
  BY <1>1 DEF InUse, AllRun
<1>4. RequestsAreInWorkers' <=> (\A d \in Channels : reqs[d] > 0 => worker_of'[d] \in InUse)
  BY <1>1, <1>3 DEF RequestsAreInWorkers
<1>5. reqs[c] = 0
  BY <1>1 DEF SharedInvariant, NoRequestsYet
<1>6. CASE answer.worker = NoAddr
  <2>1. pc' = [pc EXCEPT ![c] = "failed"] /\ UNCHANGED <<worker_of, poller_by_worker>>
    BY <1>6 DEF GotWorker
  <2>2. /\ pc'[c] = "failed" /\ \A d \in Channels : d # c => pc'[d] = pc[d]
        /\ pc' \in [Channels -> {"none", "get", "open", "return", "closed", "failed"}]
    BY <2>1 DEF SharedInvariant, TypeOK
  <2>3. TypeOK'
    BY <1>1, <2>1, <2>2 DEF SharedInvariant, TypeOK
  <2>4. OneCallAtATime'
    BY Zenon, <1>1, <1>2, <2>2 DEF SharedInvariant, OneCallAtATime, OnlyShutdowns, ConstantsOK
  <2>5. AddressesUnique' /\ NoRequestsYet'
    BY <1>1, <2>1, <2>2 DEF SharedInvariant, AddressesUnique, NoRequestsYet
  <2>6. HoldersReach'
    BY <1>1, <1>2, <1>3, <2>1, <2>2 DEF SharedInvariant, HoldersReach, HasWorker
  <2>7. MapFollows'
    <3>1. \A q \in Pollers : \A w \in workers[q] : w.worker # NoAddr
      BY DEF SharedInvariant, TypeOK, Worker, ConstantsOK
    <3> QED BY Zenon, <1>1, <1>2, <1>3, <1>6, <2>1, <3>1 DEF SharedInvariant, MapFollows
  <2>8. RefCountsExact'
    <3>1. ASSUME NEW a \in Addrs PROVE Holders(a)' = Holders(a)
      BY <1>1, <1>2, <1>6, <2>1, <2>2 DEF Holders, ConstantsOK
    <3>2. \A q \in Pollers : \A w \in workers[q] : w.worker \in Addrs
      BY DEF SharedInvariant, TypeOK, Worker
    <3> QED BY Zenon, <1>1, <1>3, <3>1, <3>2 DEF SharedInvariant, RefCountsExact
  <2>9. RequestsAreInWorkers'
    BY <1>4, <2>1 DEF SharedInvariant, RequestsAreInWorkers
  <2> QED BY <2>3, <2>4, <2>5, <2>6, <2>7, <2>8, <2>9 DEF SharedInvariant
<1>7. CASE answer.worker # NoAddr
  <2> DEFINE a == answer.worker  new == [worker |-> a, poller |-> asked]
  <2>1. /\ pc' = [pc EXCEPT ![c] = "open"]
        /\ worker_of' = [worker_of EXCEPT ![c] = a]
        /\ poller_by_worker' = {m \in poller_by_worker : m.worker # a} \cup {new}
    BY <1>7 DEF GotWorker
  <2>2. /\ pc'[c] = "open" /\ \A d \in Channels : d # c => pc'[d] = pc[d]
        /\ pc' \in [Channels -> {"none", "get", "open", "return", "closed", "failed"}]
    BY <2>1 DEF SharedInvariant, TypeOK
  <2>3. /\ a \in Addrs /\ asked \in Pollers
        /\ worker_of'[c] = a /\ \A d \in Channels : d # c => worker_of'[d] = worker_of[d]
        /\ worker_of' \in [Channels -> Addrs \cup {NoAddr}]
    BY <1>7, <2>1 DEF SharedInvariant, TypeOK
  <2>4. TypeOK'
    BY <1>1, <2>1, <2>2, <2>3 DEF SharedInvariant, TypeOK
  <2>5. OneCallAtATime'
    BY <1>1, <1>2, <2>2 DEF SharedInvariant, OneCallAtATime, OnlyShutdowns, ConstantsOK
  <2>6. AddressesUnique' /\ NoRequestsYet'
    BY <1>1, <2>1, <2>2 DEF SharedInvariant, AddressesUnique, NoRequestsYet
  <2>7. AllRun => HasWorker(c, a, asked)
    BY Zenon, <1>1, <1>7 DEF SharedInvariant, HoldersReach
  <2>8. ASSUME AllRun, NEW m \in poller_by_worker
        PROVE  \E w \in workers[m.poller] : w.worker = m.worker
    BY <1>1, <1>2, <2>8 DEF SharedInvariant, MapFollows
  <2>9. ASSUME AllRun, NEW q \in Pollers, NEW w \in workers[q], w.worker = a PROVE q = asked
    BY <2>3, <2>7, <2>9 DEF SharedInvariant, AddressesUnique, HasWorker
  <2>10. ASSUME AllRun, NEW m \in poller_by_worker PROVE m \in poller_by_worker'
    <3>1. m \in [worker : Addrs, poller : Pollers]
      BY DEF SharedInvariant, TypeOK
    <3>2. CASE m.worker = a
      <4>1. m.poller = asked
        BY <2>8, <2>9, <2>10, <3>1, <3>2
      <4> QED BY <2>1, <3>1, <3>2, <4>1
    <3> QED BY <2>1, <3>2
  <2>11. HoldersReach'
    <3> SUFFICES ASSUME AllRun, NEW d \in Channels,
                        pc'[d] = "open" \/ (pc'[d] = "return" /\ ~answer.done)
                 PROVE  \E m \in poller_by_worker' :
                            /\ m.worker = worker_of'[d] /\ HasWorker(d, worker_of'[d], m.poller)
                            /\ pc'[d] = "return" => m.poller = asked
      BY <1>1, <1>2, <1>3, <2>2 DEF HoldersReach, HasWorker
    <3>1. CASE d = c
      <4>1. new \in poller_by_worker' /\ new.worker = a /\ new.poller = asked
        BY <2>1
      <4>2. worker_of'[d] = a /\ HasWorker(d, a, asked) /\ pc'[d] # "return"
        BY <2>2, <2>3, <2>7, <3>1
      <4> QED BY <4>1, <4>2, Zenon
    <3>2. CASE d # c
      BY <1>1, <2>2, <2>3, <2>10, <3>2 DEF SharedInvariant, HoldersReach
    <3> QED BY <3>1, <3>2
  <2>12. MapFollows'
    <3> SUFFICES ASSUME AllRun
                 PROVE  /\ \A q \in Pollers : \A w \in workers[q] :
                              [worker |-> w.worker, poller |-> q] \in poller_by_worker'
                        /\ \A m \in poller_by_worker' : \E w \in workers[m.poller] : w.worker = m.worker
      BY <1>1, <1>3 DEF MapFollows
    <3>1. ASSUME NEW q \in Pollers, NEW w \in workers[q]
          PROVE  [worker |-> w.worker, poller |-> q] \in poller_by_worker'
      <4>1. CASE w.worker = a
        BY <2>1, <2>9, <4>1
      <4>2. CASE w.worker # a
        BY <1>1, <2>10, <4>2 DEF SharedInvariant, MapFollows
      <4> QED BY <4>1, <4>2
    <3>2. ASSUME NEW m \in poller_by_worker' PROVE \E w \in workers[m.poller] : w.worker = m.worker
      BY <2>1, <2>7, <2>8 DEF HasWorker
    <3> QED BY <3>1, <3>2
  <2>13. RefCountsExact'
    <3>1. ASSUME NEW b PROVE Holders(b)' = Holders(b)
      BY <1>1, <1>2, <2>2, <2>3 DEF Holders
    <3> QED BY <1>1, <1>3, <3>1 DEF SharedInvariant, RefCountsExact
  <2>14. RequestsAreInWorkers'
    BY <1>4, <1>5, <2>3 DEF SharedInvariant, RequestsAreInWorkers
  <2> QED BY <2>4, <2>5, <2>6, <2>11, <2>12, <2>13, <2>14 DEF SharedInvariant
<1> QED BY <1>6, <1>7

LEMMA SubmitStep ==
    ASSUME ConstantsOK, SharedInvariant, NEW c \in Channels, Submit(c)
    PROVE  SharedInvariant'
<1>1. /\ pc[c] = "open" /\ reqs[c] < MaxReq /\ reqs' = [reqs EXCEPT ![c] = @ + 1]
      /\ UNCHANGED <<pc, worker_of, mtx, next_poller_id, poller_by_worker, asked, answer,
                     poller_tasks, workers, running, exited, uninit, stuck>>
  BY DEF Submit
<1>2. \A d \in Channels : d # c => reqs'[d] = reqs[d]
  BY <1>1 DEF SharedInvariant, TypeOK
<1>3. TypeOK'
  BY <1>1 DEF SharedInvariant, TypeOK, ConstantsOK
<1>4. NoRequestsYet'
  BY <1>1, <1>2 DEF SharedInvariant, NoRequestsYet
<1>5. InUse' = InUse /\ (AllRun' <=> AllRun)
  BY Zenon, <1>1 DEF InUse, AllRun
<1>6. worker_of[c] \in InUse
  BY DEF Submit, InUse
<1>7. RequestsAreInWorkers'
  BY <1>1, <1>2, <1>5, <1>6 DEF SharedInvariant, RequestsAreInWorkers
<1>8. OneCallAtATime' /\ AddressesUnique' /\ HoldersReach' /\ MapFollows'
  <2>1. OneCallAtATime'
    BY Zenon, <1>1 DEF SharedInvariant, OneCallAtATime
  <2>2. AddressesUnique'
    BY <1>1 DEF SharedInvariant, AddressesUnique
  <2>3. HoldersReach'
    BY Zenon, <1>1, <1>5 DEF SharedInvariant, HoldersReach, HasWorker
  <2>4. MapFollows'
    BY Zenon, <1>1, <1>5 DEF SharedInvariant, MapFollows
  <2> QED BY Zenon, <2>1, <2>2, <2>3, <2>4
<1>9. RefCountsExact'
  BY Zenon, <1>1, <1>5 DEF SharedInvariant, RefCountsExact, Holders
<1> QED BY <1>3, <1>4, <1>7, <1>8, <1>9 DEF SharedInvariant

LEMMA ReturnWorkerStep ==
    ASSUME ConstantsOK, SharedInvariant, NEW c \in Channels, ReturnWorker(c)
    PROVE  SharedInvariant'
<1>1. /\ pc[c] = "open" /\ mtx = NoChannel
      /\ UNCHANGED <<worker_of, reqs, next_poller_id, poller_by_worker, workers, running, exited, uninit, stuck>>
  BY DEF ReturnWorker
<1>2. /\ c # NoChannel /\ OnlyShutdowns(poller_tasks)
      /\ \A d \in Channels : pc[d] \notin {"get", "return"}
  BY Zenon, <1>1, NobodyAsks DEF SharedInvariant, OneCallAtATime, ConstantsOK
<1>3. InUse' = InUse /\ (AllRun' <=> AllRun)
  BY Zenon, <1>1 DEF InUse, AllRun
<1>4. AddressesUnique' /\ RequestsAreInWorkers'
  BY <1>1, <1>3 DEF SharedInvariant, AddressesUnique, RequestsAreInWorkers
<1>5. ASSUME NEW m \in poller_by_worker, m.worker = worker_of[c], running[m.poller],
             Ask(c, m.poller, "return"), pc' = [pc EXCEPT ![c] = "return"]
      PROVE  SharedInvariant'
  <2> DEFINE p == m.poller  x == [op |-> "return", c |-> c]
  <2>1. /\ poller_tasks' = [poller_tasks EXCEPT ![p] = Append(@, x)]
        /\ asked' = p /\ answer' = NoAnswer /\ mtx' = c
    BY <1>5 DEF Ask
  <2>2. x \in Task /\ p \in Pollers
    BY DEF Task, SharedInvariant, TypeOK
  <2>3. /\ pc'[c] = "return" /\ \A d \in Channels : d # c => pc'[d] = pc[d]
        /\ pc' \in [Channels -> {"none", "get", "open", "return", "closed", "failed"}]
    BY <1>5 DEF SharedInvariant, TypeOK
  <2>4. TypeOK'
    BY Zenon, <1>1, <2>1, <2>2, <2>3, Appended DEF SharedInvariant, TypeOK, NoAnswer
  <2>5. OneCallAtATime'
    <3>1. \A d \in Channels : pc'[d] \in {"get", "return"} <=> mtx' = d
      BY <1>2, <2>1, <2>3
    <3>2. ASSUME NEW q \in Pollers, NEW i \in DOMAIN poller_tasks'[q],
                 poller_tasks'[q][i].op # "shutdown"
          PROVE  q = p /\ i = Len(poller_tasks[p]) + 1 /\ poller_tasks'[q][i] = x
      BY <1>2, <2>1, <2>2, <3>2, Appended DEF OnlyShutdowns
    <3>3. \A q \in Pollers : running'[q] \/ exited'[q]
      BY <1>1 DEF SharedInvariant, OneCallAtATime
    <3>4. answer'.done = FALSE
      BY <2>1 DEF NoAnswer
    <3> QED BY <2>1, <2>3, <3>1, <3>2, <3>3, <3>4 DEF OneCallAtATime
  <2>6. NoRequestsYet'
    BY <1>1, <2>3 DEF SharedInvariant, NoRequestsYet
  <2>7. HoldersReach'
    <3> SUFFICES ASSUME AllRun, NEW d \in Channels, pc'[d] \in {"open", "return"}
                 PROVE  \E k \in poller_by_worker :
                            /\ k.worker = worker_of[d] /\ HasWorker(d, worker_of[d], k.poller)
                            /\ pc'[d] = "return" => k.poller = asked'
      BY Zenon, <1>1, <1>2, <1>3, <2>1, <2>3 DEF HoldersReach, HasWorker, NoAnswer
    <3>1. PICK k \in poller_by_worker :
             k.worker = worker_of[d] /\ HasWorker(d, worker_of[d], k.poller)
      BY Zenon, <1>1, <1>2, <2>3 DEF SharedInvariant, HoldersReach
    <3>2. d = c => k = m
      BY <1>5, <3>1 DEF SharedInvariant, AddressesUnique
    <3> QED BY Zenon, <1>2, <2>1, <2>3, <3>1, <3>2
  <2>8. MapFollows'
    BY Zenon, <1>1, <1>3, <2>1, <2>3 DEF SharedInvariant, MapFollows, ConstantsOK
  <2>9. RefCountsExact'
    <3>1. ASSUME NEW a PROVE Holders(a)' = Holders(a)
      BY Zenon, <1>1, <1>2, <2>1, <2>3 DEF Holders, NoAnswer
    <3> QED BY <1>1, <1>3, <3>1 DEF SharedInvariant, RefCountsExact
  <2> QED BY <1>4, <2>4, <2>5, <2>6, <2>7, <2>8, <2>9 DEF SharedInvariant
<1>6. ASSUME ~AllRun, pc' = [pc EXCEPT ![c] = "closed"],
             UNCHANGED <<poller_tasks, asked, answer, mtx>>
      PROVE  SharedInvariant'
  <2>1. /\ pc'[c] = "closed" /\ \A d \in Channels : d # c => pc'[d] = pc[d]
        /\ pc' \in [Channels -> {"none", "get", "open", "return", "closed", "failed"}]
    BY <1>6 DEF SharedInvariant, TypeOK
  <2>2. TypeOK'
    BY <1>1, <1>6, <2>1 DEF SharedInvariant, TypeOK
  <2>3. OneCallAtATime'
    BY Zenon, <1>1, <1>2, <1>6, <2>1 DEF SharedInvariant, OneCallAtATime, OnlyShutdowns
  <2>4. NoRequestsYet'
    BY <1>1, <2>1 DEF SharedInvariant, NoRequestsYet
  <2>5. HoldersReach' /\ MapFollows' /\ RefCountsExact'
    BY Zenon, <1>3, <1>6 DEF HoldersReach, MapFollows, RefCountsExact
  <2> QED BY <1>4, <2>2, <2>3, <2>4, <2>5 DEF SharedInvariant
<1>7. ASSUME NEW m \in poller_by_worker, ~running[m.poller] PROVE ~AllRun
  BY Zenon, <1>7 DEF SharedInvariant, OneCallAtATime, AllRun, TypeOK
<1>8. ASSUME \A m \in poller_by_worker : m.worker # worker_of[c] PROVE ~AllRun
  BY Zenon, <1>1, <1>8 DEF SharedInvariant, HoldersReach
<1> QED BY Zenon, <1>5, <1>6, <1>7, <1>8 DEF ReturnWorker

LEMMA ReturnedStep ==
    ASSUME ConstantsOK, SharedInvariant, NEW c \in Channels, Returned(c)
    PROVE  SharedInvariant'
<1>1. /\ pc[c] = "return" /\ answer.done /\ mtx' = NoChannel /\ pc' = [pc EXCEPT ![c] = "closed"]
      /\ poller_by_worker' = IF answer.removed
                             THEN {m \in poller_by_worker : m.worker # worker_of[c]}
                             ELSE poller_by_worker
      /\ UNCHANGED <<worker_of, reqs, next_poller_id, asked, answer, poller_tasks, workers,
                     running, exited, uninit, stuck>>
  BY DEF Returned
<1>2. /\ mtx = c /\ c # NoChannel /\ OnlyShutdowns(poller_tasks)
      /\ \A d \in Channels : d # c => pc[d] \notin {"get", "return"}
  BY Zenon, <1>1, NobodyAsks DEF SharedInvariant, OneCallAtATime, ConstantsOK
<1>3. InUse' = InUse /\ (AllRun' <=> AllRun)
  BY Zenon, <1>1 DEF InUse, AllRun
<1>4. /\ pc'[c] = "closed" /\ \A d \in Channels : d # c => pc'[d] = pc[d]
      /\ pc' \in [Channels -> {"none", "get", "open", "return", "closed", "failed"}]
  BY <1>1 DEF SharedInvariant, TypeOK
<1>5. TypeOK'
  BY <1>1, <1>4 DEF SharedInvariant, TypeOK
<1>6. OneCallAtATime'
  BY Zenon, <1>1, <1>2, <1>4 DEF SharedInvariant, OneCallAtATime, OnlyShutdowns, ConstantsOK
<1>7. AddressesUnique' /\ NoRequestsYet' /\ RequestsAreInWorkers'
  BY <1>1, <1>3, <1>4
  DEF SharedInvariant, AddressesUnique, NoRequestsYet, RequestsAreInWorkers
<1>8. ASSUME AllRun, NEW p \in Pollers, NEW w \in workers[p], answer.removed
      PROVE  w.worker # worker_of[c]
  BY Zenon, <1>1, <1>8 DEF SharedInvariant, HoldersReach, InUse
<1>9. HoldersReach'
  <2>1. \A d \in Channels : pc'[d] # "get" /\ pc'[d] # "return"
    BY Zenon, <1>2, <1>4
  <2>2. ASSUME AllRun, NEW d \in Channels, pc'[d] = "open"
        PROVE  \E m \in poller_by_worker' :
                  m.worker = worker_of'[d] /\ HasWorker(d, worker_of[d], m.poller)'
    <3>1. d # c /\ pc[d] = "open"
      BY <1>4, <2>2
    <3>2. PICK m \in poller_by_worker :
             m.worker = worker_of[d] /\ HasWorker(d, worker_of[d], m.poller)
      BY Zenon, <2>2, <3>1 DEF SharedInvariant, HoldersReach
    <3>3. m.poller \in Pollers
      BY DEF SharedInvariant, TypeOK
    <3>4. answer.removed => m.worker # worker_of[c]
      BY Zenon, <1>8, <2>2, <3>2, <3>3 DEF HasWorker
    <3>5. m \in poller_by_worker'
      BY Zenon, <1>1, <3>4
    <3>6. m.worker = worker_of'[d] /\ HasWorker(d, worker_of[d], m.poller)'
      BY Zenon, <1>1, <3>2 DEF HasWorker
    <3> QED BY Zenon, <3>5, <3>6
  <2> QED BY Zenon, <1>3, <2>1, <2>2 DEF HoldersReach
<1>10. MapFollows'
  <2> SUFFICES ASSUME AllRun
               PROVE  /\ \A q \in Pollers : \A w \in workers[q] :
                            [worker |-> w.worker, poller |-> q] \in poller_by_worker'
                      /\ \A m \in poller_by_worker' : \E w \in workers[m.poller] : w.worker = m.worker
    BY Zenon, <1>1, <1>3 DEF MapFollows
  <2>1. ASSUME NEW q \in Pollers, NEW w \in workers[q]
        PROVE  [worker |-> w.worker, poller |-> q] \in poller_by_worker'
    <3>1. [worker |-> w.worker, poller |-> q] \in poller_by_worker
      BY Zenon, <1>1, <1>2 DEF SharedInvariant, MapFollows
    <3> QED BY <1>1, <1>8, <3>1
  <2>2. ASSUME NEW m \in poller_by_worker' PROVE \E w \in workers[m.poller] : w.worker = m.worker
    BY Zenon, <1>1, <1>2 DEF SharedInvariant, MapFollows
  <2> QED BY <2>1, <2>2
<1>11. RefCountsExact'
  <2>1. ASSUME NEW a PROVE Holders(a)' = Holders(a)
    BY Zenon, <1>1, <1>2, <1>4 DEF Holders
  <2> QED BY Zenon, <1>1, <1>3, <2>1 DEF SharedInvariant, RefCountsExact
<1> QED BY <1>5, <1>6, <1>7, <1>9, <1>10, <1>11 DEF SharedInvariant

(***************************************************************************)
(* The pollers' steps                                                       *)
(***************************************************************************)
\* The holders of any address are finitely many.
LEMMA HoldersFinite ==
    ASSUME ConstantsOK, NEW a
    PROVE  IsFiniteSet(Holders(a)) /\ Cardinality(Holders(a)) \in Nat
<1>1. Holders(a) \subseteq Channels
  BY DEF Holders
<1>2. IsFiniteSet(Holders(a))
  BY <1>1, FS_Subset DEF ConstantsOK
<1> QED BY <1>2, FS_CardinalityType

\* While all pollers run the address of a holder is in use.
LEMMA HeldInUse ==
    ASSUME SharedInvariant, AllRun, NEW d \in Channels, pc[d] = "open"
    PROVE  worker_of[d] \in InUse
<1>1. PICK m \in poller_by_worker : HasWorker(d, worker_of[d], m.poller)
  BY Zenon DEF SharedInvariant, HoldersReach
<1>2. m.poller \in Pollers
  BY DEF SharedInvariant, TypeOK
<1> QED BY <1>1, <1>2 DEF HasWorker, InUse

\* An answer without a worker.
LEMMA GetFailsStep ==
    ASSUME ConstantsOK, SharedInvariant, NEW p \in Pollers, IsNext(p, "get"),
           poller_tasks' = [poller_tasks EXCEPT ![p] = Tail(@)],
           answer' = Answer(NoAddr, FALSE),
           UNCHANGED <<workers, pc, worker_of, reqs, mtx, next_poller_id, poller_by_worker,
                       asked, running, exited, uninit, stuck>>
    PROVE  SharedInvariant'
<1>1. /\ mtx \in Channels /\ pc[mtx] = "get" /\ ~answer.done
      /\ OnlyShutdowns(poller_tasks') /\ poller_tasks' \in [Pollers -> Seq(Task)]
  BY Zenon, TheTask
<1>2. \A d \in Channels : d # mtx => pc[d] \notin {"get", "return"}
  BY Zenon DEF SharedInvariant, OneCallAtATime
<1>3. answer'.done /\ answer'.worker = NoAddr
  BY DEF Answer
<1>4. TypeOK'
  BY Zenon, <1>1 DEF SharedInvariant, TypeOK, Answer
<1>5. OneCallAtATime'
  BY <1>1, CallKept
<1>6. InUse' = InUse /\ (AllRun' <=> AllRun)
  BY Zenon DEF InUse, AllRun
<1>7. AddressesUnique' /\ NoRequestsYet' /\ RequestsAreInWorkers'
  BY <1>6 DEF SharedInvariant, AddressesUnique, NoRequestsYet, RequestsAreInWorkers
<1>8. HoldersReach'
  BY ZenonT(40), <1>1, <1>2, <1>3, <1>6 DEF SharedInvariant, HoldersReach, HasWorker
<1>9. MapFollows'
  BY Zenon, <1>1, <1>6 DEF SharedInvariant, MapFollows
<1>10. RefCountsExact'
  <2>1. ASSUME NEW a \in Addrs PROVE Holders(a)' = Holders(a)
    BY Zenon, <1>1, <1>2, <1>3 DEF Holders, ConstantsOK
  <2>2. \A q \in Pollers : \A w \in workers[q] : w.worker \in Addrs
    BY DEF SharedInvariant, TypeOK, Worker
  <2> QED BY Zenon, <1>6, <2>1, <2>2 DEF SharedInvariant, RefCountsExact
<1> QED BY <1>4, <1>5, <1>7, <1>8, <1>9, <1>10 DEF SharedInvariant

\* A channel with a known option becomes one more user of the worker.
LEMMA GetKnownStep ==
    ASSUME ConstantsOK, SharedInvariant, NEW p \in Pollers, IsNext(p, "get"),
           poller_tasks' = [poller_tasks EXCEPT ![p] = Tail(@)],
           NEW v \in workers[p], v.key = Key[mtx],
           workers' = [workers EXCEPT ![p] = (@ \ {v}) \cup {WithRefs(v, v.ref_cnt + 1)}],
           answer' = Answer(v.worker, FALSE),
           UNCHANGED <<pc, worker_of, reqs, mtx, next_poller_id, poller_by_worker,
                       asked, running, exited, uninit, stuck>>
    PROVE  SharedInvariant'
<1> DEFINE u == WithRefs(v, v.ref_cnt + 1)
<1>1. /\ mtx \in Channels /\ pc[mtx] = "get" /\ ~answer.done /\ asked = p
      /\ OnlyShutdowns(poller_tasks') /\ poller_tasks' \in [Pollers -> Seq(Task)]
  BY Zenon, TheTask
<1>2. \A d \in Channels : d # mtx => pc[d] \notin {"get", "return"}
  BY Zenon DEF SharedInvariant, OneCallAtATime
<1>3. answer'.done /\ answer'.worker = v.worker
  BY Zenon DEF Answer
<1>4. v \in Worker /\ v.worker \in Addrs /\ v.ref_cnt \in Nat
  BY DEF SharedInvariant, TypeOK, Worker
<1>5. u \in Worker /\ u.key = v.key /\ u.worker = v.worker /\ u.ref_cnt = v.ref_cnt + 1
  BY <1>4 DEF Worker, WithRefs
<1> HIDE DEF u
<1>6. /\ workers'[p] = (workers[p] \ {v}) \cup {u}
      /\ \A q \in Pollers : q # p => workers'[q] = workers[q]
      /\ workers' \in [Pollers -> SUBSET Worker]
  BY Zenon, <1>5 DEF SharedInvariant, TypeOK, u
<1>7. \A q \in Pollers :
         /\ \A w \in workers[q] : \E x \in workers'[q] : x.key = w.key /\ x.worker = w.worker
         /\ \A x \in workers'[q] : \E w \in workers[q] : x.key = w.key /\ x.worker = w.worker
  BY Zenon, <1>5, <1>6
<1>8. TypeOK'
  <2>1. \A q \in Pollers : \A x, y \in workers'[q] : x.key = y.key => x = y
    BY <1>5, <1>6 DEF SharedInvariant, TypeOK
  <2> QED BY Zenon, <1>1, <1>4, <1>6, <2>1 DEF SharedInvariant, TypeOK, Answer
<1>9. OneCallAtATime'
  BY Zenon, <1>1, CallKept
<1>10. InUse' = InUse /\ (AllRun' <=> AllRun)
  <2>1. AllRun' <=> AllRun
    BY Zenon DEF AllRun
  <2>2. ASSUME NEW a PROVE a \in InUse' <=> a \in InUse
    <3>1. a \in InUse <=> \E q \in Pollers : \E w \in workers[q] : a = w.worker
      BY Zenon DEF InUse
    <3>2. a \in InUse' <=> \E q \in Pollers : \E w \in workers'[q] : a = w.worker
      BY Zenon DEF InUse
    <3> QED BY <1>7, <3>1, <3>2
  <2> QED BY Zenon, <2>1, <2>2
<1>11. AddressesUnique'
  BY <1>5, <1>6 DEF SharedInvariant, AddressesUnique
<1>12. NoRequestsYet' /\ RequestsAreInWorkers'
  BY Zenon, <1>10 DEF SharedInvariant, NoRequestsYet, RequestsAreInWorkers
<1>13. ASSUME NEW d, NEW a, NEW q \in Pollers, HasWorker(d, a, q) PROVE HasWorker(d, a, q)'
  BY <1>7, <1>13 DEF HasWorker
<1>14. HoldersReach'
  <2> SUFFICES ASSUME AllRun, NEW d \in Channels
               PROVE  /\ pc[d] = "open" =>
                            \E m \in poller_by_worker :
                                m.worker = worker_of[d] /\ HasWorker(d, worker_of[d], m.poller)'
                      /\ pc[d] = "get" => HasWorker(d, v.worker, p)'
    BY Zenon, <1>1, <1>2, <1>3, <1>10 DEF HoldersReach
  <2>1. CASE pc[d] = "open"
    <3>1. PICK m \in poller_by_worker :
             m.worker = worker_of[d] /\ HasWorker(d, worker_of[d], m.poller)
      BY Zenon, <2>1 DEF SharedInvariant, HoldersReach
    <3>2. m.poller \in Pollers
      BY Zenon DEF SharedInvariant, TypeOK
    <3> QED BY Zenon, <1>13, <2>1, <3>1, <3>2
  <2>2. CASE pc[d] = "get"
    <3>1. d = mtx
      BY Zenon, <1>2, <2>2
    <3> QED BY Zenon, <1>5, <1>6, <2>2, <3>1 DEF HasWorker
  <2> QED BY Zenon, <2>1, <2>2
<1>15. MapFollows'
  <2> SUFFICES ASSUME AllRun
               PROVE  /\ \A q \in Pollers : \A x \in workers'[q] :
                            [worker |-> x.worker, poller |-> q] \in poller_by_worker
                      /\ \A m \in poller_by_worker : \E x \in workers'[m.poller] : x.worker = m.worker
    BY Zenon, <1>10 DEF MapFollows
  <2>1. \A q \in Pollers : \A w \in workers[q] : [worker |-> w.worker, poller |-> q] \in poller_by_worker
    BY Zenon, <1>1 DEF SharedInvariant, MapFollows
  <2>2. \A m \in poller_by_worker : m.poller \in Pollers /\ \E w \in workers[m.poller] : w.worker = m.worker
    BY Zenon, <1>1 DEF SharedInvariant, MapFollows, TypeOK
  <2>3. ASSUME NEW q \in Pollers, NEW x \in workers'[q]
        PROVE  [worker |-> x.worker, poller |-> q] \in poller_by_worker
    <3>1. PICK w \in workers[q] : x.worker = w.worker
      BY ZenonT(40), <1>7
    <3> QED BY Zenon, <2>1, <3>1
  <2>4. ASSUME NEW m \in poller_by_worker
        PROVE  \E x \in workers'[m.poller] : x.worker = m.worker
    <3>1. PICK w \in workers[m.poller] : w.worker = m.worker
      BY Zenon, <2>2
    <3>2. m.poller \in Pollers
      BY Zenon, <2>2
    <3>3. PICK x \in workers'[m.poller] : x.worker = w.worker
      BY ZenonT(40), <1>7, <3>1, <3>2
    <3> QED BY Zenon, <3>1, <3>3
  <2> QED BY Zenon, <2>3, <2>4
<1>16. RefCountsExact'
  <2> SUFFICES ASSUME AllRun, NEW q \in Pollers, NEW x \in workers'[q]
               PROVE  x.ref_cnt = Cardinality(Holders(x.worker)')
    BY Zenon, <1>10 DEF RefCountsExact
  <2>1. mtx \notin Holders(v.worker) /\ Holders(v.worker)' = Holders(v.worker) \cup {mtx}
    BY Zenon, <1>1, <1>2, <1>3 DEF Holders
  <2>2. ASSUME NEW a, a # v.worker PROVE Holders(a)' = Holders(a)
    BY Zenon, <1>1, <1>2, <1>3, <2>2 DEF Holders
  <2>3. CASE q = p /\ x = u
    <3>1. Cardinality(Holders(v.worker)') = Cardinality(Holders(v.worker)) + 1
      BY Zenon, <2>1, HoldersFinite, FS_AddElement
    <3>2. v.ref_cnt = Cardinality(Holders(v.worker))
      BY Zenon DEF SharedInvariant, RefCountsExact
    <3> QED BY Zenon, <1>5, <2>3, <3>1, <3>2
  <2>4. CASE ~(q = p /\ x = u)
    <3>1. x \in workers[q] /\ ~(q = p /\ x = v)
      BY Zenon, <1>6, <2>4
    <3>2. x.worker # v.worker
      BY Zenon, <3>1 DEF SharedInvariant, AddressesUnique
    <3>3. x.ref_cnt = Cardinality(Holders(x.worker))
      BY Zenon, <3>1 DEF SharedInvariant, RefCountsExact
    <3> QED BY Zenon, <2>2, <3>2, <3>3
  <2> QED BY Zenon, <2>3, <2>4
<1> QED BY Zenon, <1>8, <1>9, <1>11, <1>12, <1>14, <1>15, <1>16 DEF SharedInvariant

\* A channel with a new option gets a worker at an address nobody uses.
LEMMA GetNewStep ==
    ASSUME ConstantsOK, SharedInvariant, NEW p \in Pollers, IsNext(p, "get"),
           poller_tasks' = [poller_tasks EXCEPT ![p] = Tail(@)],
           \A w \in workers[p] : w.key # Key[mtx], NEW a \in Addrs \ InUse,
           workers' = [workers EXCEPT ![p] = @ \cup
                          {[key |-> Key[mtx], worker |-> a, ref_cnt |-> 1]}],
           answer' = Answer(a, FALSE),
           UNCHANGED <<pc, worker_of, reqs, mtx, next_poller_id, poller_by_worker,
                       asked, running, exited, uninit, stuck>>
    PROVE  SharedInvariant'
<1> DEFINE u == [key |-> Key[mtx], worker |-> a, ref_cnt |-> 1]
<1>1. /\ mtx \in Channels /\ pc[mtx] = "get" /\ ~answer.done /\ asked = p
      /\ OnlyShutdowns(poller_tasks') /\ poller_tasks' \in [Pollers -> Seq(Task)]
  BY Zenon, TheTask
<1>2. \A d \in Channels : d # mtx => pc[d] \notin {"get", "return"}
  BY Zenon DEF SharedInvariant, OneCallAtATime
<1>3. answer'.done /\ answer'.worker = a /\ a # NoAddr
  BY Zenon DEF Answer, ConstantsOK
<1>4. u \in Worker /\ u.key = Key[mtx] /\ u.worker = a /\ u.ref_cnt = 1
  BY <1>1 DEF Worker
<1> HIDE DEF u
<1>5. /\ workers'[p] = workers[p] \cup {u}
      /\ \A q \in Pollers : q # p => workers'[q] = workers[q]
      /\ workers' \in [Pollers -> SUBSET Worker]
  BY Zenon, <1>4 DEF SharedInvariant, TypeOK, u
<1>6. \A q \in Pollers : workers[q] \subseteq workers'[q]
  BY <1>5
<1>7. \A q \in Pollers : \A w \in workers[q] : w.worker # a
  BY Zenon DEF InUse
<1>8. TypeOK'
  <2>1. \A q \in Pollers : \A x, y \in workers'[q] : x.key = y.key => x = y
    BY <1>4, <1>5 DEF SharedInvariant, TypeOK
  <2> QED BY Zenon, <1>1, <1>5, <2>1 DEF SharedInvariant, TypeOK, Answer
<1>9. OneCallAtATime'
  BY Zenon, <1>1, CallKept
<1>10. InUse \subseteq InUse' /\ (AllRun' <=> AllRun)
  BY Zenon, <1>6 DEF InUse, AllRun
<1>11. AddressesUnique'
  BY <1>4, <1>5, <1>7 DEF SharedInvariant, AddressesUnique
<1>12. NoRequestsYet' /\ RequestsAreInWorkers'
  BY Zenon, <1>10 DEF SharedInvariant, NoRequestsYet, RequestsAreInWorkers
<1>13. HoldersReach'
  <2> SUFFICES ASSUME AllRun, NEW d \in Channels
               PROVE  /\ pc[d] = "open" =>
                            \E m \in poller_by_worker :
                                m.worker = worker_of[d] /\ HasWorker(d, worker_of[d], m.poller)'
                      /\ pc[d] = "get" => HasWorker(d, a, p)'
    BY Zenon, <1>1, <1>2, <1>3, <1>10 DEF HoldersReach
  <2>1. CASE pc[d] = "open"
    <3>1. PICK m \in poller_by_worker :
             m.worker = worker_of[d] /\ HasWorker(d, worker_of[d], m.poller)
      BY Zenon, <2>1 DEF SharedInvariant, HoldersReach
    <3>2. m.poller \in Pollers
      BY Zenon DEF SharedInvariant, TypeOK
    <3>3. HasWorker(d, worker_of[d], m.poller)'
      BY Zenon, <1>6, <3>1, <3>2 DEF HasWorker
    <3> QED BY Zenon, <2>1, <3>1, <3>3
  <2>2. CASE pc[d] = "get"
    <3>1. d = mtx
      BY Zenon, <1>2, <2>2
    <3> QED BY Zenon, <1>4, <1>5, <2>2, <3>1 DEF HasWorker
  <2> QED BY Zenon, <2>1, <2>2
<1>14. MapFollows'
  <2> SUFFICES ASSUME AllRun
               PROVE  /\ \A q \in Pollers : \A w \in workers'[q] :
                            \/ [worker |-> w.worker, poller |-> q] \in poller_by_worker
                            \/ a = w.worker /\ p = q
                      /\ \A m \in poller_by_worker : \E w \in workers'[m.poller] : w.worker = m.worker
    BY Zenon, <1>1, <1>3, <1>10 DEF MapFollows
  <2>1. \A q \in Pollers : \A w \in workers[q] : [worker |-> w.worker, poller |-> q] \in poller_by_worker
    BY Zenon, <1>1 DEF SharedInvariant, MapFollows
  <2>2. \A m \in poller_by_worker : m.poller \in Pollers /\ \E w \in workers[m.poller] : w.worker = m.worker
    BY Zenon, <1>1 DEF SharedInvariant, MapFollows, TypeOK
  <2> QED BY ZenonT(40), <1>4, <1>5, <1>6, <2>1, <2>2
<1>15. RefCountsExact'
  <2> SUFFICES ASSUME AllRun, NEW q \in Pollers, NEW x \in workers'[q]
               PROVE  x.ref_cnt = Cardinality(Holders(x.worker)')
    BY Zenon, <1>10 DEF RefCountsExact
  <2>1. Holders(a)' = {mtx}
    <3>1. ASSUME NEW d \in Channels, pc[d] = "open" PROVE worker_of[d] # a
      BY Zenon, <3>1, HeldInUse
    <3> QED BY Zenon, <1>1, <1>2, <1>3, <3>1 DEF Holders
  <2>2. ASSUME NEW b, b # a PROVE Holders(b)' = Holders(b)
    BY Zenon, <1>1, <1>2, <1>3, <2>2 DEF Holders
  <2>3. CASE q = p /\ x = u
    BY Zenon, <1>4, <2>1, <2>3, FS_Singleton
  <2>4. CASE ~(q = p /\ x = u)
    <3>1. x \in workers[q]
      BY Zenon, <1>5, <2>4
    <3>2. x.ref_cnt = Cardinality(Holders(x.worker))
      BY Zenon, <3>1 DEF SharedInvariant, RefCountsExact
    <3> QED BY Zenon, <1>7, <2>2, <3>1, <3>2
  <2> QED BY Zenon, <2>3, <2>4
<1> QED BY <1>8, <1>9, <1>11, <1>12, <1>13, <1>14, <1>15 DEF SharedInvariant

LEMMA GetOrNewWorkerStep ==
    ASSUME ConstantsOK, SharedInvariant, NEW p \in Pollers, GetOrNewWorker(p)
    PROVE  SharedInvariant'
<1>1. /\ IsNext(p, "get") /\ poller_tasks' = [poller_tasks EXCEPT ![p] = Tail(@)]
      /\ UNCHANGED <<pc, worker_of, reqs, mtx, next_poller_id, poller_by_worker, asked,
                     running, exited, uninit, stuck>>
  BY Zenon DEF GetOrNewWorker
<1>2. Head(poller_tasks[p]).c = mtx
  BY Zenon, <1>1, TheTask
<1>3. \/ UNCHANGED workers /\ answer' = Answer(NoAddr, FALSE)
      \/ \E v \in workers[p] :
            /\ v.key = Key[mtx] /\ answer' = Answer(v.worker, FALSE)
            /\ workers' = [workers EXCEPT ![p] = (@ \ {v}) \cup {WithRefs(v, v.ref_cnt + 1)}]
      \/ /\ \A w \in workers[p] : w.key # Key[mtx]
         /\ \E a \in Addrs \ InUse :
               /\ workers' = [workers EXCEPT ![p] = @ \cup
                                 {[key |-> Key[mtx], worker |-> a, ref_cnt |-> 1]}]
               /\ answer' = Answer(a, FALSE)
  BY Zenon, <1>2 DEF GetOrNewWorker
<1> QED BY Zenon, <1>1, <1>3, GetFailsStep, GetKnownStep, GetNewStep

\* A reference is given back and others remain, or there was none to give back.
\* Another count in a worker leaves addresses unique.
LEMMA StillUnique ==
    ASSUME NEW W, NEW W2, NEW p \in Pollers, NEW v \in W[p], NEW u, u.worker = v.worker,
           W2[p] = (W[p] \ {v}) \cup {u}, \A q \in Pollers : q # p => W2[q] = W[q],
           \A q, s \in Pollers : \A a \in W[q], b \in W[s] : a.worker = b.worker => q = s /\ a = b
    PROVE  \A q, s \in Pollers : \A a \in W2[q], b \in W2[s] : a.worker = b.worker => q = s /\ a = b
<1> SUFFICES ASSUME NEW q \in Pollers, NEW s \in Pollers, NEW a \in W2[q], NEW b \in W2[s],
                    a.worker = b.worker
             PROVE  q = s /\ a = b
  OBVIOUS
<1>1. (a \in W[q] /\ (q = p => a # v)) \/ (q = p /\ a = u)
  OBVIOUS
<1>2. (b \in W[s] /\ (s = p => b # v)) \/ (s = p /\ b = u)
  OBVIOUS
<1>3. CASE a \in W[q] /\ (q = p => a # v) /\ b \in W[s] /\ (s = p => b # v)
  BY <1>3
<1>4. CASE a \in W[q] /\ (q = p => a # v) /\ s = p /\ b = u
  <2>1. a.worker = v.worker
    BY <1>4
  <2> QED BY <1>4, <2>1
<1>5. CASE q = p /\ a = u /\ b \in W[s] /\ (s = p => b # v)
  <2>1. b.worker = v.worker
    BY <1>5
  <2> QED BY <1>5, <2>1
<1>6. CASE q = p /\ a = u /\ s = p /\ b = u
  BY Zenon, <1>6
<1> QED BY Zenon, <1>1, <1>2, <1>3, <1>4, <1>5, <1>6

LEMMA UniqueNext ==
    ASSUME AddressesUnique, UNCHANGED poller_by_worker,
           NEW p \in Pollers, NEW v \in workers[p], NEW u, u.worker = v.worker,
           workers'[p] = (workers[p] \ {v}) \cup {u},
           \A q \in Pollers : q # p => workers'[q] = workers[q]
    PROVE  AddressesUnique'
<1>1. \A q, s \in Pollers : \A a \in workers[q], b \in workers[s] :
         a.worker = b.worker => q = s /\ a = b
  BY Zenon DEF AddressesUnique
<1>2. \A q, s \in Pollers : \A a \in workers'[q], b \in workers'[s] :
         a.worker = b.worker => q = s /\ a = b
  BY <1>1, StillUnique
<1> QED BY <1>2 DEF AddressesUnique

\* What the poller's answer to a return leaves alone, whatever it answers.
AnswersReturn(p) ==
    /\ p \in Pollers /\ mtx \in Channels /\ pc[mtx] = "return" /\ ~answer.done /\ asked = p
    /\ OneCallAtATime' /\ poller_tasks' \in [Pollers -> Seq(Task)]
    /\ answer' \in [done : BOOLEAN, worker : Addrs \cup {NoAddr}, removed : BOOLEAN]
    /\ answer'.done /\ answer'.worker = NoAddr
    /\ uninit' \in [Pollers -> SUBSET Addrs]
    /\ UNCHANGED <<pc, worker_of, reqs, mtx, next_poller_id, poller_by_worker, asked,
                   running, exited, stuck>>

\* Worker v of poller p becomes u, with one reference less.
LosesReference(p, v, u) ==
    /\ AnswersReturn(p) /\ ~answer'.removed
    /\ v \in workers[p] /\ v.worker = worker_of[mtx]
    /\ u \in Worker /\ u.key = v.key /\ u.worker = v.worker /\ u.ref_cnt = v.ref_cnt - 1
    /\ workers'[p] = (workers[p] \ {v}) \cup {u}
    /\ \A q \in Pollers : q # p => workers'[q] = workers[q]
    /\ workers' \in [Pollers -> SUBSET Worker]

\* Worker v of poller p goes, its requests finished.
LosesWorker(p, v) ==
    /\ AnswersReturn(p) /\ answer'.removed
    /\ v \in workers[p] /\ v.worker = worker_of[mtx] /\ v.ref_cnt = 1
    /\ workers'[p] = workers[p] \ {v}
    /\ \A q \in Pollers : q # p => workers'[q] = workers[q]
    /\ workers' \in [Pollers -> SUBSET Worker]
    /\ Finished(v.worker)

LEMMA ReturnKeepsStep ==
    ASSUME ConstantsOK, SharedInvariant, NEW p, NEW v, NEW u, LosesReference(p, v, u)
    PROVE  SharedInvariant'
<1> USE DEF AnswersReturn, LosesReference
<1>1. \A d \in Channels : d # mtx => pc[d] \notin {"get", "return"}
  BY Zenon DEF SharedInvariant, OneCallAtATime
<1>2. AllRun' <=> AllRun
  BY Zenon DEF AllRun
<1>3. \A q \in Pollers :
         /\ \A w \in workers[q] : \E x \in workers'[q] : x.key = w.key /\ x.worker = w.worker
         /\ \A x \in workers'[q] : \E w \in workers[q] : x.key = w.key /\ x.worker = w.worker
  BY Zenon
<1>4. TypeOK'
  <2>1. ASSUME NEW q \in Pollers, NEW x \in workers'[q], NEW y \in workers'[q], x.key = y.key
        PROVE  x = y
    <3>1. \A a, b \in workers[q] : a.key = b.key => a = b
      BY Zenon DEF SharedInvariant, TypeOK
    <3>2. CASE q # p
      BY Zenon, <2>1, <3>1, <3>2
    <3>3. CASE q = p
      <4>1. (x \in workers[p] /\ x # v) \/ x = u
        BY Zenon, <3>3
      <4>2. (y \in workers[p] /\ y # v) \/ y = u
        BY Zenon, <3>3
      <4> QED BY ZenonT(40), <2>1, <3>1, <3>3, <4>1, <4>2
    <3> QED BY Zenon, <3>2, <3>3
  <2> QED BY Zenon, <2>1 DEF SharedInvariant, TypeOK
<1>5. InUse' = InUse
  <2>1. ASSUME NEW a PROVE a \in InUse' <=> a \in InUse
    <3>1. a \in InUse <=> \E q \in Pollers : \E w \in workers[q] : a = w.worker
      BY DEF InUse
    <3>2. a \in InUse' <=> \E q \in Pollers : \E w \in workers'[q] : a = w.worker
      BY DEF InUse
    <3>3. ASSUME a \in InUse PROVE a \in InUse'
      <4>1. PICK q \in Pollers : \E w \in workers[q] : a = w.worker
        BY Zenon, <3>1, <3>3
      <4>2. PICK w \in workers[q] : a = w.worker
        BY Zenon, <4>1
      <4>3. PICK x \in workers'[q] : x.worker = w.worker
        BY Zenon, <1>3
      <4>4. a = x.worker
        BY Zenon, <4>2, <4>3
      <4> QED BY Zenon, <3>2, <4>4
    <3>4. ASSUME a \in InUse' PROVE a \in InUse
      <4>1. PICK q \in Pollers : \E w \in workers'[q] : a = w.worker
        BY Zenon, <3>2, <3>4
      <4>2. PICK w \in workers'[q] : a = w.worker
        BY Zenon, <4>1
      <4>3. PICK x \in workers[q] : w.worker = x.worker
        BY Zenon, <1>3
      <4>4. a = x.worker
        BY Zenon, <4>2, <4>3
      <4> QED BY Zenon, <3>1, <4>4
    <3> QED BY Zenon, <3>3, <3>4
  <2> QED BY Zenon, <2>1
<1>6. AddressesUnique'
  <2>1. AddressesUnique /\ UNCHANGED poller_by_worker
    BY Zenon DEF SharedInvariant
  <2>2. u.worker = v.worker /\ workers'[p] = (workers[p] \ {v}) \cup {u}
    BY Zenon
  <2>3. \A q \in Pollers : q # p => workers'[q] = workers[q]
    BY Zenon
  <2> QED BY Zenon, <2>1, <2>2, <2>3, UniqueNext
<1>7. NoRequestsYet' /\ RequestsAreInWorkers'
  BY Zenon, <1>2, <1>5 DEF SharedInvariant, NoRequestsYet, RequestsAreInWorkers
<1>8. HoldersReach'
  <2> SUFFICES ASSUME AllRun, NEW d \in Channels, pc[d] = "open"
               PROVE  \E m \in poller_by_worker :
                          m.worker = worker_of[d] /\ HasWorker(d, worker_of[d], m.poller)'
    BY Zenon, <1>1, <1>2 DEF HoldersReach
  <2>1. PICK m \in poller_by_worker :
           m.worker = worker_of[d] /\ HasWorker(d, worker_of[d], m.poller)
    BY Zenon DEF SharedInvariant, HoldersReach
  <2>2. m.poller \in Pollers
    BY Zenon DEF SharedInvariant, TypeOK
  <2>3. HasWorker(d, worker_of[d], m.poller)'
    BY <1>3, <2>1, <2>2 DEF HasWorker
  <2> QED BY Zenon, <2>1, <2>3
<1>9. MapFollows'
  <2> SUFFICES ASSUME AllRun
               PROVE  /\ \A q \in Pollers : \A x \in workers'[q] :
                            [worker |-> x.worker, poller |-> q] \in poller_by_worker
                      /\ \A m \in poller_by_worker : \E x \in workers'[m.poller] : x.worker = m.worker
    BY Zenon, <1>2 DEF MapFollows
  <2>1. \A q \in Pollers : \A w \in workers[q] : [worker |-> w.worker, poller |-> q] \in poller_by_worker
    BY Zenon DEF SharedInvariant, MapFollows
  <2>2. \A m \in poller_by_worker : m.poller \in Pollers /\ \E w \in workers[m.poller] : w.worker = m.worker
    BY Zenon DEF SharedInvariant, MapFollows, TypeOK
  <2>3. ASSUME NEW q \in Pollers, NEW x \in workers'[q]
        PROVE  [worker |-> x.worker, poller |-> q] \in poller_by_worker
    <3>1. PICK w \in workers[q] : x.worker = w.worker
      BY ZenonT(40), <1>3
    <3> QED BY Zenon, <2>1, <3>1
  <2>4. ASSUME NEW m \in poller_by_worker
        PROVE  \E x \in workers'[m.poller] : x.worker = m.worker
    <3>1. PICK w \in workers[m.poller] : w.worker = m.worker
      BY Zenon, <2>2
    <3> QED BY <1>3, <2>2, <3>1
  <2> QED BY Zenon, <2>3, <2>4
<1>10. RefCountsExact'
  <2> SUFFICES ASSUME AllRun, NEW q \in Pollers, NEW x \in workers'[q]
               PROVE  x.ref_cnt = Cardinality(Holders(x.worker)')
    BY Zenon, <1>2 DEF RefCountsExact
  <2>1. mtx \in Holders(v.worker) /\ Holders(v.worker)' = Holders(v.worker) \ {mtx}
    BY Zenon, <1>1 DEF Holders
  <2>2. ASSUME NEW a, a # v.worker PROVE Holders(a)' = Holders(a)
    BY Zenon, <1>1, <2>2 DEF Holders
  <2>3. CASE q = p /\ x = u
    <3>1. Cardinality(Holders(v.worker)') = Cardinality(Holders(v.worker)) - 1
      <4>1. IsFiniteSet(Holders(v.worker))
        BY Zenon, HoldersFinite
      <4>2. Cardinality(Holders(v.worker) \ {mtx}) = Cardinality(Holders(v.worker)) - 1
        BY Zenon, <2>1, <4>1, FS_RemoveElement
      <4> QED BY Zenon, <2>1, <4>2
    <3>2. v.ref_cnt = Cardinality(Holders(v.worker))
      BY Zenon DEF SharedInvariant, RefCountsExact
    <3> QED BY Zenon, <2>3, <3>1, <3>2
  <2>4. CASE ~(q = p /\ x = u)
    <3>1. x \in workers[q] /\ ~(q = p /\ x = v)
      BY Zenon, <2>4
    <3>2. x.worker # v.worker
      BY <3>1 DEF SharedInvariant, AddressesUnique
    <3>3. x.ref_cnt = Cardinality(Holders(x.worker))
      BY Zenon, <3>1 DEF SharedInvariant, RefCountsExact
    <3> QED BY Zenon, <2>2, <3>2, <3>3
  <2> QED BY Zenon, <2>3, <2>4
<1> QED BY Zenon, <1>4, <1>6, <1>7, <1>8, <1>9, <1>10 DEF SharedInvariant

\* The worker is unknown, which happens only after a shutdown.
LEMMA ReturnUnknownStep ==
    ASSUME ConstantsOK, SharedInvariant, NEW p \in Pollers,
           mtx \in Channels, pc[mtx] = "return", ~answer.done, asked = p,
           OneCallAtATime', poller_tasks' \in [Pollers -> Seq(Task)],
           answer' \in [done : BOOLEAN, worker : Addrs \cup {NoAddr}, removed : BOOLEAN],
           answer'.done, answer'.worker = NoAddr,
           UNCHANGED <<pc, worker_of, reqs, mtx, next_poller_id, poller_by_worker,
                       asked, running, exited, uninit, stuck, workers>>,
           \A w \in workers[p] : ~(w.key = Key[mtx] /\ w.worker = worker_of[mtx])
    PROVE  SharedInvariant'
<1>1. AllRun' <=> AllRun
  BY Zenon DEF AllRun
<1>2. ~AllRun
  BY Zenon DEF SharedInvariant, HoldersReach, HasWorker
<1>3. TypeOK'
  BY Zenon DEF SharedInvariant, TypeOK
<1>4. AddressesUnique' /\ NoRequestsYet'
  BY DEF SharedInvariant, AddressesUnique, NoRequestsYet
<1>5. HoldersReach' /\ MapFollows' /\ RefCountsExact'
  BY Zenon, <1>1, <1>2 DEF HoldersReach, MapFollows, RefCountsExact
<1>6. RequestsAreInWorkers'
  BY Zenon DEF SharedInvariant, RequestsAreInWorkers, InUse
<1> QED BY Zenon, <1>3, <1>4, <1>5, <1>6 DEF SharedInvariant

\* The last reference is given back: the worker goes, with its requests finished.
LEMMA ReturnRemovesStep ==
    ASSUME ConstantsOK, SharedInvariant, NEW p, NEW v, LosesWorker(p, v)
    PROVE  SharedInvariant'
<1> USE DEF AnswersReturn, LosesWorker
<1>2. \A d \in Channels : d # mtx => pc[d] \notin {"get", "return"}
  BY Zenon DEF SharedInvariant, OneCallAtATime
<1>5. AllRun' <=> AllRun
  BY Zenon DEF AllRun
<1>7. \A q \in Pollers : workers'[q] \subseteq workers[q] /\ \A x \in workers'[q] : x.worker # v.worker
  <2>1. \A s \in Pollers : \A x \in workers[s] : x.worker = v.worker => s = p /\ x = v
    BY Zenon DEF SharedInvariant, AddressesUnique
  <2>2. ASSUME NEW q \in Pollers
        PROVE  workers'[q] \subseteq workers[q] /\ \A x \in workers'[q] : x.worker # v.worker
    <3>1. CASE q = p
      BY Zenon, <2>1, <3>1
    <3>2. CASE q # p
      BY Zenon, <2>1, <3>2
    <3> QED BY Zenon, <3>1, <3>2
  <2> QED BY Zenon, <2>2
<1>8. \A q \in Pollers : \A w \in workers[q] : w.worker # v.worker => w \in workers'[q]
  BY Zenon
<1>10. TypeOK'
  <2>2. \A q \in Pollers : \A x, y \in workers'[q] : x.key = y.key => x = y
    BY Zenon, <1>7 DEF SharedInvariant, TypeOK
  <2> QED BY Zenon, <2>2 DEF SharedInvariant, TypeOK
<1>11. AddressesUnique'
  BY <1>7 DEF SharedInvariant, AddressesUnique
<1>12. NoRequestsYet'
  BY Zenon DEF SharedInvariant, NoRequestsYet
<1>13. RequestsAreInWorkers'
  <2> SUFFICES ASSUME NEW d \in Channels, reqs[d] > 0 PROVE worker_of[d] \in InUse'
    BY Zenon DEF RequestsAreInWorkers
  <2>1. worker_of[d] # v.worker
    BY DEF Finished
  <2>2. PICK q \in Pollers : \E w \in workers[q] : w.worker = worker_of[d]
    BY <2>1 DEF SharedInvariant, RequestsAreInWorkers, InUse
  <2>3. \E w \in workers'[q] : w.worker = worker_of[d]
    BY Zenon, <1>8, <2>1, <2>2
  <2> QED BY <2>3 DEF InUse
<1>14. AllRun => Holders(v.worker) = {mtx}
  <2> SUFFICES ASSUME AllRun PROVE Holders(v.worker) = {mtx}
    BY Zenon
  <2>1. mtx \in Holders(v.worker)
    BY Zenon DEF Holders
  <2>2. Cardinality(Holders(v.worker)) = 1
    BY Zenon DEF SharedInvariant, RefCountsExact
  <2>3. \E x : Holders(v.worker) = {x}
    BY Zenon, <2>2, HoldersFinite, FS_Singleton
  <2> QED BY Zenon, <2>1, <2>3
<1>15. HoldersReach'
  <2>1. v.worker \notin InUse'
    <3> SUFFICES ASSUME v.worker \in InUse' PROVE FALSE
      BY Zenon
    <3>1. PICK q \in Pollers : \E w \in workers'[q] : w.worker = v.worker
      BY DEF InUse
    <3> QED BY Zenon, <1>7, <3>1
  <2> SUFFICES ASSUME AllRun, NEW d \in Channels, pc[d] = "open"
               PROVE  \E m \in poller_by_worker :
                          m.worker = worker_of[d] /\ HasWorker(d, worker_of[d], m.poller)'
    BY Zenon, <1>2, <1>5, <2>1 DEF HoldersReach
  <2>2. PICK m \in poller_by_worker :
           m.worker = worker_of[d] /\ HasWorker(d, worker_of[d], m.poller)
    BY Zenon DEF SharedInvariant, HoldersReach
  <2>3. m.poller \in Pollers
    BY Zenon DEF SharedInvariant, TypeOK
  <2>4. worker_of[d] # v.worker
    BY Zenon, <1>14 DEF Holders
  <2>5. HasWorker(d, worker_of[d], m.poller)'
    BY Zenon, <1>8, <2>2, <2>3, <2>4 DEF HasWorker
  <2> QED BY Zenon, <2>2, <2>5
<1>16. MapFollows'
  <2> SUFFICES ASSUME AllRun
               PROVE  /\ \A q \in Pollers : \A x \in workers'[q] :
                            [worker |-> x.worker, poller |-> q] \in poller_by_worker
                      /\ \A m \in poller_by_worker :
                            \/ \E x \in workers'[m.poller] : x.worker = m.worker
                            \/ v.worker = m.worker
    BY Zenon, <1>5 DEF MapFollows
  <2>1. \A q \in Pollers : \A w \in workers[q] : [worker |-> w.worker, poller |-> q] \in poller_by_worker
    BY Zenon DEF SharedInvariant, MapFollows
  <2>2. \A m \in poller_by_worker : m.poller \in Pollers /\ \E w \in workers[m.poller] : w.worker = m.worker
    BY Zenon DEF SharedInvariant, MapFollows, TypeOK
  <2> QED BY Zenon, <1>7, <1>8, <2>1, <2>2
<1>17. RefCountsExact'
  <2> SUFFICES ASSUME AllRun, NEW q \in Pollers, NEW x \in workers'[q]
               PROVE  x.ref_cnt = Cardinality(Holders(x.worker)')
    BY Zenon, <1>5 DEF RefCountsExact
  <2>1. Holders(x.worker)' = Holders(x.worker)
    <3>1. x.worker # v.worker /\ x.worker # NoAddr
      <4>1. x \in Worker
        BY Zenon
      <4>2. x.worker \in Addrs
        BY Zenon, <4>1 DEF Worker
      <4>3. NoAddr \notin Addrs
        BY Zenon DEF ConstantsOK
      <4> QED BY Zenon, <1>7, <4>2, <4>3
    <3>2. ASSUME NEW d \in Channels PROVE d \in Holders(x.worker)' <=> d \in Holders(x.worker)
      BY Zenon, <1>2, <3>1 DEF Holders
    <3> QED BY Zenon, <3>2 DEF Holders
  <2> QED BY ZenonT(40), <1>7, <2>1 DEF SharedInvariant, RefCountsExact
<1> QED BY Zenon, <1>10, <1>11, <1>12, <1>13, <1>15, <1>16, <1>17 DEF SharedInvariant

LEMMA ReturnWorkerInternalStep ==
    ASSUME ConstantsOK, SharedInvariant, NEW p \in Pollers, ReturnWorkerInternal(p)
    PROVE  SharedInvariant'
<1>1. /\ IsNext(p, "return") /\ poller_tasks' = [poller_tasks EXCEPT ![p] = Tail(@)]
      /\ UNCHANGED <<pc, worker_of, reqs, mtx, next_poller_id, poller_by_worker, asked,
                     running, exited, stuck>>
  BY Zenon DEF ReturnWorkerInternal
<1>2. Head(poller_tasks[p]).c = mtx
  BY Zenon, <1>1, TheTask
<1>3. \/ /\ UNCHANGED <<workers, uninit>> /\ answer' = Answer(NoAddr, FALSE)
         /\ \A w \in workers[p] : ~(w.key = Key[mtx] /\ w.worker = worker_of[mtx])
      \/ \E v \in workers[p] :
            /\ v.key = Key[mtx] /\ v.worker = worker_of[mtx]
            /\ \/ /\ v.ref_cnt = 1 /\ workers' = [workers EXCEPT ![p] = @ \ {v}]
                  /\ Finished(v.worker) /\ answer' = Answer(NoAddr, TRUE)
                  /\ uninit' = [uninit EXCEPT ![p] = {}]
               \/ /\ v.ref_cnt # 1 /\ UNCHANGED uninit /\ answer' = Answer(NoAddr, FALSE)
                  /\ workers' = [workers EXCEPT ![p] =
                                    (@ \ {v}) \cup {WithRefs(v, v.ref_cnt - 1)}]
  BY ZenonT(40), <1>2 DEF ReturnWorkerInternal, Found, LastReference
<1>a. /\ mtx \in Channels /\ pc[mtx] = "return" /\ ~answer.done /\ asked = p
      /\ OnlyShutdowns(poller_tasks') /\ poller_tasks' \in [Pollers -> Seq(Task)]
  BY Zenon, <1>1, TheTask
<1>b. OneCallAtATime'
  BY Zenon, <1>1, <1>a, CallKept
<1>c. /\ workers \in [Pollers -> SUBSET Worker] /\ uninit \in [Pollers -> SUBSET Addrs]
  BY Zenon DEF SharedInvariant, TypeOK
<1>4. CASE /\ UNCHANGED <<workers, uninit>> /\ answer' = Answer(NoAddr, FALSE)
           /\ \A w \in workers[p] : ~(w.key = Key[mtx] /\ w.worker = worker_of[mtx])
  <2>1. /\ answer' \in [done : BOOLEAN, worker : Addrs \cup {NoAddr}, removed : BOOLEAN]
        /\ answer'.done /\ answer'.worker = NoAddr
    BY Zenon, <1>4 DEF Answer
  <2> QED BY Zenon, <1>1, <1>4, <1>a, <1>b, <2>1, ReturnUnknownStep
<1>5. ASSUME NEW v \in workers[p], v.key = Key[mtx], v.worker = worker_of[mtx],
             v.ref_cnt = 1, workers' = [workers EXCEPT ![p] = @ \ {v}],
             Finished(v.worker), uninit' = [uninit EXCEPT ![p] = {}],
             answer' = Answer(NoAddr, TRUE)
      PROVE  SharedInvariant'
  <2>1. /\ answer' \in [done : BOOLEAN, worker : Addrs \cup {NoAddr}, removed : BOOLEAN]
        /\ answer'.done /\ answer'.worker = NoAddr /\ answer'.removed
    BY Zenon, <1>5 DEF Answer
  <2>2. /\ workers'[p] = workers[p] \ {v}
        /\ \A q \in Pollers : q # p => workers'[q] = workers[q]
        /\ workers' \in [Pollers -> SUBSET Worker]
    BY Zenon, <1>5, <1>c
  <2>3. uninit' \in [Pollers -> SUBSET Addrs]
    BY Zenon, <1>5, <1>c
  <2>4. AnswersReturn(p)
    BY Zenon, <1>1, <1>a, <1>b, <2>1, <2>3 DEF AnswersReturn
  <2>5. LosesWorker(p, v)
    BY Zenon, <1>5, <2>1, <2>2, <2>4 DEF LosesWorker
  <2> QED BY <2>5, ReturnRemovesStep
<1>6. ASSUME NEW v \in workers[p], v.key = Key[mtx], v.worker = worker_of[mtx],
             v.ref_cnt # 1, UNCHANGED uninit, answer' = Answer(NoAddr, FALSE),
             workers' = [workers EXCEPT ![p] = (@ \ {v}) \cup {WithRefs(v, v.ref_cnt - 1)}]
      PROVE  SharedInvariant'
  <2> DEFINE u == WithRefs(v, v.ref_cnt - 1)
  <2>1. /\ answer' \in [done : BOOLEAN, worker : Addrs \cup {NoAddr}, removed : BOOLEAN]
        /\ answer'.done /\ answer'.worker = NoAddr /\ ~answer'.removed
    BY Zenon, <1>6 DEF Answer
  <2>2. v \in Worker
    BY Zenon, <1>c
  <2>3. v.ref_cnt \in Nat /\ v.ref_cnt > 1
    BY <1>6, <2>2 DEF Worker
  <2>4. u \in Worker /\ u.key = v.key /\ u.worker = v.worker /\ u.ref_cnt = v.ref_cnt - 1
    BY <2>2, <2>3 DEF Worker, WithRefs
  <2> HIDE DEF u
  <2>5. workers' = [workers EXCEPT ![p] = (@ \ {v}) \cup {u}]
    BY Zenon, <1>6 DEF u
  <2>6. /\ workers'[p] = (workers[p] \ {v}) \cup {u}
        /\ \A q \in Pollers : q # p => workers'[q] = workers[q]
        /\ workers' \in [Pollers -> SUBSET Worker]
    BY Zenon, <1>c, <2>4, <2>5
  <2>7. UNCHANGED <<pc, worker_of, reqs, mtx, next_poller_id, poller_by_worker, asked,
                    running, exited, uninit, stuck>>
    BY Zenon, <1>1, <1>6
  <2>8. v.worker = worker_of[mtx]
    BY Zenon, <1>6
  <2>9. AnswersReturn(p)
    BY Zenon, <1>a, <1>b, <1>c, <2>1, <2>7 DEF AnswersReturn
  <2>10. LosesReference(p, v, u)
    BY Zenon, <2>1, <2>4, <2>6, <2>7, <2>8, <2>9 DEF LosesReference
  <2> QED BY Zenon, <2>10, ReturnKeepsStep
<1> QED BY Zenon, <1>3, <1>4, <1>5, <1>6

LEMMA WorkersKept ==
    ASSUME SharedInvariant,
           UNCHANGED <<pc, worker_of, mtx, poller_by_worker, asked, answer, workers, exited>>
    PROVE  /\ InUse' = InUse /\ (AllRun' <=> AllRun)
           /\ AddressesUnique' /\ HoldersReach' /\ MapFollows' /\ RefCountsExact'
<1>1. AddressesUnique /\ HoldersReach /\ MapFollows /\ RefCountsExact
  BY DEF SharedInvariant
<1>2. InUse' = InUse
  BY Zenon DEF InUse
<1>3. AllRun' <=> AllRun
  BY Zenon DEF AllRun
<1>4. AddressesUnique'
  BY <1>1 DEF AddressesUnique
<1>5. ASSUME NEW c, NEW a, NEW p PROVE HasWorker(c, a, p)' <=> HasWorker(c, a, p)
  BY Zenon DEF HasWorker
<1>6. HoldersReach'
  BY Zenon, <1>1, <1>2, <1>3 DEF HoldersReach, HasWorker
<1>7. MapFollows'
  BY Zenon, <1>1, <1>3 DEF MapFollows
<1>8. ASSUME NEW a PROVE Holders(a)' = Holders(a)
  BY Zenon DEF Holders
<1>9. RefCountsExact'
  BY Zenon, <1>1, <1>3, <1>8 DEF RefCountsExact, Holders
<1> QED BY <1>2, <1>3, <1>4, <1>6, <1>7, <1>9

LEMMA CallbackStep ==
    ASSUME ConstantsOK, SharedInvariant, NEW p \in Pollers, NEW c \in Channels, Callback(p, c)
    PROVE  SharedInvariant'
<1>1. /\ reqs[c] > 0 /\ reqs' = [reqs EXCEPT ![c] = @ - 1]
      /\ UNCHANGED <<pc, worker_of, mtx, next_poller_id, poller_by_worker, asked, answer,
                     poller_tasks, workers, running, exited, uninit, stuck>>
  BY Zenon DEF Callback
<1>2. reqs[c] \in 0 .. MaxReq /\ reqs'[c] = reqs[c] - 1 /\ \A d \in Channels : d # c => reqs'[d] = reqs[d]
  BY Zenon, <1>1 DEF SharedInvariant, TypeOK
<1>3. TypeOK'
  BY <1>1 DEF SharedInvariant, TypeOK, ConstantsOK
<1>4. NoRequestsYet'
  BY <1>1, <1>2 DEF SharedInvariant, NoRequestsYet
<1>5. /\ InUse' = InUse /\ (AllRun' <=> AllRun)
      /\ AddressesUnique' /\ HoldersReach' /\ MapFollows' /\ RefCountsExact'
  BY Zenon, <1>1, WorkersKept
<1>6. RequestsAreInWorkers'
  BY Zenon, <1>1, <1>2, <1>5 DEF SharedInvariant, RequestsAreInWorkers
<1>7. OneCallAtATime'
  BY ZenonT(40), <1>1 DEF SharedInvariant, OneCallAtATime
<1> QED BY Zenon, <1>3, <1>4, <1>5, <1>6, <1>7 DEF SharedInvariant

\* Uninit of a worker begins, or its engine becomes fatal: nothing else changes.
LEMMA WaitStep ==
    ASSUME ConstantsOK, SharedInvariant, uninit' \in [Pollers -> SUBSET Addrs],
           stuck' \subseteq Addrs,
           UNCHANGED <<pc, worker_of, reqs, mtx, next_poller_id, poller_by_worker, asked,
                       answer, poller_tasks, workers, running, exited>>
    PROVE  SharedInvariant'
<1>1. /\ InUse' = InUse /\ (AllRun' <=> AllRun)
      /\ AddressesUnique' /\ HoldersReach' /\ MapFollows' /\ RefCountsExact'
  BY Zenon, WorkersKept
<1>2. TypeOK'
  BY Zenon DEF SharedInvariant, TypeOK
<1>3. OneCallAtATime'
  BY ZenonT(40) DEF SharedInvariant, OneCallAtATime
<1>4. NoRequestsYet' /\ RequestsAreInWorkers'
  BY Zenon, <1>1 DEF SharedInvariant, NoRequestsYet, RequestsAreInWorkers
<1> QED BY Zenon, <1>1, <1>2, <1>3, <1>4 DEF SharedInvariant

LEMMA UninitStep ==
    ASSUME ConstantsOK, SharedInvariant, NEW p \in Pollers, Uninit(p)
    PROVE  SharedInvariant'
<1>1. PICK w \in workers[p] : uninit' = [uninit EXCEPT ![p] = @ \cup {w.worker}]
  BY Zenon DEF Uninit
<1>2. w.worker \in Addrs /\ uninit \in [Pollers -> SUBSET Addrs] /\ stuck \subseteq Addrs
  BY DEF SharedInvariant, TypeOK, Worker
<1>3. uninit' \in [Pollers -> SUBSET Addrs]
  BY <1>1, <1>2
<1> QED BY Zenon, <1>2, <1>3, WaitStep DEF Uninit

LEMMA EngineFatalStep ==
    ASSUME ConstantsOK, SharedInvariant, NEW c \in Channels, EngineFatal(c)
    PROVE  SharedInvariant'
<1>1. worker_of[c] \in InUse
  BY DEF SharedInvariant, RequestsAreInWorkers, EngineFatal
<1>2. worker_of[c] \in Addrs
  BY <1>1 DEF SharedInvariant, TypeOK, Worker, InUse
<1>3. stuck' \subseteq Addrs /\ uninit' \in [Pollers -> SUBSET Addrs]
  BY <1>2 DEF EngineFatal, SharedInvariant, TypeOK
<1> QED BY Zenon, <1>3, WaitStep DEF EngineFatal

(***************************************************************************)
(* Reset                                                                    *)
(***************************************************************************)
LEMMA ShutdownInternalStep ==
    ASSUME ConstantsOK, SharedInvariant, NEW p \in Pollers, ShutdownInternal(p)
    PROVE  SharedInvariant'
<1> DEFINE t == poller_tasks[p]
<1>1. /\ IsNext(p, "shutdown") /\ \A w \in workers[p] : Finished(w.worker)
      /\ workers' = [workers EXCEPT ![p] = {}] /\ exited' = [exited EXCEPT ![p] = TRUE]
      /\ uninit' = [uninit EXCEPT ![p] = {}]
      /\ poller_tasks' = [poller_tasks EXCEPT ![p] = Tail(@)]
      /\ UNCHANGED <<pc, worker_of, reqs, mtx, next_poller_id, poller_by_worker, asked, answer,
                     running, stuck>>
  BY Zenon DEF ShutdownInternal
<1>2. t \in Seq(Task) /\ t # <<>>
  BY Zenon, <1>1 DEF SharedInvariant, TypeOK, IsNext
<1>3. /\ Tail(t) \in Seq(Task)
      /\ \A i \in DOMAIN Tail(t) : i + 1 \in DOMAIN t /\ Tail(t)[i] = t[i + 1] /\ i \in Nat
  BY <1>2, TailIsRest
<1>4. /\ poller_tasks'[p] = Tail(t) /\ \A q \in Pollers : q # p => poller_tasks'[q] = poller_tasks[q]
      /\ poller_tasks' \in [Pollers -> Seq(Task)]
  BY Zenon, <1>1, <1>3 DEF SharedInvariant, TypeOK
<1>5. /\ \A q \in Pollers : workers'[q] \subseteq workers[q]
      /\ workers' \in [Pollers -> SUBSET Worker]
  BY Zenon, <1>1 DEF SharedInvariant, TypeOK
<1>6. uninit' \in [Pollers -> SUBSET Addrs]
  BY Zenon, <1>1 DEF SharedInvariant, TypeOK
<1>7. /\ exited' \in [Pollers -> BOOLEAN] /\ exited'[p]
      /\ \A q \in Pollers : exited[q] => exited'[q]
  BY Zenon, <1>1 DEF SharedInvariant, TypeOK
<1>8. TypeOK'
  <2>1. \A q \in Pollers : \A x, y \in workers'[q] : x.key = y.key => x = y
    BY Zenon, <1>5 DEF SharedInvariant, TypeOK
  <2> QED BY Zenon, <1>1, <1>4, <1>5, <1>6, <1>7, <2>1 DEF SharedInvariant, TypeOK
<1>9. OneCallAtATime'
  <2>1. \A d \in Channels : pc'[d] \in {"get", "return"} <=> mtx' = d
    BY Zenon, <1>1 DEF SharedInvariant, OneCallAtATime
  <2>2. ASSUME NEW q \in Pollers, NEW i \in DOMAIN poller_tasks'[q],
               poller_tasks'[q][i].op # "shutdown"
        PROVE  /\ mtx \in Channels /\ poller_tasks'[q][i].c = mtx
               /\ pc[mtx] = poller_tasks'[q][i].op /\ asked = q /\ ~answer.done
               /\ \A j \in DOMAIN poller_tasks'[q] : poller_tasks'[q][j].op # "shutdown" => i = j
    <3>1. CASE q # p
      BY <1>4, <2>2, <3>1 DEF SharedInvariant, OneCallAtATime
    <3>2. CASE q = p
      <4>1. i + 1 \in DOMAIN t /\ poller_tasks'[q][i] = t[i + 1] /\ t[i + 1].op # "shutdown"
        BY Zenon, <1>3, <1>4, <2>2, <3>2
      <4>2. /\ mtx \in Channels /\ t[i + 1].c = mtx
            /\ pc[mtx] = t[i + 1].op /\ asked = p /\ ~answer.done
            /\ \A j \in DOMAIN t : t[j].op # "shutdown" => i + 1 = j
        BY Zenon, <4>1 DEF SharedInvariant, OneCallAtATime
      <4>3. ASSUME NEW j \in DOMAIN poller_tasks'[q], poller_tasks'[q][j].op # "shutdown"
            PROVE  i = j
        <5>1. j + 1 \in DOMAIN t /\ t[j + 1].op # "shutdown" /\ i \in Nat /\ j \in Nat
          BY Zenon, <1>3, <1>4, <2>2, <3>2, <4>3
        <5>2. i + 1 = j + 1
          BY Zenon, <4>2, <5>1
        <5> QED BY <5>1, <5>2
      <4> QED BY Zenon, <3>2, <4>1, <4>2, <4>3
    <3> QED BY Zenon, <3>1, <3>2
  <2>3. \A q \in Pollers : running'[q] \/ exited'[q]
    BY Zenon, <1>1, <1>7 DEF SharedInvariant, OneCallAtATime
  <2> QED BY Zenon, <1>1, <2>1, <2>2, <2>3 DEF OneCallAtATime
<1>10. AddressesUnique'
  BY <1>1, <1>5 DEF SharedInvariant, AddressesUnique
<1>11. NoRequestsYet'
  BY Zenon, <1>1 DEF SharedInvariant, NoRequestsYet
<1>12. ~AllRun'
  BY <1>7 DEF AllRun
<1>13. HoldersReach' /\ MapFollows' /\ RefCountsExact'
  BY Zenon, <1>12 DEF HoldersReach, MapFollows, RefCountsExact
<1>14. RequestsAreInWorkers'
  <2> SUFFICES ASSUME NEW d \in Channels, reqs[d] > 0 PROVE worker_of[d] \in InUse'
    BY Zenon, <1>1 DEF RequestsAreInWorkers
  <2>1. PICK q \in Pollers : \E w \in workers[q] : w.worker = worker_of[d]
    BY DEF SharedInvariant, RequestsAreInWorkers, InUse
  <2>2. q # p
    BY <1>1, <2>1 DEF Finished
  <2>3. workers'[q] = workers[q]
    BY Zenon, <1>1, <2>2 DEF SharedInvariant, TypeOK
  <2> QED BY <2>1, <2>3 DEF InUse
<1> QED BY <1>8, <1>9, <1>10, <1>11, <1>13, <1>14 DEF SharedInvariant

LEMMA ShutdownPushStep ==
    ASSUME ConstantsOK, SharedInvariant, NEW p \in Pollers, ShutdownPush(p)
    PROVE  SharedInvariant'
<1> DEFINE x == [op |-> "shutdown", c |-> NoChannel]
<1>1. /\ poller_tasks' = [poller_tasks EXCEPT ![p] = Append(@, x)]
      /\ UNCHANGED <<pc, worker_of, reqs, mtx, next_poller_id, poller_by_worker, asked,
                     answer, workers, running, exited, uninit, stuck>>
  BY Zenon DEF ShutdownPush
<1>2. x \in Task /\ x.op = "shutdown"
  BY Zenon DEF Task
<1> HIDE DEF x
<1>3. /\ poller_tasks' \in [Pollers -> Seq(Task)]
      /\ \A q \in Pollers : \A i \in DOMAIN poller_tasks'[q] :
            poller_tasks'[q][i].op # "shutdown" =>
                i \in DOMAIN poller_tasks[q] /\ poller_tasks'[q][i] = poller_tasks[q][i]
  <2>1. /\ poller_tasks' \in [Pollers -> Seq(Task)]
        /\ \A q \in Pollers : q # p => poller_tasks'[q] = poller_tasks[q]
        /\ \A i \in DOMAIN poller_tasks'[p] :
              \/ i \in DOMAIN poller_tasks[p] /\ poller_tasks'[p][i] = poller_tasks[p][i]
              \/ i = Len(poller_tasks[p]) + 1 /\ poller_tasks'[p][i] = x
    BY ZenonT(40), <1>1, <1>2, Appended
  <2> QED BY Zenon, <1>2, <2>1
<1>4. TypeOK'
  BY Zenon, <1>1, <1>3 DEF SharedInvariant, TypeOK
<1>5. OneCallAtATime'
  <2>1. ASSUME NEW q \in Pollers, NEW i \in DOMAIN poller_tasks'[q],
               poller_tasks'[q][i].op # "shutdown"
        PROVE  /\ mtx \in Channels /\ poller_tasks'[q][i].c = mtx
               /\ pc[mtx] = poller_tasks'[q][i].op /\ asked = q /\ ~answer.done
               /\ \A j \in DOMAIN poller_tasks'[q] : poller_tasks'[q][j].op # "shutdown" => i = j
    <3>1. /\ i \in DOMAIN poller_tasks[q] /\ poller_tasks'[q][i] = poller_tasks[q][i]
          /\ poller_tasks[q][i].op # "shutdown"
      BY Zenon, <1>3, <2>1
    <3>2. /\ mtx \in Channels /\ poller_tasks[q][i].c = mtx
          /\ pc[mtx] = poller_tasks[q][i].op /\ asked = q /\ ~answer.done
          /\ \A j \in DOMAIN poller_tasks[q] : poller_tasks[q][j].op # "shutdown" => i = j
      BY Zenon, <3>1 DEF SharedInvariant, OneCallAtATime
    <3>3. ASSUME NEW j \in DOMAIN poller_tasks'[q], poller_tasks'[q][j].op # "shutdown" PROVE i = j
      <4>1. j \in DOMAIN poller_tasks[q] /\ poller_tasks[q][j].op # "shutdown"
        BY Zenon, <1>3, <3>3
      <4> QED BY Zenon, <3>2, <4>1
    <3> QED BY Zenon, <3>1, <3>2, <3>3
  <2>2. /\ \A c \in Channels : pc[c] \in {"get", "return"} <=> mtx = c
        /\ \A q \in Pollers : running[q] \/ exited[q]
    BY Zenon DEF SharedInvariant, OneCallAtATime
  <2> QED BY ZenonT(40), <1>1, <2>1, <2>2 DEF OneCallAtATime
<1>6. /\ InUse' = InUse /\ (AllRun' <=> AllRun)
      /\ AddressesUnique' /\ HoldersReach' /\ MapFollows' /\ RefCountsExact'
  BY Zenon, <1>1, WorkersKept
<1>7. NoRequestsYet' /\ RequestsAreInWorkers'
  BY Zenon, <1>1, <1>6 DEF SharedInvariant, NoRequestsYet, RequestsAreInWorkers
<1> QED BY Zenon, <1>4, <1>5, <1>6, <1>7 DEF SharedInvariant

LEMMA ShutdownJoinStep ==
    ASSUME ConstantsOK, SharedInvariant, NEW p \in Pollers, ShutdownJoin(p)
    PROVE  SharedInvariant'
<1>1. /\ exited[p] /\ running' = [running EXCEPT ![p] = FALSE]
      /\ UNCHANGED <<pc, worker_of, reqs, mtx, next_poller_id, poller_by_worker, asked,
                     answer, poller_tasks, workers, exited, uninit, stuck>>
  BY Zenon DEF ShutdownJoin
<1>2. /\ running' \in [Pollers -> BOOLEAN]
      /\ \A q \in Pollers : running'[q] \/ exited'[q]
  BY Zenon, <1>1 DEF SharedInvariant, TypeOK, OneCallAtATime
<1>3. TypeOK' /\ OneCallAtATime'
  <2>1. TypeOK'
    BY Zenon, <1>1, <1>2 DEF SharedInvariant, TypeOK
  <2>2. OneCallAtATime'
    BY <1>1, <1>2 DEF SharedInvariant, OneCallAtATime
  <2> QED BY <2>1, <2>2
<1>4. ~AllRun'
  BY <1>1 DEF AllRun
<1>5. AddressesUnique' /\ NoRequestsYet'
  BY ZenonT(40), <1>1 DEF SharedInvariant, AddressesUnique, NoRequestsYet
<1>6. HoldersReach' /\ MapFollows' /\ RefCountsExact'
  BY Zenon, <1>4 DEF HoldersReach, MapFollows, RefCountsExact
<1>7. RequestsAreInWorkers'
  BY Zenon, <1>1 DEF SharedInvariant, RequestsAreInWorkers, InUse
<1> QED BY Zenon, <1>3, <1>5, <1>6, <1>7 DEF SharedInvariant

(***************************************************************************)
(* The theorems                                                             *)
(***************************************************************************)
LEMMA NextPreserves ==
    ASSUME ConstantsOK, SharedInvariant, [Next]_vars
    PROVE  SharedInvariant'
<1>1. CASE UNCHANGED vars
  <2>1. UNCHANGED <<pc, worker_of, reqs, mtx, next_poller_id, poller_by_worker, asked, answer,
                    poller_tasks, workers, running, exited, uninit, stuck>>
    BY Zenon, <1>1 DEF vars
  <2>2. uninit \in [Pollers -> SUBSET Addrs] /\ stuck \subseteq Addrs
    BY Zenon DEF SharedInvariant, TypeOK
  <2> QED BY Zenon, <2>1, <2>2, WaitStep
<1>2. ASSUME NEW c \in Channels,
             \/ GetWorker(c) \/ GotWorker(c) \/ Submit(c) \/ ReturnWorker(c) \/ Returned(c)
             \/ EngineFatal(c)
      PROVE  SharedInvariant'
  BY Zenon, <1>2, GetWorkerStep, GotWorkerStep, SubmitStep, ReturnWorkerStep,
     ReturnedStep, EngineFatalStep
<1>3. ASSUME NEW p \in Pollers,
             Run(p) \/ ShutdownPush(p) \/ ShutdownJoin(p)
      PROVE  SharedInvariant'
  BY Zenon, <1>3, GetOrNewWorkerStep, UninitStep, ReturnWorkerInternalStep, ShutdownInternalStep,
     ShutdownPushStep, ShutdownJoinStep DEF Run
<1>4. ASSUME NEW p \in Pollers, NEW c \in Channels, Callback(p, c)
      PROVE  SharedInvariant'
  BY <1>4, CallbackStep
<1> QED BY Zenon, <1>1, <1>2, <1>3, <1>4 DEF Next

\* The workers, their references, the map that finds them and the mutex of
\* QatPollerManager agree at every moment, whatever channels are created and closed and
\* however many pollers there are.
THEOREM SharedBookkeeping == ASSUME ConstantsOK PROVE Spec => []SharedInvariant
<1>1. Init => SharedInvariant
  BY InitEstablishes
<1>2. SharedInvariant /\ [Next]_vars => SharedInvariant'
  BY NextPreserves
<1> QED BY <1>1, <1>2, PTL DEF Spec

\* An open channel never loses its worker, and with nobody inside the manager
\* poller_by_worker_map_ names exactly the workers that exist.
THEOREM WorkersFound == ASSUME ConstantsOK PROVE Spec => []SharedSafe
<1>1. SharedInvariant => OpenChannelHasWorker
  BY Zenon DEF SharedInvariant, HoldersReach, HasWorker, OpenChannelHasWorker
<1>2. SharedInvariant => MapIsExact
  <2> SUFFICES ASSUME SharedInvariant PROVE MapIsExact
    OBVIOUS
  <2>1. \A m, n \in poller_by_worker : m.worker = n.worker => m = n
    BY Zenon DEF SharedInvariant, AddressesUnique
  <2>2. ASSUME AllRun, mtx = NoChannel PROVE {m.worker : m \in poller_by_worker} = InUse
    <3>1. \A q \in Pollers : \A w \in workers[q] : [worker |-> w.worker, poller |-> q] \in poller_by_worker
      BY Zenon, <2>2 DEF SharedInvariant, MapFollows, ConstantsOK
    <3>2. \A m \in poller_by_worker : m.poller \in Pollers /\ \E w \in workers[m.poller] : w.worker = m.worker
      BY Zenon, <2>2 DEF SharedInvariant, MapFollows, ConstantsOK, TypeOK
    <3>3. ASSUME NEW m \in poller_by_worker PROVE m.worker \in InUse
      BY <3>2 DEF InUse
    <3>4. ASSUME NEW q \in Pollers, NEW w \in workers[q]
          PROVE  \E m \in poller_by_worker : m.worker = w.worker
      <4>1. [worker |-> w.worker, poller |-> q].worker = w.worker
        BY Zenon
      <4> QED BY Zenon, <3>1, <4>1
    <3>5. InUse \subseteq {m.worker : m \in poller_by_worker}
      BY Zenon, <3>4 DEF InUse
    <3> QED BY <3>3, <3>5
  <2> QED BY Zenon, <2>1, <2>2 DEF MapIsExact
<1>3. SharedInvariant => SharedSafe
  BY Zenon, <1>1, <1>2 DEF SharedSafe
<1> QED BY <1>3, SharedBookkeeping, PTL
=============================================================================
