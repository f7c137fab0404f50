----------------------------- MODULE SharedMode -----------------------------
(***************************************************************************)
(* The control plane of the shared mode: channels (qat_codec_shared_channel)*)
(* get their workers from QatPollerManager, which asks one of its QatPoller *)
(* threads by a task and waits for the answer (src/src/codec/qat/           *)
(* qat_poller_manager.cc, qat_poller.cc).  Channels with equal options      *)
(* share a worker.                                                          *)
(*                                                                          *)
(* Each channel is created, used and closed by a thread of its own.  A      *)
(* worker is known by its address, which may be reused.  What happens       *)
(* inside a worker is PollerWorker's; here it only matters which requests   *)
(* it still has to call back, and that its engine may never answer them:    *)
(* then Uninit, which waits for them, does not end.  Run handles tasks and  *)
(* loops over the workers in turns; any mix of the two is allowed.          *)
(***************************************************************************)
EXTENDS Integers, Sequences, FiniteSets, FiniteSetsExt

CONSTANTS
    Channels,
    Key,          \* Key[c]: what operator< compares of c's CodecChannelOption
    PollerNum,    \* FLAGS_vesal_codec_qat_shared_mode_poller_num
    MaxWorker,    \* kMaxWorkerNumPerPoller
    Addrs,        \* addresses of workers
    NoAddr,       \* nullptr
    NoChannel,
    MayShutdown,  \* whether QatPollerManager::Reset is called
    MaxReq        \* bound: requests a channel has outstanding

Pollers == 0 .. PollerNum - 1

\* What the constants stand for: a null pointer is no address, a free mutex has no
\* holder, and a process has finitely many channels and at least one poller.
ConstantsOK ==
    /\ NoAddr \notin Addrs /\ NoChannel \notin Channels
    /\ IsFiniteSet(Channels) /\ PollerNum \in Nat \ {0} /\ MaxReq \in Nat

VARIABLES
    pc,                \* the channels' threads
    worker_of,         \* the worker a channel got
    reqs,              \* the channel's requests that are not called back
    mtx,               \* QatPollerManager::mtx_
    next_poller_id,    \* next_poller_id_ % pollers_.size()
    poller_by_worker,  \* poller_by_worker_map_: set of [worker, poller]
    asked,             \* the poller the holder of mtx_ waits for
    answer,            \* the promise of its task
    poller_tasks,      \* poller_tasks_ of each poller
    workers,           \* workers_ of each poller: set of [key, worker, ref_cnt]
    running,           \* running_ of each poller
    exited,            \* the poller's thread has returned
    uninit,            \* workers of each poller whose Uninit was called (~running_)
    stuck,             \* workers whose engine is fatal, without HA, and holds requests
    reset              \* the thread in Reset: the poller it shuts down and where

vars == <<pc, worker_of, reqs, mtx, next_poller_id, poller_by_worker, asked, answer,
          poller_tasks, workers, running, exited, uninit, stuck, reset>>

NoAnswer == [done |-> FALSE, worker |-> NoAddr, removed |-> FALSE]
Answer(worker, removed) == [done |-> TRUE, worker |-> worker, removed |-> removed]
WithRefs(w, n) == [key |-> w.key, worker |-> w.worker, ref_cnt |-> n]

Init ==
    /\ pc = [c \in Channels |-> "none"]
    /\ worker_of = [c \in Channels |-> NoAddr]
    /\ reqs = [c \in Channels |-> 0]
    /\ mtx = NoChannel /\ next_poller_id = 0 /\ poller_by_worker = {}
    /\ asked = 0 /\ answer = NoAnswer
    /\ poller_tasks = [p \in Pollers |-> <<>>]
    /\ workers = [p \in Pollers |-> {}]
    /\ running = [p \in Pollers |-> TRUE]
    /\ exited = [p \in Pollers |-> FALSE]
    /\ uninit = [p \in Pollers |-> {}] /\ stuck = {}
    /\ reset = [poller |-> 0, at |-> "push"]

\* Push a task to poller p and wait for its promise, holding mtx_.
Ask(c, p, op) ==
    /\ poller_tasks' = [poller_tasks EXCEPT ![p] = Append(@, [op |-> op, c |-> c])]
    /\ asked' = p /\ answer' = NoAnswer
    /\ mtx' = c

(***************************************************************************)
(* QatCodecSharedChannel::Init and QatPollerManager::GetWorker              *)
(***************************************************************************)
GetWorker(c) ==
    LET p == next_poller_id
    IN  /\ pc[c] = "none" /\ mtx = NoChannel
        /\ next_poller_id' = (p + 1) % PollerNum
        /\ IF running[p]
           THEN Ask(c, p, "get") /\ pc' = [pc EXCEPT ![c] = "get"]
           ELSE pc' = [pc EXCEPT ![c] = "failed"] /\ UNCHANGED <<poller_tasks, asked, answer, mtx>>
        /\ UNCHANGED <<worker_of, reqs, poller_by_worker, workers, running, exited,
                       uninit, stuck, reset>>

\* The future is ready.
GotWorker(c) ==
    /\ pc[c] = "get" /\ answer.done
    /\ mtx' = NoChannel
    /\ IF answer.worker = NoAddr
       THEN pc' = [pc EXCEPT ![c] = "failed"] /\ UNCHANGED <<worker_of, poller_by_worker>>
       ELSE /\ pc' = [pc EXCEPT ![c] = "open"]
            /\ worker_of' = [worker_of EXCEPT ![c] = answer.worker]
            /\ poller_by_worker' = {m \in poller_by_worker : m.worker # answer.worker}
                                    \cup {[worker |-> answer.worker, poller |-> asked]}
    /\ UNCHANGED <<reqs, next_poller_id, asked, answer, poller_tasks, workers, running,
                   exited, uninit, stuck, reset>>

\* An accepted request: Schedule finds the worker running, and the request is in it until
\* its callback.
Submit(c) ==
    /\ pc[c] = "open" /\ reqs[c] < MaxReq
    /\ \E p \in Pollers : /\ worker_of[c] \notin uninit[p]
                          /\ \E w \in workers[p] : w.worker = worker_of[c]
    /\ reqs' = [reqs EXCEPT ![c] = @ + 1]
    /\ UNCHANGED <<pc, worker_of, mtx, next_poller_id, poller_by_worker, asked, answer,
                   poller_tasks, workers, running, exited, uninit, stuck, reset>>

(***************************************************************************)
(* QatCodecSharedChannel::Close and QatPollerManager::ReturnWorker          *)
(***************************************************************************)
ReturnWorker(c) ==
    /\ pc[c] = "open" /\ mtx = NoChannel
    /\ \/ \E m \in poller_by_worker :
             /\ m.worker = worker_of[c]
             /\ IF running[m.poller]
                THEN Ask(c, m.poller, "return") /\ pc' = [pc EXCEPT ![c] = "return"]
                ELSE pc' = [pc EXCEPT ![c] = "closed"]
                     /\ UNCHANGED <<poller_tasks, asked, answer, mtx>>
       \/ /\ \A m \in poller_by_worker : m.worker # worker_of[c]
          /\ pc' = [pc EXCEPT ![c] = "closed"]
          /\ UNCHANGED <<poller_tasks, asked, answer, mtx>>
    /\ UNCHANGED <<worker_of, reqs, next_poller_id, poller_by_worker, workers, running,
                   exited, uninit, stuck, reset>>

\* Mutant: the map keeps the address of a worker that was removed.
ReturnedKeepsMap(c) ==
    /\ pc[c] = "return" /\ answer.done
    /\ mtx' = NoChannel
    /\ pc' = [pc EXCEPT ![c] = "closed"]
    /\ UNCHANGED <<worker_of, reqs, next_poller_id, poller_by_worker, asked, answer,
                   poller_tasks, workers, running, exited, uninit, stuck, reset>>

\* Mutant: the mutex is only released when the worker was removed.
ReturnedKeepsMutex(c) ==
    /\ pc[c] = "return" /\ answer.done /\ answer.removed
    /\ mtx' = NoChannel
    /\ pc' = [pc EXCEPT ![c] = "closed"]
    /\ poller_by_worker' = {m \in poller_by_worker : m.worker # worker_of[c]}
    /\ UNCHANGED <<worker_of, reqs, next_poller_id, asked, answer, poller_tasks, workers,
                   running, exited, uninit, stuck, reset>>

Returned(c) ==
    /\ pc[c] = "return" /\ answer.done
    /\ mtx' = NoChannel
    /\ pc' = [pc EXCEPT ![c] = "closed"]
    /\ poller_by_worker' = IF answer.removed
                           THEN {m \in poller_by_worker : m.worker # worker_of[c]}
                           ELSE poller_by_worker
    /\ UNCHANGED <<worker_of, reqs, next_poller_id, asked, answer, poller_tasks, workers,
                   running, exited, uninit, stuck, reset>>

(***************************************************************************)
(* QatPoller::Run                                                           *)
(***************************************************************************)
\* GetRefCnt of a poller
SumRefs(ws) == MapThenSumSet(LAMBDA w : w.ref_cnt, ws)

InUse == {w.worker : w \in UNION {workers[p] : p \in Pollers}}

IsNext(p, op) == ~exited[p] /\ poller_tasks[p] # <<>> /\ Head(poller_tasks[p]).op = op

\* Mutant: a second channel does not count as a user of the worker.
GetOrNewUncounted(p) ==
    LET c == Head(poller_tasks[p]).c
        same == {w \in workers[p] : w.key = Key[c]}
    IN  /\ IsNext(p, "get")
        /\ poller_tasks' = [poller_tasks EXCEPT ![p] = Tail(@)]
        /\ IF same # {}
           THEN /\ \E w \in same : answer' = Answer(w.worker, FALSE)
                /\ UNCHANGED workers
           ELSE \E a \in Addrs \ InUse :
                   /\ workers' = [workers EXCEPT ![p] = @ \cup
                         {[key |-> Key[c], worker |-> a, ref_cnt |-> 1]}]
                   /\ answer' = Answer(a, FALSE)
        /\ UNCHANGED <<pc, worker_of, reqs, mtx, next_poller_id, poller_by_worker, asked,
                       running, exited, uninit, stuck, reset>>

\* Mutant: a known option is not looked for.
GetAlwaysNew(p) ==
    LET c == Head(poller_tasks[p]).c
    IN  /\ IsNext(p, "get")
        /\ poller_tasks' = [poller_tasks EXCEPT ![p] = Tail(@)]
        /\ \E a \in Addrs \ InUse :
              /\ workers' = [workers EXCEPT ![p] = @ \cup
                    {[key |-> Key[c], worker |-> a, ref_cnt |-> 1]}]
              /\ answer' = Answer(a, FALSE)
        /\ UNCHANGED <<pc, worker_of, reqs, mtx, next_poller_id, poller_by_worker, asked,
                       running, exited, uninit, stuck, reset>>

\* GetOrNewWorkerInternal: too many references, a known option, a new worker, or
\* an engine that cannot be initialised.
GetOrNewWorker(p) ==
    LET c == Head(poller_tasks[p]).c
        same == {w \in workers[p] : w.key = Key[c]}
        full == SumRefs(workers[p]) >= MaxWorker
    IN  /\ IsNext(p, "get")
        /\ poller_tasks' = [poller_tasks EXCEPT ![p] = Tail(@)]
        /\ \/ /\ full \/ same = {}
              /\ answer' = Answer(NoAddr, FALSE)
              /\ UNCHANGED workers
           \/ /\ ~full
              /\ \E w \in same :
                    /\ workers' = [workers EXCEPT ![p] =
                                     (@ \ {w}) \cup {WithRefs(w, w.ref_cnt + 1)}]
                    /\ answer' = Answer(w.worker, FALSE)
           \/ /\ ~full /\ same = {}
              /\ \E a \in Addrs \ InUse :
                    /\ workers' = [workers EXCEPT ![p] = @ \cup
                          {[key |-> Key[c], worker |-> a, ref_cnt |-> 1]}]
                    /\ answer' = Answer(a, FALSE)
        /\ UNCHANGED <<pc, worker_of, reqs, mtx, next_poller_id, poller_by_worker, asked,
                       running, exited, uninit, stuck, reset>>

\* Mutant: a worker is removed without its requests being waited for.
FinishedAnyway(a) == TRUE

\* ~HasUnFinishedReqs: every request of the worker is called back.
Finished(a) == \A c \in Channels : worker_of[c] = a => reqs[c] = 0

\* Mutant: the worker is removed when one reference is left.
LastReferenceEarly(w) == w.ref_cnt <= 2

LastReference(w) == w.ref_cnt = 1

\* The worker a task returns
Found(p, c) == {w \in workers[p] : w.key = Key[c] /\ w.worker = worker_of[c]}

\* The poller calls QatPollerWorker::Uninit: for kReturn of the last reference, and for
\* kShutdown of one worker after the other.  It does nothing else until the worker's
\* requests are finished.
Uninit(p) ==
    /\ ~exited[p] /\ poller_tasks[p] # <<>>
    /\ \A a \in uninit[p] : Finished(a)
    /\ \E w \in workers[p] :
          /\ w.worker \notin uninit[p]
          /\ \/ IsNext(p, "shutdown")
             \/ /\ IsNext(p, "return") /\ LastReference(w)
                /\ w \in Found(p, Head(poller_tasks[p]).c)
          /\ uninit' = [uninit EXCEPT ![p] = @ \cup {w.worker}]
    /\ UNCHANGED <<pc, worker_of, reqs, mtx, next_poller_id, poller_by_worker, asked, answer,
                   poller_tasks, workers, running, exited, stuck, reset>>

\* ReturnWorkerInternal, when Uninit is over or not needed
ReturnWorkerInternal(p) ==
    LET c == Head(poller_tasks[p]).c
    IN  /\ IsNext(p, "return")
        /\ poller_tasks' = [poller_tasks EXCEPT ![p] = Tail(@)]
        /\ \/ /\ Found(p, c) = {}
              /\ answer' = Answer(NoAddr, FALSE)
              /\ UNCHANGED <<workers, uninit>>
           \/ \E w \in Found(p, c) :
                 IF LastReference(w)
                 THEN /\ w.worker \in uninit[p] /\ Finished(w.worker)
                      /\ workers' = [workers EXCEPT ![p] = @ \ {w}]
                      /\ uninit' = [uninit EXCEPT ![p] = {}]
                      /\ answer' = Answer(NoAddr, TRUE)
                 ELSE /\ workers' = [workers EXCEPT ![p] =
                                       (@ \ {w}) \cup {WithRefs(w, w.ref_cnt - 1)}]
                      /\ answer' = Answer(NoAddr, FALSE)
                      /\ UNCHANGED uninit
        /\ UNCHANGED <<pc, worker_of, reqs, mtx, next_poller_id, poller_by_worker, asked,
                       running, exited, stuck, reset>>

\* LoopOnce of a worker, from Run or from Uninit, calls back a request of its channels.
Callback(p, c) ==
    /\ ~exited[p] /\ reqs[c] > 0 /\ worker_of[c] \notin stuck
    /\ \E w \in workers[p] : w.worker = worker_of[c]
    /\ uninit[p] = {} \/ worker_of[c] \in uninit[p]
    /\ reqs' = [reqs EXCEPT ![c] = @ - 1]
    /\ UNCHANGED <<pc, worker_of, mtx, next_poller_id, poller_by_worker, asked, answer,
                   poller_tasks, workers, running, exited, uninit, stuck, reset>>

\* The engine of a worker without HA becomes fatal: requests it holds are not answered any
\* more, and none behind them.
EngineFatal(c) ==
    /\ reqs[c] > 0 /\ worker_of[c] \notin stuck
    /\ stuck' = stuck \cup {worker_of[c]}
    /\ UNCHANGED <<pc, worker_of, reqs, mtx, next_poller_id, poller_by_worker, asked, answer,
                   poller_tasks, workers, running, exited, uninit, reset>>

\* Mutant: the poller waits until every worker is returned.
ShutdownWhenReturned(p) ==
    /\ IsNext(p, "shutdown") /\ workers[p] = {}
    /\ exited' = [exited EXCEPT ![p] = TRUE]
    /\ poller_tasks' = [poller_tasks EXCEPT ![p] = Tail(@)]
    /\ UNCHANGED <<pc, worker_of, reqs, mtx, next_poller_id, poller_by_worker, asked, answer,
                   workers, running, uninit, stuck, reset>>

\* ShutdownInternal, when Uninit of every worker is over; the tasks behind kShutdown are
\* not looked at.
ShutdownInternal(p) ==
    /\ IsNext(p, "shutdown")
    /\ \A w \in workers[p] : w.worker \in uninit[p] /\ Finished(w.worker)
    /\ workers' = [workers EXCEPT ![p] = {}]
    /\ uninit' = [uninit EXCEPT ![p] = {}]
    /\ exited' = [exited EXCEPT ![p] = TRUE]
    /\ poller_tasks' = [poller_tasks EXCEPT ![p] = Tail(@)]
    /\ UNCHANGED <<pc, worker_of, reqs, mtx, next_poller_id, poller_by_worker, asked, answer,
                   running, stuck, reset>>

(***************************************************************************)
(* QatPollerManager::Reset: QatPoller::Shutdown of every poller, without    *)
(* mtx_; running_ is cleared after the join.                                *)
(***************************************************************************)
ShutdownPush(p) ==
    /\ MayShutdown /\ reset = [poller |-> p, at |-> "push"]
    /\ poller_tasks' = [poller_tasks EXCEPT ![p] = Append(@, [op |-> "shutdown", c |-> NoChannel])]
    /\ reset' = [poller |-> p, at |-> "join"]
    /\ UNCHANGED <<pc, worker_of, reqs, mtx, next_poller_id, poller_by_worker, asked, answer,
                   workers, running, exited, uninit, stuck>>

ShutdownJoin(p) ==
    /\ reset = [poller |-> p, at |-> "join"] /\ exited[p]
    /\ running' = [running EXCEPT ![p] = FALSE]
    /\ reset' = [poller |-> p + 1, at |-> "push"]
    /\ UNCHANGED <<pc, worker_of, reqs, mtx, next_poller_id, poller_by_worker, asked, answer,
                   poller_tasks, workers, exited, uninit, stuck>>

Run(p) == GetOrNewWorker(p) \/ Uninit(p) \/ ReturnWorkerInternal(p) \/ ShutdownInternal(p)

Next ==
    \/ \E c \in Channels : \/ GetWorker(c) \/ GotWorker(c)
                           \/ Submit(c)
                           \/ ReturnWorker(c) \/ Returned(c)
                           \/ EngineFatal(c)
    \/ \E p \in Pollers : \/ Run(p)
                          \/ \E c \in Channels : Callback(p, c)
                          \/ ShutdownPush(p) \/ ShutdownJoin(p)

Spec == Init /\ [][Next]_vars

\* The pollers' threads run, threads that wait for a future or a join go on when
\* it is there, and a channel's requests are called back as long as the engine answers.
FairSpec == /\ Spec
            /\ \A p \in Pollers : WF_vars(Run(p)) /\ WF_vars(ShutdownJoin(p))
            /\ \A c \in Channels : /\ WF_vars(GotWorker(c)) /\ WF_vars(Returned(c))
                                   /\ WF_vars(\E p \in Pollers : Callback(p, c))

-----------------------------------------------------------------------------
Worker == [key : {Key[c] : c \in Channels}, worker : Addrs, ref_cnt : Nat \ {0}]

Task == [op : {"get", "return", "shutdown"}, c : Channels \cup {NoChannel}]

\* The types of the fields of QatPollerManager and QatPoller; workers_ is a map, so
\* no two workers of a poller have the same option.
TypeOK ==
    /\ pc \in [Channels -> {"none", "get", "open", "return", "closed", "failed"}]
    /\ worker_of \in [Channels -> Addrs \cup {NoAddr}]
    /\ reqs \in [Channels -> 0 .. MaxReq]
    /\ mtx \in Channels \cup {NoChannel}
    /\ next_poller_id \in Pollers /\ asked \in Pollers
    /\ answer \in [done : BOOLEAN, worker : Addrs \cup {NoAddr}, removed : BOOLEAN]
    /\ poller_by_worker \subseteq [worker : Addrs, poller : Pollers]
    /\ poller_tasks \in [Pollers -> Seq(Task)]
    /\ workers \in [Pollers -> SUBSET Worker]
    /\ \A p \in Pollers : \A v, w \in workers[p] : v.key = w.key => v = w
    /\ running \in [Pollers -> BOOLEAN] /\ exited \in [Pollers -> BOOLEAN]
    /\ uninit \in [Pollers -> SUBSET Addrs] /\ stuck \subseteq Addrs

\* Channels that hold a reference to w: the open ones, the one whose kGet was
\* answered with it, the one whose kReturn is not handled yet.
Holders(w) ==
    {c \in Channels : \/ pc[c] = "open" /\ worker_of[c] = w
                      \/ pc[c] = "get" /\ answer.done /\ answer.worker = w
                      \/ pc[c] = "return" /\ ~answer.done /\ worker_of[c] = w}

AllRun == \A p \in Pollers : ~exited[p]

\* ref_cnt is the number of channels that use the worker, whatever channels are
\* created and closed meanwhile, until a poller is shut down.
RefCountsExact ==
    AllRun => \A p \in Pollers : \A w \in workers[p] :
                 w.ref_cnt = Cardinality(Holders(w.worker))

\* The worker of an open channel is not taken away by Uninit, and
\* poller_by_worker_map_ leads to its poller although addresses are reused.
OpenChannelHasWorker ==
    AllRun => \A c \in Channels : pc[c] = "open" =>
        \E m \in poller_by_worker :
            /\ m.worker = worker_of[c]
            /\ \E w \in workers[m.poller] : w.worker = worker_of[c]

\* poller_by_worker_map_ has one poller per worker, and while nobody is inside
\* the manager it names exactly the workers that exist.
MapIsExact ==
    /\ \A m, n \in poller_by_worker : m.worker = n.worker => m = n
    /\ AllRun /\ mtx = NoChannel => {m.worker : m \in poller_by_worker} = InUse

\* An accepted request is in a living worker until it is called back, also when its
\* channel is closed with the request in flight and others keep the worker, and when the
\* pollers shut down: "Uninit() ensures all inflight requests are finished.  So we can
\* safely exit" (qat_poller.cc:211).
RequestsAreInWorkers ==
    \A c \in Channels : reqs[c] > 0 => worker_of[c] \in InUse

\* Whoever waits for an answer holds mtx_; a task to get or to return a worker is that
\* thread's and alone, and running_ is only cleared when the thread is gone.
OneCallAtATime ==
    /\ \A c \in Channels : pc[c] \in {"get", "return"} <=> mtx = c
    /\ \A p \in Pollers : \A i \in DOMAIN poller_tasks[p] :
          poller_tasks[p][i].op # "shutdown" =>
              /\ mtx \in Channels /\ poller_tasks[p][i].c = mtx
              /\ pc[mtx] = poller_tasks[p][i].op /\ asked = p /\ ~answer.done
              /\ \A j \in DOMAIN poller_tasks[p] : poller_tasks[p][j].op # "shutdown" => i = j
    /\ \A p \in Pollers : running[p] \/ exited[p]

HasWorker(c, a, p) == \E w \in workers[p] : w.worker = a /\ w.key = Key[c]

\* A worker's address names it, and the map has one poller for it.
AddressesUnique ==
    /\ \A p, q \in Pollers : \A v \in workers[p], w \in workers[q] :
          v.worker = w.worker => p = q /\ v = w
    /\ \A m, n \in poller_by_worker : m.worker = n.worker => m = n

\* Who holds a reference finds the worker under its option, through the map or in the
\* answer; a worker that was removed is gone.
HoldersReach ==
    AllRun => \A c \in Channels :
        /\ pc[c] = "open" \/ (pc[c] = "return" /\ ~answer.done) =>
              \E m \in poller_by_worker :
                  /\ m.worker = worker_of[c] /\ HasWorker(c, worker_of[c], m.poller)
                  /\ pc[c] = "return" => m.poller = asked
        /\ pc[c] = "get" /\ answer.done /\ answer.worker # NoAddr =>
              HasWorker(c, answer.worker, asked)
        /\ pc[c] = "return" /\ answer.done /\ answer.removed => worker_of[c] \notin InUse

\* The map and the workers differ only in the worker whose getting or returning is
\* under way.
MapFollows ==
    AllRun =>
        /\ \A p \in Pollers : \A w \in workers[p] :
              \/ [worker |-> w.worker, poller |-> p] \in poller_by_worker
              \/ /\ mtx \in Channels /\ pc[mtx] = "get" /\ answer.done
                 /\ answer.worker = w.worker /\ asked = p
        /\ \A m \in poller_by_worker :
              \/ \E w \in workers[m.poller] : w.worker = m.worker
              \/ /\ mtx \in Channels /\ pc[mtx] = "return" /\ answer.done /\ answer.removed
                 /\ worker_of[mtx] = m.worker

\* A channel has no requests before it has a worker.
NoRequestsYet == \A c \in Channels : pc[c] \in {"none", "get"} => reqs[c] = 0

\* What makes the properties above inductive.
SharedInvariant ==
    /\ TypeOK /\ OneCallAtATime /\ AddressesUnique /\ HoldersReach /\ MapFollows
    /\ NoRequestsYet /\ RefCountsExact /\ RequestsAreInWorkers

\* Workers are counted, reachable and mapped as long as a channel or a request of
\* theirs needs them.
SharedSafe == SharedInvariant /\ OpenChannelHasWorker /\ MapIsExact

\* The poller is in a call of Uninit that never ends (UninitEnds of PollerWorker).
Hangs(p) == uninit[p] \cap stuck # {}

\* The pollers provide "*SYNC* APIs to get/return an worker" (qat_poller.h:68): the
\* caller of GetWorker or ReturnWorker, who holds mtx_ and makes all others wait, gets
\* its answer and unlocks, also while Reset runs.  It does not in two cases, in which the
\* code leaves it waiting with mtx_ held: the poller hangs in Uninit, or it is gone because
\* the task came behind kShutdown (running_ is cleared after the join only).
CallsReturn ==
    mtx # NoChannel ~> mtx = NoChannel \/ Hangs(asked) \/ (exited[asked] /\ ~answer.done)

\* Reset joins every poller it asks to shut down, also with callers waiting for
\* the pollers, as the destructor of the manager needs, unless the poller hangs in Uninit.
ResetReturns == reset.at = "join" ~> reset.at # "join" \/ Hangs(reset.poller)
=============================================================================
