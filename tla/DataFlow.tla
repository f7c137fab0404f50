------------------------------ MODULE DataFlow ------------------------------
(***************************************************************************)
(* The data flow service (src/src/data_flow): channels, each used by one    *)
(* thread, submit batches of moves and checksums to the software engine or  *)
(* to the DSA work queues, whose quotas all channels share.                 *)
(*                                                                          *)
(* A channel owns IoDepth request objects that travel between               *)
(* cached_resource_, queue_ and expired_queue_.  The lists are sets:        *)
(* queue_ and the timers are in the order of the requests, for both are     *)
(* only appended to; of the other two the order does not matter, and any    *)
(* cached object may be the first.  Contents of memory are left out: a      *)
(* request is known by its number, and its operations (Ops) only decide     *)
(* the descriptors that are built.  A timer may be due at any time, but     *)
(* timers become due in the order in which they were added.                 *)
(***************************************************************************)
EXTENDS Integers, Sequences, FiniteSets, Functions

CONSTANTS
    Channels,
    Options,    \* Options[c]: the DataFlowChannelOptions c may have, records of
                \* engine_type, order_type and schedule_hint
    Strategies, \* DataFlowScheduleHintType
    Capacity,   \* quotas of the work queues, a sequence indexed from 1
    Numa,       \* their NUMA nodes
    IoDepth,    \* kIoDepthMaximum
    MaxBatch,   \* kMaxInternalBatchSize
    Ops,        \* Ops[c][n]: the operations of the n-th request of c; bounds the requests
    MaxPoll     \* bound of max_num in Poll

\* Work queues without quota are not used; with no quota at all RoundRobinStrategy
\* would divide by zero.
ASSUME QuotaAssumption == /\ Capacity \in Seq(Nat) /\ DOMAIN Numa = DOMAIN Capacity
                          /\ \E w \in DOMAIN Capacity : Capacity[w] > 0
ASSUME SizeAssumption == /\ IsFiniteSet(Channels)
                         /\ IoDepth \in Nat \ {0} /\ MaxPoll \in Nat \ {0}

VARIABLES
    opts, strategy,     \* what the user chose
    pc,                 \* "idle", "submit" in DsaDispatcher::Submit, "closed", "undefined"
    cached_resource, queue, expired_queue,
    obj,                \* request objects: [req, expired, work_queue]
    hw,                 \* completion record of each: "none", "wip", "done"
    timers,             \* timer_manager_: the objects with a pending timer
    size,               \* WorkQueueInfo::size
    tls_counter,        \* of RoundRobinStrategy and NumaAwareStrategy
    chosen,             \* in "submit": the object, chosen_wq and what fetch_add returned
    accepted,           \* number of requests accepted
    received,           \* history: requests whose result was handed out, in order
    discarded           \* history: requests whose result Close threw away

listVars == <<cached_resource, queue, expired_queue>>
histVars == <<accepted, received, discarded>>
vars == <<opts, strategy, pc, listVars, obj, hw, timers, size, tls_counter, chosen, histVars>>

Objs == 1 .. IoDepth
WorkQueues == DOMAIN Capacity
NoQueue == 0
NotChosen == [obj |-> 0, wq |-> NoQueue, result |-> 0]

Init ==
    /\ opts \in {f \in [Channels -> UNION Range(Options)] : \A c \in Channels : f[c] \in Options[c]}
    /\ strategy \in Strategies
    /\ pc = [c \in Channels |-> "idle"]
    /\ cached_resource = [c \in Channels |-> Objs]
    /\ queue = [c \in Channels |-> {}] /\ expired_queue = [c \in Channels |-> {}]
    /\ obj = [c \in Channels |-> [o \in Objs |->
                [req |-> 0, expired |-> FALSE, work_queue |-> NoQueue]]]
    /\ hw = [c \in Channels |-> [o \in Objs |-> "none"]]
    /\ timers = [c \in Channels |-> {}]
    /\ size = [w \in WorkQueues |-> 0]
    /\ tls_counter = [c \in Channels |-> 0] /\ chosen = [c \in Channels |-> NotChosen]
    /\ accepted = [c \in Channels |-> 0]
    /\ received = [c \in Channels |-> <<>>] /\ discarded = [c \in Channels |-> {}]

(***************************************************************************)
(* The size of a request.  An operation is [type, segs, crc, overlap]: its  *)
(* number of source segments, whether a checksum is wanted and whether the  *)
(* (first) source overlaps the destination.                                 *)
(***************************************************************************)
NumSegs(ops) == FoldFunction(LAMBDA op, n : op.segs + n, 0, ops)

\* SubmitMove, SubmitCrc: the size checks.  A call that is refused changes nothing.
Accepts(ops) == IF ops[1].type = "move" THEN 1 + NumSegs(ops) + 1 + Len(ops) <= MaxBatch
                                        ELSE 1 + Len(ops) <= MaxBatch

(***************************************************************************)
(* ScheduleStrategy::GetNext                                                *)
(***************************************************************************)
Hint(c) == opts[c].schedule_hint
Eligible(c) ==
    {w \in WorkQueues : /\ Capacity[w] > 0
                        /\ strategy = "kNumaAware" => Numa[w] = Hint(c)
                        /\ strategy = "kDeviceAware" => w = Hint(c) + 1}

\* The queue of the list that the counter points to
GetNext(c, w) == w \in Eligible(c) /\ Cardinality({v \in Eligible(c) : v < w}) = tls_counter[c]

\* ++tls_counter_, kept modulo the number of queues it selects from
NextCounter(c) == (tls_counter[c] + 1) % Cardinality(Eligible(c))

(***************************************************************************)
(* SubmitMove, SubmitCrc and SubmitRequest, on a cached object.  Without    *)
(* one the channel is busy and nothing changes.                             *)
(***************************************************************************)
\* Mutant: the flag of the last use survives.
BuildKeepsExpired(c, o) == [obj[c][o] EXCEPT !.req = accepted[c] + 1]

\* DataFlowRequest::Build
Build(c, o) == [obj[c][o] EXCEPT !.req = accepted[c] + 1, !.expired = FALSE]

CanSubmit(c, o, engine) ==
    /\ pc[c] = "idle" /\ opts[c].engine_type = engine
    /\ accepted[c] < Len(Ops[c]) /\ Accepts(Ops[c][accepted[c] + 1])
    /\ o \in cached_resource[c]

\* The engine has the request in status st: it gets a timer and joins the queue.
Submitted(c, o, st) ==
    /\ hw' = [hw EXCEPT ![c][o] = st]
    /\ cached_resource' = [cached_resource EXCEPT ![c] = @ \ {o}]
    /\ timers' = [timers EXCEPT ![c] = @ \cup {o}]
    /\ queue' = [queue EXCEPT ![c] = @ \cup {o}]
    /\ accepted' = [accepted EXCEPT ![c] = @ + 1]
    /\ pc' = [pc EXCEPT ![c] = "idle"]
    /\ chosen' = [chosen EXCEPT ![c] = NotChosen]
    /\ UNCHANGED <<opts, strategy, expired_queue, tls_counter, size, received, discarded>>

\* Mutant: the object is lost.
RefusedLeaks(c, o) ==
    /\ cached_resource' = [cached_resource EXCEPT ![c] = @ \ {o}]
    /\ pc' = [pc EXCEPT ![c] = "idle"]
    /\ chosen' = [chosen EXCEPT ![c] = NotChosen]
    /\ UNCHANGED <<opts, strategy, queue, expired_queue, hw, timers, tls_counter, histVars>>

\* The engine refused it.
Refused(c, o) ==
    /\ cached_resource' = [cached_resource EXCEPT ![c] = @ \cup {o}]
    /\ pc' = [pc EXCEPT ![c] = "idle"]
    /\ chosen' = [chosen EXCEPT ![c] = NotChosen]
    /\ UNCHANGED <<opts, strategy, queue, expired_queue, hw, timers, tls_counter, histVars>>

\* SwEngine does the work inside Submit.
SubmitSw(c, o) ==
    /\ CanSubmit(c, o, "kSoftware")
    /\ obj' = [obj EXCEPT ![c][o] = Build(c, o)]
    /\ Submitted(c, o, "done")

\* BuildCtx fails, because the memory is not DMA-able, or no work queue fits the hint.
SubmitDsaFails(c, o) ==
    /\ CanSubmit(c, o, "kDsa")
    /\ obj' = [obj EXCEPT ![c][o] = Build(c, o)]
    /\ Refused(c, o) /\ UNCHANGED size

\* DsaDispatcher::Submit: size.fetch_add
SubmitDsa(c, o, w) ==
    /\ CanSubmit(c, o, "kDsa") /\ GetNext(c, w)
    /\ tls_counter' = [tls_counter EXCEPT ![c] = NextCounter(c)]
    /\ obj' = [obj EXCEPT ![c][o] = Build(c, o)]
    /\ cached_resource' = [cached_resource EXCEPT ![c] = @ \ {o}]
    /\ chosen' = [chosen EXCEPT ![c] = [obj |-> o, wq |-> w, result |-> size[w]]]
    /\ size' = [size EXCEPT ![w] = @ + 1]
    /\ pc' = [pc EXCEPT ![c] = "submit"]
    /\ UNCHANGED <<opts, strategy, queue, expired_queue, hw, timers, histVars>>

\* Mutant: the counter is not taken back.
DsaBusyKeeps(c) ==
    /\ pc[c] = "submit" /\ chosen[c].result >= Capacity[chosen[c].wq]
    /\ Refused(c, chosen[c].obj) /\ UNCHANGED <<size, obj>>

\* The queue is full: fetch_sub.
DsaBusy(c) ==
    /\ pc[c] = "submit" /\ chosen[c].result >= Capacity[chosen[c].wq]
    /\ size' = [size EXCEPT ![chosen[c].wq] = @ - 1]
    /\ Refused(c, chosen[c].obj) /\ UNCHANGED obj

\* movdir64b, and back in SubmitRequest
DsaAccepted(c) ==
    /\ pc[c] = "submit" /\ chosen[c].result < Capacity[chosen[c].wq]
    /\ obj' = [obj EXCEPT ![c][chosen[c].obj].work_queue = chosen[c].wq]
    /\ Submitted(c, chosen[c].obj, "wip")

\* The device writes the completion record; success and failure only differ in the
\* status the user gets.
HardwareCompletes(c, o) ==
    /\ hw[c][o] = "wip"
    /\ hw' = [hw EXCEPT ![c][o] = "done"]
    /\ UNCHANGED <<opts, strategy, pc, listVars, obj, timers, size, tls_counter, chosen, histVars>>

(***************************************************************************)
(* Poll and Close.  CheckCompletion finds the objects with hw = "done"      *)
(* completed, and each only once, for they leave the lists.  The order in   *)
(* which a loop takes the objects is that of their requests.                *)
(***************************************************************************)
\* Mutant: does not wait for the device.
CompletedAll(c, s) == s

Completed(c, s) == {o \in s : hw[c][o] = "done"}

Before(c, o, p) == obj[c][o].req < obj[c][p].req
FirstOf(c, n, s) == {o \in s : Cardinality({p \in s : Before(c, p, o)}) < n}

\* DsaDispatcher::NotifyCompletion for the objects in s
NotifyCompletion(c, s) ==
    [w \in WorkQueues |-> size[w] - Cardinality({o \in s : /\ opts[c].engine_type = "kDsa"
                                                           /\ obj[c][o].work_queue = w})]
Checked(c, s) == [o \in Objs |-> IF o \in s /\ hw[c][o] = "done" THEN "none" ELSE hw[c][o]]

Ready(c, o) == obj[c][o].expired \/ hw[c][o] = "done"

\* Mutant: later results are handed out before an unfinished one.
PolledUnordered(c, max_num) == FirstOf(c, max_num, {o \in queue[c] : Ready(c, o)})

\* Mutant: a request that expired is not reported.
PolledCompleted(c, max_num) == FirstOf(c, max_num, Completed(c, queue[c]))

\* The objects a Poll hands out: expired or completed, at most max_num, and if the
\* channel is ordered none behind one that is neither.
Polled(c, max_num) ==
    FirstOf(c, max_num,
            {o \in queue[c] : /\ Ready(c, o)
                              /\ opts[c].order_type = "kOrdered" =>
                                    \A p \in queue[c] : Before(c, p, o) => Ready(c, p)})

\* The results of the objects in s, in the order of the loop
Results(c, s) ==
    {r \in [1 .. Cardinality(s) -> {obj[c][o].req : o \in s}] :
        /\ \A o \in s : \E i \in DOMAIN r : r[i] = obj[c][o].req
        /\ \A i, j \in DOMAIN r : i < j => r[i] < r[j]}

\* The loop over queue_, then HandleTimeout, which fires those of the first `due' timers,
\* then the loop over expired_queue_.
Poll(c, max_num, due) ==
    LET out == Polled(c, max_num)
        expired == expired_queue[c] \cup {o \in out : obj[c][o].expired}
        done == {o \in out : ~obj[c][o].expired}
        late == Completed(c, expired)
        fired == FirstOf(c, due, timers[c] \ done)
    IN  /\ pc[c] = "idle"
        /\ \E r \in Results(c, out) : received' = [received EXCEPT ![c] = @ \o r]
        /\ queue' = [queue EXCEPT ![c] = @ \ out]
        /\ expired_queue' = [expired_queue EXCEPT ![c] = expired \ late]
        /\ cached_resource' = [cached_resource EXCEPT ![c] = @ \cup done \cup late]
        /\ hw' = [hw EXCEPT ![c] = Checked(c, done \cup late)]
        /\ size' = NotifyCompletion(c, done \cup late)
        /\ timers' = [timers EXCEPT ![c] = (@ \ done) \ fired]
        /\ obj' = [obj EXCEPT ![c] = [o \in Objs |->
                     IF o \in fired THEN [obj[c][o] EXCEPT !.expired = TRUE] ELSE obj[c][o]]]
        /\ UNCHANGED <<opts, strategy, pc, tls_counter, chosen, accepted, discarded>>

\* Close: PollDiscardedResult removes the timer of every completed request in queue_,
\* also if it has fired.  RemoveTimer of a context that is no longer in the list
\* follows null pointers, or takes another request's timer if the context was reused:
\* from there on the channel is "undefined".
Close(c) ==
    LET done == Completed(c, queue[c])
        late == Completed(c, expired_queue[c])
        waits == (queue[c] \ done) \cup (expired_queue[c] \ late) # {}
    IN  /\ pc[c] = "idle"
        /\ pc' = [pc EXCEPT ![c] = IF ~(done \subseteq timers[c]) THEN "undefined"
                                   ELSE IF waits THEN "idle" ELSE "closed"]
        /\ queue' = [queue EXCEPT ![c] = @ \ done]
        /\ expired_queue' = [expired_queue EXCEPT ![c] = @ \ late]
        /\ cached_resource' = [cached_resource EXCEPT ![c] = @ \cup done \cup late]
        /\ hw' = [hw EXCEPT ![c] = Checked(c, done \cup late)]
        /\ size' = NotifyCompletion(c, done \cup late)
        /\ timers' = [timers EXCEPT ![c] = @ \ done]
        /\ discarded' = [discarded EXCEPT ![c] = @ \cup {obj[c][o].req : o \in done}]
        /\ UNCHANGED <<opts, strategy, obj, tls_counter, chosen, accepted, received>>

PollSome(c) == \E max_num \in 1 .. MaxPoll, due \in 0 .. IoDepth : Poll(c, max_num, due)

Next == \E c \in Channels :
            \/ \E o \in Objs : \/ SubmitSw(c, o) \/ SubmitDsaFails(c, o)
                               \/ \E w \in WorkQueues : SubmitDsa(c, o, w)
                               \/ HardwareCompletes(c, o)
            \/ DsaBusy(c) \/ DsaAccepted(c)
            \/ PollSome(c)
            \/ Close(c)

Spec == Init /\ [][Next]_vars

\* The user polls again and again, also between calls of Submit, and time passes,
\* so that some Poll finds every timer due; a Submit that was begun ends.  The device
\* need not answer.
FairSpec == /\ Spec
            /\ \A c \in Channels : /\ SF_vars(Poll(c, MaxPoll, IoDepth))
                                   /\ WF_vars(DsaBusy(c) \/ DsaAccepted(c))

-----------------------------------------------------------------------------
\* The types of the fields of DataFlowChannelImpl, DataFlowRequest and WorkQueueInfo.
TypeOK ==
    /\ \A c \in Channels : opts[c] \in Options[c]
    /\ strategy \in Strategies
    /\ pc \in [Channels -> {"idle", "submit", "closed", "undefined"}]
    /\ cached_resource \in [Channels -> SUBSET Objs] /\ queue \in [Channels -> SUBSET Objs]
    /\ expired_queue \in [Channels -> SUBSET Objs] /\ timers \in [Channels -> SUBSET Objs]
    /\ obj \in [Channels -> [Objs -> [req : Nat, expired : BOOLEAN,
                                      work_queue : WorkQueues \cup {NoQueue}]]]
    /\ hw \in [Channels -> [Objs -> {"none", "wip", "done"}]]
    /\ size \in [WorkQueues -> Nat]
    /\ chosen \in [Channels -> [obj : Objs \cup {0}, wq : WorkQueues \cup {NoQueue}, result : Nat]]
    /\ tls_counter \in [Channels -> Nat]
    /\ accepted \in [Channels -> Nat] /\ received \in [Channels -> Seq(Nat)]
    /\ discarded \in [Channels -> SUBSET Nat]

\* The object that SubmitRequest has popped, the next request in it
InSubmit(c) == IF pc[c] = "submit" THEN {chosen[c].obj} ELSE {}

\* Every request object is in exactly one of the three lists, or being submitted, whatever
\* requests fail, expire, complete late or are discarded.
ObjectsOwnedOnce ==
    \A c \in Channels :
        /\ cached_resource[c] \cup queue[c] \cup expired_queue[c] \cup InSubmit(c) = Objs
        /\ cached_resource[c] \cap queue[c] = {} /\ cached_resource[c] \cap expired_queue[c] = {}
        /\ queue[c] \cap expired_queue[c] = {}
        /\ InSubmit(c) \cap (cached_resource[c] \cup queue[c] \cup expired_queue[c]) = {}
        /\ pc[c] = "submit" =>
              LET o == chosen[c].obj
              IN  /\ opts[c].engine_type = "kDsa" /\ chosen[c].wq \in WorkQueues
                  /\ hw[c][o] = "none"
                  /\ obj[c][o].req = accepted[c] + 1 /\ ~obj[c][o].expired

\* The fields keep their types, and the three lists of DataFlowChannelImpl share out
\* the request objects among them.
ListsConsistent == TypeOK /\ ObjectsOwnedOnce

\* An object that can be used for a new request is not in the hardware: a request
\* that expired keeps its descriptors until the device has completed it.
CachedIsIdle ==
    \A c \in Channels : \A o \in cached_resource[c] : hw[c][o] = "none"

\* A request has a pending timer exactly while it waits and has not expired, so a
\* request never reports the timeout of an earlier use of its object.
TimersExact ==
    \A c \in Channels : pc[c] # "undefined" =>
        timers[c] = {o \in queue[c] : ~obj[c][o].expired}

\* Every accepted request is waiting, answered or discarded by Close, and only one of
\* these, and is answered once; an ordered channel answers in the order of submission,
\* also when requests expire: what waits is later than what was answered.
Waiting(c) == {obj[c][o].req : o \in queue[c]}
AnsweredOnce ==
    \A c \in Channels :
        LET r == received[c]
        IN  /\ 1 .. accepted[c] = Range(r) \cup discarded[c] \cup Waiting(c)
            /\ Range(r) \cap discarded[c] = {} /\ Range(r) \cap Waiting(c) = {}
            /\ discarded[c] \cap Waiting(c) = {}
            /\ \A o, p \in queue[c] : obj[c][o].req = obj[c][p].req => o = p
            /\ \A i, j \in DOMAIN r : r[i] = r[j] => i = j
            /\ opts[c].order_type = "kOrdered" =>
                  /\ \A i, j \in DOMAIN r : i < j => r[i] < r[j]
                  /\ \A i \in DOMAIN r : \A o \in queue[c] : r[i] < obj[c][o].req

InQueue(w) == {x \in Channels \X Objs : /\ opts[x[1]].engine_type = "kDsa"
                                   /\ obj[x[1]][x[2]].work_queue = w
                                   /\ hw[x[1]][x[2]] # "none"}
Submitting(w) == {c \in Channels : pc[c] = "submit" /\ chosen[c].wq = w}
Granted(w) == {c \in Submitting(w) : chosen[c].result < Capacity[w]}

\* The quota of a work queue is never exceeded, not even if every thread that was granted
\* a place takes it, and its counter, which all threads change without a lock, is exact:
\* it counts the requests in the queue and the threads between their fetch_add and what
\* follows.
QuotaExact ==
    \A w \in WorkQueues :
        /\ size[w] = Cardinality(InQueue(w)) + Cardinality(Submitting(w))
        /\ Cardinality(InQueue(w)) + Cardinality(Granted(w)) <= Capacity[w]

\* A channel's bookkeeping agrees with the device's: each object is in one list, an object
\* free for use is in no work queue, pending timers are those of waiting requests, and the
\* quotas count what is in the queues.
ObjectsExact == ListsConsistent /\ CachedIsIdle /\ TimersExact /\ QuotaExact

\* As long as the user polls, every accepted request is answered, if only with a
\* timeout, or thrown away by Close.
EveryRequestAnswered ==
    \A c \in Channels : \A n \in DOMAIN Ops[c] :
        n <= accepted[c] ~> \/ n \in Range(received[c]) \cup discarded[c]
                            \/ pc[c] = "undefined"

(***************************************************************************)
(* What a comment says, and the code does not do.                           *)
(***************************************************************************)
\* timer_manager.h:55 says of RemoveTimer: "`ctx' MUST in the timeout list".
RemovesPendingTimers == \A c \in Channels : pc[c] # "undefined"
=============================================================================
