----------------------------- MODULE QatEngine -----------------------------
(***************************************************************************)
(* QatCodecEngine (src/src/codec/qat/qat_codec_engine.{h,cc}): asynchronous *)
(* requests to a QAT instance, polled by one user thread.  A request lives  *)
(* in a slot of two pools (its RequestMeta and its RequestCbContext), has a *)
(* timer, and ends as one entry of codec_results_: by the hardware's        *)
(* callback, by its timeout, or by being dropped when the engine falls back *)
(* to another device.                                                       *)
(*                                                                          *)
(* The engine is not thread safe, so a call runs to its end before the next *)
(* one starts; pc says where inside Poll, HandleHa or Close the thread is.  *)
(* A request's id stands for its user_ctx and for the blocks of its src and *)
(* dst.                                                                     *)
(***************************************************************************)
EXTENDS Integers, Sequences, FiniteSets, Functions

CONSTANTS
    MaxInQat,         \* max_in_qat_size_
    SlotNum,          \* next_power_of_two(max_in_qat_size_): slots of the pools
    Bufs,             \* pairs (source, destination) of QatBuf in buf_cache_
    NoBuf,            \* null QatBuf pointers
    HaEnabled,        \* ha_->IsHaEnabled()
    TriggerErrorNum,  \* FLAGS_vesal_qat_ha_trigger_error_num
    SpareUnits,       \* units of other devices left for GrabFromDiffDevice
    MaxReqId          \* bound: the last request id handed out

ASSUME SlotAssumption == /\ MaxInQat \in Nat \ {0}
                         /\ SlotNum \in Nat
                         /\ SlotNum >= MaxInQat
ASSUME BufAssumption == NoBuf \notin Bufs
ASSUME HaAssumption == /\ HaEnabled \in BOOLEAN
                       /\ TriggerErrorNum \in Nat
                       /\ SpareUnits \in Nat
ASSUME BoundAssumption == MaxReqId \in Nat

VARIABLES
    pc,               \* where the user's thread is
    next_req_id, next_recv_req_id, in_qat_num, callback_called_times,
    is_fatal, closed,
    meta,             \* request_meta_pool_: slot -> [req_id, valid]
    cb_pool,          \* request_cb_context_pool_: slot -> address in cb_ctx
    cb_ctx,           \* every RequestCbContext ever allocated
    bufs,             \* QatBuf pairs in buf_cache_
    timers,           \* timer_manager_: ids, its list is in the order of ids
    free_mem_timers,  \* free_mem_timer_manager_: the copied IOVector and IOBlock
    codec_results,    \* results not yet handed to the user
    ring,             \* contexts in the current QAT instance, oldest first
    retired,          \* contexts that devices given up by HA may still access
    error_num,        \* ha_: errors in the sliding window
    spare,            \* units HA can still fall back to
    poll_r,           \* status of PollInstance, until the running Poll has looked at it
    unseen,           \* statuses of the popped results HA has still to look at
    submitting,       \* context of the submission being unwound, 0 if none
    received,         \* history: results handed to the user
    timed_out,        \* history: requests whose timer fired
    src_freed, dst_freed  \* history: requests whose src / dst deleter was called

reqVars == <<next_req_id, next_recv_req_id, in_qat_num, callback_called_times>>
poolVars == <<meta, cb_pool, cb_ctx, bufs>>
hwVars == <<ring, retired>>
haVars == <<error_num, spare>>
pollVars == <<poll_r, unseen, submitting>>
memVars == <<free_mem_timers, timed_out, src_freed, dst_freed>>
flagVars == <<is_fatal, closed>>
vars == <<pc, reqVars, flagVars, poolVars, timers, memVars, codec_results,
          hwVars, haVars, pollVars, received>>

Slots == 0 .. SlotNum - 1
ReqIds == 1 .. MaxReqId
\* DedicatedPool::Get indexes with req_id & (size - 1)
Slot(id) == id % SlotNum

(***************************************************************************)
(* Status codes.  One code stands for each class the engine tells apart:    *)
(* Overflow for the other kNotHandle results (BadData, NotSupported...),    *)
(* ChannelError for HardwareError.                                          *)
(***************************************************************************)
CallbackStatus == {"Ok", "Overflow", "ResourceBusy", "ChannelError"}
PollStatus == {"Ok", "ShouldRetry", "ResourceBusy", "InvalidArgument", "ChannelError"}
SubmitErrors == {"ShouldRetry", "InvalidArgument", "Unknown", "ChannelError"}
Status == CallbackStatus \cup PollStatus \cup SubmitErrors \cup {"Timeout", "Dropped"}

JudgeHaErrorLevel(e) ==
    CASE e \in {"ResourceBusy", "Timeout", "ShouldRetry"} -> "Accumulate"
      [] e \in {"ChannelError", "Unknown"} -> "Immediately"
      [] OTHER -> "NotHandle"

Failed(s) == s \notin {"Ok", "ShouldRetry"}

EmptyCtx == [req_id |-> 0, buf |-> NoBuf]
Result(id, status, owner) == [ctx |-> id, status |-> status, of |-> owner]

Init ==
    /\ pc = "idle"
    /\ next_req_id = 1 /\ next_recv_req_id = 1
    /\ in_qat_num = 0 /\ callback_called_times = 0
    /\ is_fatal = FALSE /\ closed = FALSE
    /\ meta = [s \in Slots |-> [req_id |-> 0, valid |-> FALSE]]
    /\ cb_pool = [s \in Slots |-> s + 1]
    /\ cb_ctx = [i \in 1 .. SlotNum |-> EmptyCtx]
    /\ bufs = Bufs
    /\ timers = {} /\ free_mem_timers = <<>>
    /\ codec_results = <<>>
    /\ ring = <<>> /\ retired = {}
    /\ error_num = 0 /\ spare = SpareUnits
    /\ poll_r = "Ok" /\ unseen = <<>> /\ submitting = 0
    /\ received = <<>> /\ timed_out = {} /\ src_freed = {} /\ dst_freed = {}

(***************************************************************************)
(* HA                                                                       *)
(***************************************************************************)
\* The error counts RecordErrorAndCheckIsSafe may leave: the new error is
\* merged with the last one or recorded, and any number of older ones expire.
ErrorNums(e) ==
    IF JudgeHaErrorLevel(e) = "Accumulate" THEN 1 .. error_num + 1 ELSE {error_num}

ShouldFallback(e, n) ==
    \/ JudgeHaErrorLevel(e) = "Immediately"
    \/ JudgeHaErrorLevel(e) = "Accumulate" /\ n >= TriggerErrorNum

ModifyAll(results, change_to) ==
    [i \in DOMAIN results |-> [results[i] EXCEPT !.status = change_to]]

\* HandleHa up to the point where ClearRetiredQat starts to drop the inflight
\* requests; results are the ones still buffered, back is where the caller
\* goes on when HA is not triggered.
HandleHa(e, results, back) ==
    /\ \E n \in ErrorNums(e) :
          IF ShouldFallback(e, n)
          THEN /\ error_num' = 0
               /\ codec_results' = ModifyAll(results, "Dropped")
               /\ pc' = "drop"
          ELSE /\ error_num' = n
               /\ codec_results' = results
               /\ pc' = back
    /\ UNCHANGED spare

\* Mutants: the context is reset for reuse; the dummy result is forgotten.
InterceptFreesCtx(t, code) ==
    LET c == cb_pool[Slot(t)]
    IN  /\ meta' = [meta EXCEPT ![Slot(t)].valid = FALSE]
        /\ codec_results' = Append(codec_results, Result(t, code, t))
        /\ cb_ctx' = Append([cb_ctx EXCEPT ![c].buf = NoBuf], EmptyCtx)
        /\ cb_pool' = [cb_pool EXCEPT ![Slot(t)] = Len(cb_ctx) + 1]
        /\ bufs' = bufs \cup {cb_ctx[c].buf}
InterceptSilently(t, code) ==
    /\ meta' = [meta EXCEPT ![Slot(t)].valid = FALSE]
    /\ cb_ctx' = Append(cb_ctx, EmptyCtx)
    /\ cb_pool' = [cb_pool EXCEPT ![Slot(t)] = Len(cb_ctx) + 1]
    /\ UNCHANGED <<codec_results, bufs>>

\* The timer's request gets a dummy result; its context stays with the
\* hardware and the slot gets a new one.
InterceptInflightReq(t, code) ==
    LET s == Slot(t)
        id == meta[s].req_id
    IN  /\ meta' = [meta EXCEPT ![s].valid = FALSE]
        /\ codec_results' = Append(codec_results, Result(id, code, id))
        /\ cb_ctx' = Append(cb_ctx, EmptyCtx)
        /\ cb_pool' = [cb_pool EXCEPT ![s] = Len(cb_ctx) + 1]
        /\ UNCHANGED bufs

\* Mutant: the timers fire in any order.
AnyTimer(t) == t \in timers

FirstTimer(t) == t \in timers /\ \A u \in timers : t <= u

\* RequestCbContext::Reset: the buffers go back to the cache.
ResetCtx(c) ==
    /\ cb_ctx' = [cb_ctx EXCEPT ![c] = EmptyCtx]
    /\ bufs' = bufs \cup ({cb_ctx[c].buf} \ {NoBuf})

\* ClearRetiredQat: one inflight request after the other, oldest first.
DropInflightReq ==
    /\ pc = "drop"
    /\ \E t \in timers :
          /\ FirstTimer(t)
          /\ timers' = timers \ {t}
          /\ InterceptInflightReq(t, "Dropped")
    /\ UNCHANGED <<pc, reqVars, flagVars, memVars, hwVars, haVars, pollVars, received>>

\* Mutant: next_recv_req_id_ is not moved on.
ReinitKeepsRecvId ==
    /\ pc = "drop" /\ timers = {}
    /\ pc' = "idle"
    /\ callback_called_times' = 0
    /\ in_qat_num' = 0
    /\ retired' = retired \cup Range(ring)
    /\ ring' = <<>>
    /\ spare' \in 0 .. spare /\ is_fatal' = (spare = 0)
    /\ IF submitting = 0 THEN UNCHANGED <<cb_ctx, bufs>> ELSE ResetCtx(submitting)
    /\ submitting' = 0
    /\ unseen' = <<>>
    /\ UNCHANGED <<next_req_id, next_recv_req_id, closed, meta, cb_pool, timers, memVars,
                   codec_results, error_num, poll_r, received>>

\* The end of DoHa and HandleHa: QatHandle::Reinit tries the units of other
\* devices until a session can be created.  The failed submission, if that is
\* what triggered HA, then cleans up its context.
Reinit ==
    /\ pc = "drop" /\ timers = {}
    /\ pc' = "idle"
    /\ next_recv_req_id' = next_req_id
    /\ callback_called_times' = 0
    /\ in_qat_num' = 0
    /\ retired' = retired \cup Range(ring)
    /\ ring' = <<>>
    /\ \/ \E n \in 0 .. spare - 1 : spare' = n /\ UNCHANGED is_fatal
       \/ spare' = 0 /\ is_fatal' = TRUE
    /\ IF submitting = 0 THEN UNCHANGED <<cb_ctx, bufs>> ELSE ResetCtx(submitting)
    /\ submitting' = 0
    /\ unseen' = <<>>
    /\ UNCHANGED <<next_req_id, closed, meta, cb_pool, timers, memVars,
                   codec_results, error_num, poll_r, received>>

(***************************************************************************)
(* SubmitAsyncRequest.  Rejections that change nothing (bad algorithm or    *)
(* level, fatal engine, full ring) are not steps.                           *)
(***************************************************************************)
\* Mutant: one request too many.
QatRingFullLate == in_qat_num > MaxInQat

QatRingFull == in_qat_num >= MaxInQat

CanSubmit == /\ pc = "idle" /\ ~closed /\ ~is_fatal
             /\ ~QatRingFull
             /\ next_req_id <= MaxReqId

SubmitOk ==
    LET id == next_req_id
        s == Slot(id)
        c == cb_pool[s]
    IN  /\ CanSubmit
        /\ \E b \in bufs :
              /\ bufs' = bufs \ {b}
              /\ cb_ctx' = [cb_ctx EXCEPT ![c] = [req_id |-> id, buf |-> b]]
        /\ meta' = [meta EXCEPT ![s] = [req_id |-> id, valid |-> TRUE]]
        /\ ring' = Append(ring, c)
        /\ in_qat_num' = in_qat_num + 1
        /\ next_req_id' = next_req_id + 1
        /\ timers' = timers \cup {id}
        /\ UNCHANGED <<pc, next_recv_req_id, callback_called_times, flagVars, cb_pool,
                       memVars, codec_results, retired, haVars, pollVars, received>>

\* PrepareCommonReqData fails, out of QatBufs or of DMA memory, after it has
\* written the meta of the slot.
PrepareFails ==
    /\ CanSubmit
    /\ meta' = [meta EXCEPT ![Slot(next_req_id)].req_id = next_req_id]
    /\ UNCHANGED <<pc, reqVars, flagVars, cb_pool, cb_ctx, bufs, timers, memVars,
                   codec_results, hwVars, haVars, pollVars, received>>

\* The driver rejects the request.
SubmitFails(e) ==
    LET c == cb_pool[Slot(next_req_id)]
    IN  /\ CanSubmit
        /\ meta' = [meta EXCEPT ![Slot(next_req_id)].req_id = next_req_id]
        /\ IF HaEnabled
           THEN /\ HandleHa(e, codec_results, "idle")
                /\ UNCHANGED is_fatal
           ELSE /\ is_fatal' = (e = "ChannelError")
                /\ UNCHANGED <<pc, codec_results, haVars>>
        \* the clean-up guard runs after HandleHa
        /\ \E b \in bufs :
              IF pc' = "drop"
              THEN /\ submitting' = c
                   /\ bufs' = bufs \ {b}
                   /\ cb_ctx' = [cb_ctx EXCEPT ![c] = [req_id |-> next_req_id, buf |-> b]]
              ELSE /\ cb_ctx' = [cb_ctx EXCEPT ![c] = EmptyCtx]
                   /\ UNCHANGED <<submitting, bufs>>
        /\ UNCHANGED <<reqVars, closed, cb_pool, timers, memVars, hwVars, poll_r,
                       unseen, received>>

\* Mutant: the callback does not look whether the request is still valid.
CallbackUnmatched(status) ==
    LET c == Head(ring)
        s == Slot(cb_ctx[c].req_id)
    IN  /\ pc \in {"poll", "close"}
        /\ ring # <<>>
        /\ ring' = Tail(ring)
        /\ callback_called_times' = callback_called_times + 1
        /\ next_recv_req_id' = next_recv_req_id + 1
        /\ codec_results' = Append(codec_results,
                                   Result(meta[s].req_id, status, cb_ctx[c].req_id))
        /\ meta' = [meta EXCEPT ![s].valid = FALSE]
        /\ timers' = timers \ {meta[s].req_id}
        /\ ResetCtx(c)
        /\ UNCHANGED <<pc, next_req_id, in_qat_num, flagVars, cb_pool, memVars,
                       retired, haVars, pollVars, received>>

(***************************************************************************)
(* Callback, run by the driver inside PollInstance (from Poll, or from the  *)
(* retries of Close) for a completed request.  QAT completes the requests   *)
(* of an instance in the order of submission.                               *)
(***************************************************************************)
Callback(status) ==
    LET c == Head(ring)
        r == cb_ctx[c].req_id
        s == Slot(r)
    IN  /\ pc \in {"poll", "close"}
        /\ ring # <<>>
        /\ ring' = Tail(ring)
        /\ callback_called_times' = callback_called_times + 1
        /\ next_recv_req_id' = next_recv_req_id + 1
        /\ IF meta[s].valid
           THEN /\ codec_results' = Append(codec_results, Result(meta[s].req_id, status, r))
                /\ meta' = [meta EXCEPT ![s].valid = FALSE]
                /\ timers' = timers \ {meta[s].req_id}
           ELSE UNCHANGED <<codec_results, meta, timers>>
        /\ ResetCtx(c)
        /\ UNCHANGED <<pc, next_req_id, in_qat_num, flagVars, cb_pool, memVars,
                       retired, haVars, pollVars, received>>

(***************************************************************************)
(* Poll                                                                     *)
(***************************************************************************)
Pop(n) ==
    LET k == IF n < Len(codec_results) THEN n ELSE Len(codec_results)
    IN  [popped |-> SubSeq(codec_results, 1, k),
         rest |-> SubSeq(codec_results, k + 1, Len(codec_results))]

PollFatal(max_num) ==
    /\ pc = "idle" /\ ~closed /\ is_fatal
    /\ received' = received \o Pop(max_num).popped
    /\ codec_results' = Pop(max_num).rest
    /\ UNCHANGED <<pc, reqVars, flagVars, poolVars, timers, memVars, hwVars, haVars, pollVars>>

\* Mutant: callback_called_times_ is not reset.
PollStartNoReset ==
    /\ pc = "idle" /\ ~closed /\ ~is_fatal
    /\ pc' = "poll"
    /\ UNCHANGED <<reqVars, flagVars, poolVars, timers, memVars, codec_results, hwVars,
                   haVars, pollVars, received>>

PollStart ==
    /\ pc = "idle" /\ ~closed /\ ~is_fatal
    /\ pc' = "poll"
    /\ callback_called_times' = 0
    /\ UNCHANGED <<next_req_id, next_recv_req_id, in_qat_num, flagVars, poolVars, timers,
                   memVars, codec_results, hwVars, haVars, pollVars, received>>

PollInstanceReturns(r) ==
    /\ pc = "poll"
    /\ pc' = "timeout"
    /\ poll_r' = r
    /\ UNCHANGED <<reqVars, flagVars, poolVars, timers, memVars, codec_results, hwVars,
                   haVars, unseen, submitting, received>>

\* timer_manager_->HandleTimeout: the first timer is due.
RequestTimeout ==
    /\ pc = "timeout"
    /\ \E t \in timers :
          /\ FirstTimer(t)
          /\ timers' = timers \ {t}
          /\ InterceptInflightReq(t, "Timeout")
          /\ free_mem_timers' = Append(free_mem_timers,
                                       [slot |-> Slot(t), dst |-> meta[Slot(t)].req_id])
          /\ timed_out' = timed_out \cup {meta[Slot(t)].req_id}
    /\ UNCHANGED <<pc, reqVars, flagVars, src_freed, dst_freed, hwVars, haVars, pollVars,
                   received>>

TimeoutsHandled ==
    /\ pc = "timeout"
    /\ pc' = "freemem"
    /\ UNCHANGED <<reqVars, flagVars, poolVars, timers, memVars, codec_results, hwVars,
                   haVars, pollVars, received>>

\* free_mem_timer_manager_->HandleTimeout: the IOBlock of dst was copied, the
\* IOVector of src still points to the blocks stored in the slot's meta.
FreeMemTimeout ==
    /\ pc = "freemem"
    /\ free_mem_timers # <<>>
    /\ LET f == Head(free_mem_timers)
       IN  /\ dst_freed' = dst_freed \cup {f.dst}
           /\ src_freed' = src_freed \cup {meta[f.slot].req_id}
    /\ free_mem_timers' = Tail(free_mem_timers)
    /\ UNCHANGED <<pc, reqVars, flagVars, poolVars, timers, timed_out, codec_results,
                   hwVars, haVars, pollVars, received>>

\* From "update the in qat req number" on: without HA to the end of Poll, with
\* HA up to the loop over the popped results.
PollPops(max_num) ==
    LET p == Pop(max_num)
    IN  /\ pc = "freemem"
        /\ in_qat_num' = in_qat_num - callback_called_times
        /\ received' = received \o p.popped
        /\ IF ~HaEnabled
           THEN /\ is_fatal' = (p.popped = <<>> /\ Failed(poll_r))
                /\ codec_results' = p.rest
                /\ pc' = "idle"
                /\ UNCHANGED <<unseen, haVars>>
           ELSE /\ IF Failed(poll_r)
                   THEN HandleHa(poll_r, p.rest, "idle") /\ UNCHANGED unseen
                   ELSE /\ unseen' = [i \in DOMAIN p.popped |-> p.popped[i].status]
                        /\ codec_results' = p.rest
                        /\ pc' = "scan"
                        /\ UNCHANGED haVars
                /\ UNCHANGED is_fatal
        /\ poll_r' = "Ok"
        /\ UNCHANGED <<next_req_id, next_recv_req_id, callback_called_times, closed,
                       poolVars, timers, memVars, hwVars, submitting>>

\* One round of the loop that shows the popped results to HA.
ScanPopped ==
    /\ pc = "scan"
    /\ IF unseen = <<>>
       THEN pc' = "idle" /\ UNCHANGED <<unseen, codec_results, haVars>>
       ELSE /\ unseen' = Tail(unseen)
            /\ IF Head(unseen) = "Ok"
               THEN UNCHANGED <<pc, codec_results, haVars>>
               ELSE HandleHa(Head(unseen), codec_results, "scan")
    /\ UNCHANGED <<reqVars, flagVars, poolVars, timers, memVars, hwVars, poll_r,
                   submitting, received>>

(***************************************************************************)
(* Close: QatHandle::Uninit closes one session after the other.  The driver *)
(* removes a session only when none of its requests is in the instance;     *)
(* TryCloseSession polls between its attempts.                              *)
(***************************************************************************)
CloseStart ==
    /\ pc = "idle" /\ ~closed
    /\ pc' = "close"
    /\ UNCHANGED <<reqVars, flagVars, poolVars, timers, memVars, codec_results, hwVars,
                   haVars, pollVars, received>>

\* Every list and pool of the engine is destroyed, and with them the contexts and buffers
\* of the devices given up by HA, whose sessions are closed without a look at the result:
\* nothing keeps such a device from accessing them still.
CloseSucceeds ==
    /\ pc = "close" /\ ring = <<>>
    /\ pc' = "idle"
    /\ closed' = TRUE
    /\ timers' = {} /\ free_mem_timers' = <<>> /\ codec_results' = <<>>
    /\ cb_ctx' = [i \in DOMAIN cb_ctx |-> EmptyCtx]
    /\ bufs' = Bufs
    /\ UNCHANGED <<reqVars, is_fatal, meta, cb_pool, timed_out, src_freed, dst_freed, hwVars,
                   haVars, pollVars, received>>

\* A session cannot be closed, because of its requests or because the driver fails.  The
\* ones closed before it stay so, and the driver rejects what is submitted to them
\* (SubmitFails).
CloseFails ==
    /\ pc = "close"
    /\ pc' = "idle"
    /\ UNCHANGED <<reqVars, flagVars, poolVars, timers, memVars, codec_results, hwVars,
                   haVars, pollVars, received>>

Next ==
    \/ SubmitOk
    \/ PrepareFails
    \/ \E e \in SubmitErrors : SubmitFails(e)
    \/ \E st \in CallbackStatus : Callback(st)
    \/ PollStart
    \/ \E n \in 1 .. MaxInQat : PollFatal(n)
    \/ \E r \in PollStatus : PollInstanceReturns(r)
    \/ RequestTimeout
    \/ TimeoutsHandled
    \/ FreeMemTimeout
    \/ \E n \in 1 .. MaxInQat : PollPops(n)
    \/ ScanPopped
    \/ DropInflightReq
    \/ Reinit
    \/ CloseStart
    \/ CloseSucceeds
    \/ CloseFails

Spec == Init /\ [][Next]_vars

(***************************************************************************)
(* Fairness: the user keeps polling (and a call that started ends), the     *)
(* clock advances, so that the first timer does not stay short of its       *)
(* deadline at every Poll, and free_mem timers are finite in number.        *)
(***************************************************************************)
PollSteps == \/ \E r \in PollStatus : PollInstanceReturns(r)
             \/ TimeoutsHandled
             \/ \E n \in 1 .. MaxInQat : PollPops(n)
             \/ ScanPopped
             \/ DropInflightReq
             \/ Reinit
             \/ CloseSucceeds
             \/ CloseFails

UserPolls == PollStart \/ \E n \in 1 .. MaxInQat : PollFatal(n)

FairSpec == /\ Spec
            /\ WF_vars(PollSteps)
            /\ SF_vars(UserPolls)
            /\ SF_vars(RequestTimeout)

-----------------------------------------------------------------------------
CtxAddrs == 1 .. Len(cb_ctx)
Results == Seq([ctx : Nat, status : Status, of : Nat])
\* Contexts whose buffers a device, the current or a retired one, may access.
HwContexts == Range(ring) \cup retired

\* The types of the fields of QatCodecEngine.
TypeOK ==
    /\ pc \in {"idle", "poll", "timeout", "freemem", "scan", "drop", "close"}
    /\ next_req_id \in Nat \ {0} /\ next_recv_req_id \in Nat \ {0}
    /\ in_qat_num \in Nat /\ callback_called_times \in Nat
    /\ is_fatal \in BOOLEAN /\ closed \in BOOLEAN
    /\ meta \in [Slots -> [req_id : Nat, valid : BOOLEAN]]
    /\ cb_ctx \in Seq([req_id : Nat, buf : Bufs \cup {NoBuf}])
    /\ cb_pool \in [Slots -> CtxAddrs]
    /\ bufs \subseteq Bufs
    /\ timers \subseteq Nat
    /\ free_mem_timers \in Seq([slot : Slots, dst : Nat])
    /\ codec_results \in Results /\ received \in Results
    /\ ring \in Seq(CtxAddrs) /\ retired \subseteq CtxAddrs
    /\ error_num \in Nat /\ spare \in Nat
    /\ poll_r \in PollStatus /\ unseen \in Seq(Status)
    /\ submitting \in Nat /\ (submitting # 0 => submitting \in CtxAddrs)
    /\ timed_out \subseteq Nat /\ src_freed \subseteq Nat /\ dst_freed \subseteq Nat

\* Poll "gurantees that the order of callback executed matches the order of
\* submission" (codec.h:468), and no request is lost or answered twice: what the
\* user got, then what is buffered, then the requests with a timer are together
\* the ids 1 .. next_req_id_ - 1 in order, through callbacks, timeouts, late
\* callbacks, HA and failed submissions.
EachRequestOnceInOrder ==
    /\ \A i \in DOMAIN received : received[i].ctx = i
    /\ \A i \in DOMAIN codec_results : codec_results[i].ctx = Len(received) + i
    /\ ~closed => timers = Len(received) + Len(codec_results) + 1 .. next_req_id - 1

\* A callback completes only the request it was submitted for: a result carries
\* the output of its own request, also when it arrives after that request has
\* timed out and its slot could have been given to a later one.
ResultIsOwn ==
    \A i \in DOMAIN codec_results : codec_results[i].of = codec_results[i].ctx

\* The QatBufs of a context that a device may still access are neither in buf_cache_ nor
\* in another context: until Close also those of the devices given up by HA, after it
\* (QatCodecEngine::Close destroys them all) those of the device in use.
HardwareBuffersUntouched ==
    \A c \in IF closed THEN Range(ring) ELSE HwContexts :
        /\ cb_ctx[c].buf \in Bufs \ bufs
        /\ \A d \in CtxAddrs \ {c} : cb_ctx[d].buf # cb_ctx[c].buf

\* QatBufs are conserved: every pair is in buf_cache_ or owned by a context, so
\* Close finds all of them (QatBufCache::Clear checks in_cache_num_ == 0).
NoBufferLost ==
    \A b \in Bufs : b \in bufs \/ \E c \in CtxAddrs : cb_ctx[c].buf = b

\* QatRingFull keeps the instance within its concurrency, whatever in_qat_num_
\* counted before, and the subtraction in Poll (in_qat_num_ is a uint64_t) does
\* not wrap.
InQatWithinLimits ==
    /\ Len(ring) <= MaxInQat
    /\ pc \in {"poll", "timeout", "freemem"} => callback_called_times <= in_qat_num

\* The log line "Callback out of order happens!" is never written: the context
\* the driver completes next is the one of next_recv_req_id_.
CallbackInOrder ==
    ring # <<>> => cb_ctx[Head(ring)].req_id = next_recv_req_id

\* VESAL_DCHECK of InterceptInflightReq and MatchAndInvalidateFlightReq: the
\* request of a timer that fires is still the one in its slot, and valid.
TimerMatchesSlot ==
    \A t \in timers : meta[Slot(t)] = [req_id |-> t, valid |-> TRUE]

\* The requests in the instance are the ids
\* next_recv_req_id_ .. next_req_id_ - 1, at most SlotNum of them, so that no two
\* share a slot; results end the ids before the timers begin.
InflightWindow ==
    /\ next_recv_req_id <= next_req_id
    /\ Len(ring) = next_req_id - next_recv_req_id
    /\ \A i \in DOMAIN ring : cb_ctx[ring[i]].req_id = next_recv_req_id + i - 1
    /\ in_qat_num <= MaxInQat
    /\ Len(ring) <= in_qat_num
    /\ pc \in {"poll", "timeout", "freemem"} =>
          Len(ring) + callback_called_times <= in_qat_num
    /\ ~closed => /\ next_recv_req_id <= Len(received) + Len(codec_results) + 1
                  /\ Len(received) + Len(codec_results) + 1 <= next_req_id
    /\ closed => pc = "idle" /\ timers = {} /\ ring = <<>>

\* A slot is valid exactly for the request with a timer; the context of an
\* inflight request is in the pool only as long as that request has a timer.
SlotOwnership ==
    /\ TimerMatchesSlot
    /\ \A s \in Slots :
          /\ meta[s].valid => meta[s].req_id \in timers /\ Slot(meta[s].req_id) = s
          /\ cb_pool[s] \notin retired
          /\ \A i \in DOMAIN ring :
                cb_pool[s] = ring[i] => /\ next_recv_req_id + i - 1 \in timers
                                        /\ Slot(next_recv_req_id + i - 1) = s
    /\ \A s, q \in Slots : cb_pool[s] = cb_pool[q] => s = q
    /\ \A i, j \in DOMAIN ring : ring[i] = ring[j] => i = j
    /\ \A i \in DOMAIN ring : ring[i] \notin retired

\* Until Close a context owns buffers exactly while hardware may access them, or while the
\* submission it was filled for is unwound; no two owners share a pair.
BufferOwnership ==
    /\ ~closed => \A c \in CtxAddrs :
                      cb_ctx[c].buf # NoBuf <=> c \in HwContexts \/ c = submitting
    /\ \A c \in CtxAddrs : cb_ctx[c].buf \notin bufs
    /\ \A c, d \in CtxAddrs : cb_ctx[c].buf = cb_ctx[d].buf => c = d \/ cb_ctx[c].buf = NoBuf
    /\ NoBufferLost
    /\ submitting # 0 => pc = "drop" /\ submitting \notin HwContexts

\* What the properties rest on (proved in QatEngineProofs): ids, slots, contexts, timers
\* and buffers fit together after every step of a submission, a callback, Poll, HandleHa
\* and Close.
InductiveInvariant ==
    /\ TypeOK
    /\ EachRequestOnceInOrder
    /\ ResultIsOwn
    /\ InflightWindow
    /\ SlotOwnership
    /\ BufferOwnership

\* A request that was accepted is answered if the user keeps polling, even when
\* the hardware never completes it, and with HA even when the engine becomes
\* fatal.  Without HA a fatal engine leaves its inflight requests unanswered.
EveryRequestAnswered ==
    \A id \in ReqIds :
        id < next_req_id ~> \/ id <= Len(received)
                            \/ closed
                            \/ is_fatal /\ ~HaEnabled

\* The abstract channel: requests are delivered in the order of acceptance.
Channel == INSTANCE AsyncChannel WITH
               accepted <- next_req_id - 1,
               delivered <- [i \in DOMAIN received |-> received[i].ctx]
ChannelSpec == Channel!Spec

(***************************************************************************)
(* What a document says of the engine, and the code does not do.            *)
(***************************************************************************)
\* io_vector.h:38: of a request that times out vesal takes over the memory and
\* calls the deleters; the memory of every other request stays with the caller.
DeletersOnlyOfTimedOut == src_freed \subseteq timed_out /\ dst_freed \subseteq timed_out
=============================================================================
