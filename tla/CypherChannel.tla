--------------------------- MODULE CypherChannel ---------------------------
(***************************************************************************)
(* QatCypherChannel (src/src/cypher/qat_cypher_channel.{h,cc}): encryption  *)
(* and hash requests of one thread to a QAT instance.  As in the codec      *)
(* engine a request lives in a slot of two pools and has a timer, but its   *)
(* result waits in a ring, in the place reserved when it was submitted, and *)
(* the channel may have several sessions, added and removed while requests  *)
(* are in the hardware.                                                     *)
(*                                                                          *)
(* Requests are numbered from 0; a number stands for the user's context,    *)
(* the blocks of src and dst, and the place in the ring.  The slot's IV     *)
(* buffer is used by AES-XTS only.                                          *)
(***************************************************************************)
EXTENDS Integers, Sequences, FiniteSets

CONSTANTS
    MaxInQat,   \* max_in_qat_size_
    SlotNum,    \* next_power_of_two(max_in_qat_size_): slots of the two pools
    RingSize,   \* next_power_of_two(max_in_qat_size_ * buffer multiplier)
    MaxSession, \* bound: sessions of the channel
    MaxReq,     \* bound: requests
    MaxPoll     \* bound of max_num in Poll

\* What next_power_of_two makes of max_in_qat_size_: the pools have a slot for every
\* request that fits in the instance.
ConstantsOK ==
    /\ MaxInQat \in Nat /\ SlotNum \in Nat \ {0} /\ MaxInQat <= SlotNum
    /\ RingSize \in Nat \ {0} /\ MaxPoll \in Nat

VARIABLES
    pc,             \* where the user's thread is
    unit_held,      \* a QatUnit is held
    closed, in_qat_num, next_req_id,
    sessions,       \* session pairs: [hash, enc, dec]
    todo,           \* session pairs the running Close or RemoveSession has still to close
    meta,           \* request_meta_pool_: slot -> [req_id, valid]
    cb_pool,        \* request_cb_context_pool_: slot -> address in cb_ctx
    cb_ctx,         \* every CypherCbContext ever allocated
    discarded,      \* discarded_cb_ctxs_
    in_cache_num,   \* QatBufs in buf_cache_
    timers,         \* timer_manager_: requests with a timer, the oldest due first
    free_mem_timers,
    ring, head_id,  \* req_ring_queue_; its tail_id is next_req_id
    hw,             \* contexts in the QAT instance, oldest first
    received,       \* history: results handed to the user
    undefined       \* why the code's behaviour is undefined from here on, or "no"

reqVars == <<in_qat_num, next_req_id>>
sessVars == <<unit_held, closed, sessions>>
poolVars == <<meta, cb_pool, cb_ctx, discarded, in_cache_num>>
ringVars == <<ring, head_id, received>>
vars == <<pc, reqVars, sessVars, todo, poolVars, timers, free_mem_timers, ringVars, hw, undefined>>

Slots == 0 .. SlotNum - 1
Slot(id) == id % SlotNum
None == -1

\* QatBufCache: two buffers for each request, and some extra
BufNum == 2 * MaxInQat + MaxInQat \div 2

\* A context; iv says whether op.pIv points to the IV buffer of a slot
NewCtx(iv) == [req_id |-> None, bufs |-> FALSE, iv |-> iv, sess |-> <<None, "enc">>]
NoResult == [ctx |-> None, of |-> None]

Init ==
    /\ pc = "idle" /\ unit_held = FALSE /\ closed = TRUE
    /\ in_qat_num = 0 /\ next_req_id = 0
    /\ sessions = <<>> /\ todo = <<>>
    /\ meta = [s \in Slots |-> [req_id |-> None, valid |-> FALSE]]
    /\ cb_pool = [s \in Slots |-> s + 1]
    /\ cb_ctx = [i \in 1 .. SlotNum |-> NewCtx(FALSE)]
    /\ discarded = {} /\ in_cache_num = 0
    /\ timers = {} /\ free_mem_timers = <<>>
    /\ ring = [i \in 0 .. RingSize - 1 |-> [result |-> NoResult, id |-> None]]
    /\ head_id = 0 /\ hw = <<>>
    /\ received = <<>> /\ undefined = "no"

Idle == pc = "idle" /\ undefined = "no"
Open == Idle /\ ~closed

(***************************************************************************)
(* Sessions.  A pair has a session for each direction; for a hash only the  *)
(* first is initialised.                                                    *)
(***************************************************************************)
\* GetEncryptSession, GetDecryptSession
SessionOf(p, dir) == IF dir = "enc" THEN p.enc ELSE p.dec

OpenPair(hash) == [hash |-> hash, enc |-> "open", dec |-> IF hash THEN "closed" ELSE "open"]

\* A unit is grabbed and the default session initialised; the buffers, and an IV
\* buffer for each slot, are allocated.
InitOk(hash) ==
    /\ Idle /\ closed /\ ~unit_held /\ sessions = <<>>
    /\ unit_held' = TRUE /\ closed' = FALSE
    /\ sessions' = <<OpenPair(hash)>>
    /\ in_cache_num' = BufNum
    /\ cb_ctx' = [i \in DOMAIN cb_ctx |-> NewCtx(TRUE)]
    /\ UNCHANGED <<pc, reqVars, todo, meta, cb_pool, discarded, timers, free_mem_timers,
                   ringVars, hw, undefined>>

\* A session cannot be initialised.  The unit is put back only if the session that
\* was can be closed again, otherwise "this channel is doomed".
InitFails ==
    /\ Idle /\ closed /\ ~unit_held /\ sessions = <<>>
    /\ unit_held' \in BOOLEAN
    /\ UNCHANGED <<pc, reqVars, closed, sessions, todo, poolVars, timers, free_mem_timers,
                   ringVars, hw, undefined>>

\* On failure nothing is added to sessions_.
AddSession(hash) ==
    /\ Open /\ Len(sessions) < MaxSession
    /\ sessions' = Append(sessions, OpenPair(hash))
    /\ UNCHANGED <<pc, reqVars, unit_held, closed, todo, poolVars, timers, free_mem_timers,
                   ringVars, hw, undefined>>

RemoveSession(s) ==
    /\ Open /\ s > 1 /\ sessions[s].enc # "null"
    /\ pc' = "remove" /\ todo' = <<s>>
    /\ UNCHANGED <<reqVars, sessVars, poolVars, timers, free_mem_timers, ringVars, hw, undefined>>

CloseStart ==
    /\ Open
    /\ pc' = "close" /\ todo' = [s \in 1 .. Len(sessions) |-> s]
    /\ UNCHANGED <<reqVars, sessVars, poolVars, timers, free_mem_timers, ringVars, hw, undefined>>

\* The driver does not remove a session that has requests in the instance.
Removable(s, dir) == \A i \in DOMAIN hw : cb_ctx[hw[i]].sess # <<s, dir>>

\* UninitSession: TryCloseSession of the first direction that is still open
SessionClosed ==
    LET s == Head(todo)
        dir == IF sessions[s].enc = "open" THEN "enc" ELSE "dec"
    IN  /\ pc \in {"close", "remove"} /\ todo # <<>>
        /\ SessionOf(sessions[s], dir) = "open" /\ Removable(s, dir)
        /\ sessions' = [sessions EXCEPT ![s] = IF dir = "enc" THEN [@ EXCEPT !.enc = "closed"]
                                                             ELSE [@ EXCEPT !.dec = "closed"]]
        /\ UNCHANGED <<pc, reqVars, unit_held, closed, todo, poolVars, timers,
                       free_mem_timers, ringVars, hw, undefined>>

\* Mutant: only the first session is asked for.
PairUninitedEncOnly ==
    LET s == Head(todo)
    IN  /\ pc \in {"close", "remove"} /\ todo # <<>>
        /\ sessions[s].enc # "open"
        /\ sessions' = [sessions EXCEPT ![s].enc = "null", ![s].dec = "null"]
        /\ todo' = Tail(todo)
        /\ UNCHANGED <<pc, reqVars, unit_held, closed, poolVars, timers, free_mem_timers,
                       ringVars, hw, undefined>>

\* Both sessions of the pair are closed (or gone): the pointers are reset.
PairUninited ==
    LET s == Head(todo)
    IN  /\ pc \in {"close", "remove"} /\ todo # <<>>
        /\ "open" \notin {sessions[s].enc, sessions[s].dec}
        /\ sessions' = [sessions EXCEPT ![s].enc = "null", ![s].dec = "null"]
        /\ todo' = Tail(todo)
        /\ UNCHANGED <<pc, reqVars, unit_held, closed, poolVars, timers, free_mem_timers,
                       ringVars, hw, undefined>>

\* The attempts are used up; the pairs closed before stay so.
UninitFails ==
    /\ pc \in {"close", "remove"} /\ todo # <<>>
    /\ "open" \in {sessions[Head(todo)].enc, sessions[Head(todo)].dec}
    /\ pc' = "idle" /\ todo' = <<>>
    /\ UNCHANGED <<reqVars, sessVars, poolVars, timers, free_mem_timers, ringVars, hw, undefined>>

SessionRemoved ==
    /\ pc = "remove" /\ todo = <<>> /\ pc' = "idle"
    /\ UNCHANGED <<reqVars, sessVars, todo, poolVars, timers, free_mem_timers, ringVars, hw, undefined>>

\* Everything goes: results not polled, timers, contexts (with their buffers).
CloseDone ==
    /\ pc = "close" /\ todo = <<>>
    /\ pc' = "idle" /\ closed' = TRUE /\ unit_held' = FALSE
    /\ timers' = {} /\ free_mem_timers' = <<>> /\ discarded' = {}
    /\ cb_ctx' = [i \in DOMAIN cb_ctx |-> NewCtx(FALSE)]
    /\ in_cache_num' = in_cache_num
                       + 2 * Cardinality({i \in DOMAIN cb_ctx : cb_ctx[i].bufs})
    /\ UNCHANGED <<reqVars, sessions, todo, meta, cb_pool, ringVars, hw, undefined>>

(***************************************************************************)
(* SubmitAsync.  Rejections that change nothing (full channel or ring, bad  *)
(* arguments, no DMA memory) are not steps.                                 *)
(***************************************************************************)
\* Mutant: one request too many.
IsChannelFullLate == in_qat_num > MaxInQat

IsChannelFull == in_qat_num = MaxInQat

\* Mutant: results nobody has polled do not count.
RingFullNever == FALSE

\* InflightReqRingQueue::IsFull
RingFull == next_req_id - head_id = RingSize

CanSubmit == Open /\ ~IsChannelFull /\ ~RingFull /\ in_cache_num >= 2 /\ next_req_id < MaxReq

\* The session the request goes to: a hash always uses the first
Target(s, op) == <<s, IF sessions[s].hash THEN "enc" ELSE op>>

\* NewCypherCallbackCtx finds an open session and, for AES-XTS, an IV buffer
Submittable(s, op) ==
    /\ SessionOf(sessions[s], Target(s, op)[2]) = "open"
    /\ sessions[s].hash \/ cb_ctx[cb_pool[Slot(next_req_id)]].iv

SubmitOk(s, op) ==
    LET slot == Slot(next_req_id)
        c == cb_pool[slot]
    IN  /\ CanSubmit /\ Submittable(s, op)
        /\ cb_ctx' = [cb_ctx EXCEPT ![c].req_id = next_req_id, ![c].bufs = TRUE,
                                    ![c].sess = Target(s, op)]
        /\ in_cache_num' = in_cache_num - 2
        /\ meta' = [meta EXCEPT ![slot] = [req_id |-> next_req_id, valid |-> TRUE]]
        /\ timers' = timers \cup {next_req_id}
        /\ hw' = Append(hw, c)
        /\ next_req_id' = next_req_id + 1 /\ in_qat_num' = in_qat_num + 1
        /\ UNCHANGED <<pc, sessVars, todo, cb_pool, discarded, free_mem_timers, ringVars, undefined>>

\* The driver refuses the request; the context is reset.
SubmitFails(s, op) ==
    LET c == cb_pool[Slot(next_req_id)]
    IN  /\ CanSubmit /\ Submittable(s, op)
        /\ cb_ctx' = [cb_ctx EXCEPT ![c] = NewCtx(cb_ctx[c].iv)]
        /\ UNCHANGED <<pc, reqVars, sessVars, todo, meta, cb_pool, discarded, in_cache_num,
                       timers, free_mem_timers, ringVars, hw, undefined>>

\* Either the session is gone (removed, or closed by a Close that failed later), or
\* op.pIv was never set and the tweak is copied to wherever it points.
SubmitUndefined(s, op) ==
    /\ CanSubmit /\ ~Submittable(s, op)
    /\ undefined' = IF SessionOf(sessions[s], Target(s, op)[2]) = "open" THEN "iv" ELSE "session"
    /\ UNCHANGED <<pc, reqVars, sessVars, todo, poolVars, timers, free_mem_timers, ringVars,
                   hw>>

(***************************************************************************)
(* Poll                                                                     *)
(***************************************************************************)
PollStart ==
    /\ Open /\ pc' = "poll"
    /\ UNCHANGED <<reqVars, sessVars, todo, poolVars, timers, free_mem_timers, ringVars, hw, undefined>>

PushResult(id, result) == ring' = [ring EXCEPT ![id % RingSize] = [result |-> result, id |-> id]]

\* CypherCbContext::Reset
ResetCtx(c) ==
    /\ cb_ctx' = [cb_ctx EXCEPT ![c] = NewCtx(cb_ctx[c].iv)]
    /\ in_cache_num' = in_cache_num + IF cb_ctx[c].bufs THEN 2 ELSE 0

\* Mutant: the timer of an answered request is not removed.
CyCallbackKeepsTimer ==
    LET c == Head(hw)
        s == Slot(cb_ctx[c].req_id)
        id == meta[s].req_id
    IN  /\ pc \in {"poll", "close", "remove"} /\ hw # <<>>
        /\ hw' = Tail(hw) /\ in_qat_num' = in_qat_num - 1
        /\ IF meta[s].valid
           THEN /\ PushResult(id, [ctx |-> id, of |-> cb_ctx[c].req_id])
                /\ meta' = [meta EXCEPT ![s].valid = FALSE]
           ELSE UNCHANGED <<ring, meta>>
        /\ ResetCtx(c)
        /\ UNCHANGED <<pc, next_req_id, sessVars, todo, cb_pool, discarded, timers, free_mem_timers,
                       head_id, received, undefined>>

\* CyCallback, run by the driver inside PollInstance, in the order of submission
CyCallback ==
    LET c == Head(hw)
        s == Slot(cb_ctx[c].req_id)
        id == meta[s].req_id
    IN  /\ pc \in {"poll", "close", "remove"} /\ hw # <<>>
        /\ hw' = Tail(hw) /\ in_qat_num' = in_qat_num - 1
        /\ IF meta[s].valid
           THEN /\ PushResult(id, [ctx |-> id, of |-> cb_ctx[c].req_id])
                /\ meta' = [meta EXCEPT ![s].valid = FALSE]
                /\ timers' = timers \ {id}
           ELSE UNCHANGED <<ring, meta, timers>>
        /\ ResetCtx(c)
        /\ UNCHANGED <<pc, next_req_id, sessVars, todo, cb_pool, discarded, free_mem_timers,
                       head_id, received, undefined>>

\* PollInstance fails: -1 is returned (and user_cb called for results nobody wrote).
PollInstanceFails ==
    /\ pc = "poll" /\ pc' = "idle"
    /\ UNCHANGED <<reqVars, sessVars, todo, poolVars, timers, free_mem_timers, ringVars, hw,
                   undefined>>

PollInstanceReturns ==
    /\ pc = "poll" /\ pc' = "timeout"
    /\ UNCHANGED <<reqVars, sessVars, todo, poolVars, timers, free_mem_timers, ringVars, hw, undefined>>

\* ReplaceNewRequestCbContext: the slot gets a context whose op.pIv is not set, the old
\* one stays with the hardware.
ReplaceNewRequestCbContext(s) ==
    /\ cb_ctx' = Append(cb_ctx, NewCtx(FALSE))
    /\ cb_pool' = [cb_pool EXCEPT ![s] = Len(cb_ctx) + 1]
    /\ discarded' = discarded \cup {cb_pool[s]}

\* timer_manager_->HandleTimeout: the first timer is due.  InterceptInflightReq
RequestTimeout ==
    \E id \in timers :
        LET s == Slot(id)
        IN  /\ pc = "timeout" /\ \A t \in timers : id <= t
            /\ timers' = timers \ {id}
            /\ meta' = [meta EXCEPT ![s].valid = FALSE]
            /\ PushResult(meta[s].req_id, [ctx |-> meta[s].req_id, of |-> meta[s].req_id])
            /\ ReplaceNewRequestCbContext(s)
            /\ free_mem_timers' = Append(free_mem_timers, id)
            /\ UNCHANGED <<pc, reqVars, sessVars, todo, in_cache_num, head_id, received, hw,
                           undefined>>

TimeoutsHandled ==
    /\ pc = "timeout" /\ pc' = "pop"
    /\ UNCHANGED <<reqVars, sessVars, todo, poolVars, timers, free_mem_timers, ringVars, hw, undefined>>

\* free_mem_timer_manager_->HandleTimeout: the deleters of the request are called.
FreeMemTimeout ==
    /\ pc = "pop" /\ free_mem_timers # <<>>
    /\ free_mem_timers' = Tail(free_mem_timers)
    /\ UNCHANGED <<pc, reqVars, sessVars, todo, poolVars, timers, ringVars, hw, undefined>>

\* Mutant: off by one.
ReadyNever(id) == ring[id % RingSize].id > id

Ready(id) == ring[id % RingSize].id >= id

\* PopResults takes cnt results: as many as are there without a gap, at most max_num
PopCount(cnt, max_num) ==
    /\ head_id + cnt <= next_req_id
    /\ \A id \in head_id .. head_id + cnt - 1 : Ready(id)
    /\ cnt = max_num \/ head_id + cnt = next_req_id \/ ~Ready(head_id + cnt)

\* Mutant: the index does not advance with head_id.
PopSamePlace(max_num) ==
    \E cnt \in 0 .. max_num :
        /\ pc = "pop" /\ pc' = "idle" /\ PopCount(cnt, max_num)
        /\ received' = received \o [i \in 1 .. cnt |-> ring[head_id % RingSize].result]
        /\ head_id' = head_id + cnt
        /\ UNCHANGED <<reqVars, sessVars, todo, poolVars, timers, free_mem_timers, ring, hw, undefined>>

\* PopResults
Pop(max_num) ==
    \E cnt \in 0 .. max_num :
        /\ pc = "pop" /\ pc' = "idle" /\ PopCount(cnt, max_num)
        /\ received' = received \o [i \in 1 .. cnt |-> ring[(head_id + i - 1) % RingSize].result]
        /\ head_id' = head_id + cnt
        /\ UNCHANGED <<reqVars, sessVars, todo, poolVars, timers, free_mem_timers, ring, hw, undefined>>

Next ==
    \/ \E hash \in BOOLEAN : InitOk(hash) \/ AddSession(hash)
    \/ InitFails
    \/ \E s \in DOMAIN sessions :
          \/ RemoveSession(s)
          \/ \E op \in {"enc", "dec"} : SubmitOk(s, op) \/ SubmitFails(s, op) \/ SubmitUndefined(s, op)
    \/ CloseStart \/ SessionClosed \/ PairUninited \/ UninitFails \/ SessionRemoved \/ CloseDone
    \/ PollStart \/ CyCallback \/ PollInstanceReturns \/ PollInstanceFails
    \/ RequestTimeout \/ TimeoutsHandled \/ FreeMemTimeout
    \/ \E max_num \in 0 .. MaxPoll : Pop(max_num)

Spec == Init /\ [][Next]_vars

ClosingStep == SessionClosed \/ PairUninited \/ UninitFails \/ SessionRemoved \/ CloseDone

\* The user polls for ever, Close and RemoveSession end, and a timer is due some time.
\* Of the device one thing is assumed: that polling it succeeds again and again.  Poll
\* returns before it looks at the timers and the results when CyPollInstance fails
\* (qat_cypher_channel.cc:550-554), so a device whose polling fails for ever answers
\* nothing, not even with a timeout.  That it ever completes a request is not assumed.
FairSpec ==
    /\ Spec
    /\ SF_vars(PollStart) /\ SF_vars(PollInstanceReturns) /\ SF_vars(RequestTimeout)
    /\ WF_vars(TimeoutsHandled) /\ SF_vars(Pop(MaxPoll))
    /\ WF_vars(ClosingStep)

-----------------------------------------------------------------------------
NumOrNone == Nat \cup {None}
Pairs == [hash : BOOLEAN, enc : {"open", "closed", "null"}, dec : {"open", "closed", "null"}]
Ctxs == [req_id : NumOrNone, bufs : BOOLEAN, iv : BOOLEAN, sess : NumOrNone \X {"enc", "dec"}]
Results == [ctx : NumOrNone, of : NumOrNone]

\* The types of the channel's members, its pools and its ring.
TypeOK ==
    /\ pc \in {"idle", "close", "remove", "poll", "timeout", "pop"}
    /\ unit_held \in BOOLEAN /\ closed \in BOOLEAN
    /\ next_req_id \in Nat /\ in_qat_num \in 0 .. MaxInQat /\ in_cache_num \in 0 .. BufNum
    /\ head_id \in 0 .. next_req_id /\ next_req_id - head_id <= RingSize
    /\ sessions \in Seq(Pairs) /\ todo \in Seq(DOMAIN sessions)
    /\ meta \in [Slots -> [req_id : NumOrNone, valid : BOOLEAN]]
    /\ cb_ctx \in Seq(Ctxs) /\ cb_pool \in [Slots -> DOMAIN cb_ctx]
    /\ hw \in Seq(DOMAIN cb_ctx) /\ timers \subseteq Nat
    /\ ring \in [0 .. RingSize - 1 -> [result : Results, id : NumOrNone]]
    /\ received \in Seq(Results)

\* The requests in the instance are the last that were accepted.
Oldest == next_req_id - in_qat_num
InQat == Oldest .. next_req_id - 1
CtxOf(id) == hw[id - Oldest + 1]

\* The instance has a context of its own for each of them, which holds the buffers and
\* an open session, and no other context holds buffers.
HardwareInOrder ==
    /\ in_qat_num <= next_req_id /\ Len(hw) = in_qat_num
    /\ \A i \in DOMAIN hw :
          LET c == cb_ctx[hw[i]]
          IN  /\ c.req_id = Oldest + i - 1
              /\ c.sess[1] \in DOMAIN sessions
              /\ SessionOf(sessions[c.sess[1]], c.sess[2]) = "open"
    /\ \A c \in DOMAIN cb_ctx : cb_ctx[c].bufs <=> \E i \in DOMAIN hw : hw[i] = c

\* A slot belongs to the request in the instance that has its number, and a context in
\* the instance is in the pool exactly until its request is answered.
SlotsExact ==
    /\ \A s, r \in Slots : cb_pool[s] = cb_pool[r] => s = r
    /\ \A id \in InQat : meta[Slot(id)].req_id = id
    /\ \A s \in Slots : meta[s].valid => \E id \in InQat : Slot(id) = s
    /\ \A id \in InQat : \A s \in Slots :
          cb_pool[s] = CtxOf(id) <=> s = Slot(id) /\ meta[s].valid
    /\ timers = {id \in InQat : meta[Slot(id)].valid}

\* A place of the ring holds the result of the request that has its number.
RingExact ==
    \A k \in 0 .. RingSize - 1 :
        LET id == ring[k].id
        IN  id # None => /\ id < next_req_id /\ id % RingSize = k
                         /\ ring[k].result = [ctx |-> id, of |-> id]

\* A request has a timer exactly while it may be answered: its slot is its own, and its
\* place of the ring holds no result yet.
PendingExactlyTimed ==
    timers = {id \in head_id .. next_req_id - 1 : ring[id % RingSize].id # id}

\* What was handed out: one result for each request, its own, in order.
ReceivedExact ==
    /\ Len(received) = head_id
    /\ \A i \in 1 .. head_id : received[i] = [ctx |-> i - 1, of |-> i - 1]

\* Only an open channel is busy, a Close in progress has closed what it need not close
\* any more, and the requests in the instance have the buffers missing in the cache.
PhasesFit ==
    /\ ~closed => unit_held /\ sessions # <<>>
    /\ closed => pc = "idle" /\ in_qat_num = 0
    /\ pc = "close" => \A s \in DOMAIN sessions :
          "open" \in {sessions[s].enc, sessions[s].dec} => \E i \in DOMAIN todo : todo[i] = s
    /\ in_cache_num + 2 * in_qat_num = IF sessions = <<>> THEN 0 ELSE BufNum

\* What makes the properties below inductive.
CypherInvariant ==
    /\ TypeOK /\ HardwareInOrder /\ SlotsExact /\ RingExact /\ PendingExactlyTimed
    /\ ReceivedExact /\ PhasesFit

\* What the hardware works on stays: the context of every request in the instance has
\* its buffers and its session, the unit is held, and no two requests share a context,
\* whatever sessions were removed, requests timed out or Closes tried.
HardwareWorksOnLiveData ==
    \A i \in DOMAIN hw :
        LET c == cb_ctx[hw[i]]
        IN  /\ unit_held /\ ~closed /\ c.bufs
            /\ SessionOf(sessions[c.sess[1]], c.sess[2]) = "open"
            /\ \A j \in DOMAIN hw : hw[i] = hw[j] => i = j

\* No buffer is lost, and a channel that is not full finds two for the next request:
\* the extra half of the cache is never needed although requests that timed out keep
\* theirs.
BuffersSuffice ==
    /\ in_cache_num + 2 * Cardinality({i \in DOMAIN cb_ctx : cb_ctx[i].bufs})
          = IF sessions = <<>> THEN 0 ELSE BufNum
    /\ ~closed /\ ~IsChannelFull => in_cache_num >= 2

\* A cypher channel's bookkeeping is exact, what it has in the hardware stays alive, no
\* buffer is lost, and exactly the requests that wait for an answer have a timer.
CypherSafe == CypherInvariant /\ HardwareWorksOnLiveData /\ BuffersSuffice

\* Every result is of the request whose context it carries, and results come once each
\* and in the order of submission: the promise of an asynchronous channel.
Channel == INSTANCE AsyncChannel WITH
    accepted <- next_req_id,
    delivered <- [i \in DOMAIN received |->
                     IF received[i].of = received[i].ctx THEN received[i].ctx + 1 ELSE None]
ChannelSpec == Channel!Spec

\* With polls, all requests there are of an open channel get answered, even if the
\* hardware never completes one.
EveryRequestAnswered ==
    head_id # next_req_id ~> head_id = next_req_id \/ closed \/ undefined # "no"

\* The comment at qat_cypher_channel.cc:178: there is DMA memory for the IV of every
\* AES-XTS request.
IvInDmaMemory == undefined # "iv"
=============================================================================
