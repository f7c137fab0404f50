----------------------------- MODULE KaeChannel -----------------------------
(***************************************************************************)
(* A KAE codec channel (src/src/codec/kae/kae_codec_channel.cc) with its    *)
(* ring of results (src/src/common/req_ring_queue.h).  One thread uses it;  *)
(* the device completes the requests of its two sessions in any order.      *)
(*                                                                          *)
(* A request is known by its number, the value of req_id_ when it is        *)
(* submitted, which also stands for the user's context and its outcome.     *)
(* Compression and decompression differ in their sessions only, and a       *)
(* synchronous call is a submission followed by Polls for one result.       *)
(***************************************************************************)
EXTENDS Integers, Sequences, FiniteSets

CONSTANTS
    N,       \* MAX_KAE_CONCURRENCY, a power of two: contexts, and places in the ring
    MaxReq,  \* bound: requests
    MaxPoll  \* bound of max_num in Poll

ASSUME SizeAssumption == N \in Nat \ {0} /\ MaxPoll \in Nat \ {0} /\ MaxReq \in Nat

VARIABLES
    closed, req_id, inflight_num,
    pool,             \* req_context_pool_: [usr_ctx, req_ring_id]
    ring,             \* reqs_: [result, id], a result is the user's context and the
                      \* request whose outcome it is
    head_id, tail_id,
    hw, done,         \* what the device has, and what it has completed: [slot, req]
    received,         \* history: results handed out
    overrun           \* history: a submission went on although the ring was full

vars == <<closed, req_id, inflight_num, pool, ring, head_id, tail_id, hw, done, received, overrun>>

Slots == 0 .. N - 1
NoReq == -1
NoResult == [ctx |-> NoReq, of |-> NoReq]

Init ==
    /\ closed = FALSE /\ req_id = 0 /\ inflight_num = 0
    /\ pool = [s \in Slots |-> [usr_ctx |-> NoReq, req_ring_id |-> NoReq]]
    /\ ring = [s \in Slots |-> [result |-> NoResult, id |-> NoReq]]
    /\ head_id = 0 /\ tail_id = 0
    /\ hw = {} /\ done = {}
    /\ received = <<>> /\ overrun = FALSE

\* Mutant: one request too many.
IsFullLate == tail_id - head_id = N + 1

IsFull == tail_id - head_id = N

\* CompressSGLAsync, DecompressSGLAsync: only the requests in the device are counted, not
\* the results that wait in the ring.
CanSubmit == ~closed /\ req_id < MaxReq /\ inflight_num # N

\* PrepareCtx, the session accepts, NewReq.  When the ring is full the context may still
\* belong to a request in the device, NewReq returns -1, and kOk is returned all the same.
SubmitOk ==
    LET s == req_id % N
    IN  /\ CanSubmit
        /\ pool' = [pool EXCEPT ![s] = [usr_ctx |-> req_id,
                                       req_ring_id |-> IF IsFull THEN -1 ELSE tail_id]]
        /\ hw' = hw \cup {[slot |-> s, req |-> req_id]}
        /\ req_id' = req_id + 1
        /\ inflight_num' = inflight_num + 1
        /\ tail_id' = IF IsFull THEN tail_id ELSE tail_id + 1
        /\ overrun' = (overrun \/ IsFull)
        /\ UNCHANGED <<closed, ring, head_id, done, received>>

\* Mutant: a refused request takes a context.
SubmitFailsCounted ==
    /\ CanSubmit
    /\ pool' = [pool EXCEPT ![req_id % N].usr_ctx = NoReq]
    /\ req_id' = req_id + 1
    /\ overrun' = (overrun \/ IsFull)
    /\ UNCHANGED <<closed, inflight_num, ring, head_id, tail_id, hw, done, received>>

\* PrepareCtx, the session refuses: the context has the refused request's user_ctx.
SubmitFails ==
    /\ CanSubmit
    /\ pool' = [pool EXCEPT ![req_id % N].usr_ctx = NoReq]
    /\ overrun' = (overrun \/ IsFull)
    /\ UNCHANGED <<closed, req_id, inflight_num, ring, head_id, tail_id, hw, done, received>>

DeviceCompletes(n) ==
    /\ \E h \in hw \ done : h.req = n /\ done' = done \cup {h}
    /\ UNCHANGED <<closed, req_id, inflight_num, pool, ring, head_id, tail_id, hw, received, overrun>>

\* KaeCallback of a completed request: PushResult of what its context says by now.  With
\* the number -1 it writes reqs_[-1], before the ring and in no field of the channel.
Pushes(h) == [result |-> [ctx |-> pool[h.slot].usr_ctx, of |-> h.req],
              id |-> pool[h.slot].req_ring_id]

WritesTo(h, i) == pool[h.slot].req_ring_id # -1 /\ pool[h.slot].req_ring_id % N = i

\* The ring after the callbacks, which come in any order: last are those after which
\* nobody wrote to the place.
LastWriters(last) ==
    \A h \in done, i \in Slots :
        WritesTo(h, i) => \E w \in last : WritesTo(w, i) /\ \A v \in last : WritesTo(v, i) => v = w

Pushed(last) ==
    [i \in Slots |-> IF \E h \in last : WritesTo(h, i)
                    THEN Pushes(CHOOSE h \in last : WritesTo(h, i))
                    ELSE ring[i]]

\* Mutant: any result in the place is taken.
ReadyAny(r, n) == r[n % N].id # NoReq

\* Mutant: off by one.
ReadyNever(r, n) == r[n % N].id > n

\* Of PopResults: the result of request n is in the ring, not one of an earlier round.
Ready(r, n) == r[n % N].id >= n

\* Mutant: a callback is not counted.
CallbackUncounted == UNCHANGED inflight_num

CallbackCounts == inflight_num' = inflight_num - Cardinality(done)

\* PopResults takes cnt results of the ring r: it stops at max_num, at the end of the ring,
\* or at a request whose result is not there yet.
PopResults(r, cnt, max_num) ==
    /\ head_id + cnt <= tail_id
    /\ \A n \in head_id .. head_id + cnt - 1 : Ready(r, n)
    /\ \/ cnt = max_num \/ head_id + cnt = tail_id
       \/ ~Ready(r, head_id + cnt)

\* Both sessions are polled, then PopResults
Poll(max_num) ==
    \E last \in SUBSET done : \E cnt \in 0 .. max_num :
        /\ ~closed
        /\ LastWriters(last)
        /\ PopResults(Pushed(last), cnt, max_num)
        /\ ring' = Pushed(last)
        /\ CallbackCounts
        /\ hw' = hw \ done /\ done' = {}
        /\ received' = received \o [i \in 1 .. cnt |-> ring'[(head_id + i - 1) % N].result]
        /\ head_id' = head_id + cnt
        /\ UNCHANGED <<closed, req_id, pool, tail_id, overrun>>

\* Close asks nobody whether requests are in flight.
Close ==
    /\ ~closed
    /\ closed' = TRUE
    /\ UNCHANGED <<req_id, inflight_num, pool, ring, head_id, tail_id, hw, done, received, overrun>>

Next == \/ SubmitOk \/ SubmitFails \/ Close
        \/ \E n \in 0 .. MaxReq - 1 : DeviceCompletes(n)
        \/ \E max_num \in 1 .. MaxPoll : Poll(max_num)

Spec == Init /\ [][Next]_vars

\* The device completes every request, and the user goes on polling.
FairSpec == /\ Spec /\ WF_vars(Poll(MaxPoll))
            /\ \A n \in 0 .. MaxReq - 1 : WF_vars(DeviceCompletes(n))

-----------------------------------------------------------------------------
Results == [ctx : Nat \cup {NoReq}, of : Nat \cup {NoReq}]
Own(n) == [ctx |-> n, of |-> n]

\* The types of the fields; the ring never holds more than it has places.
TypeOK ==
    /\ closed \in BOOLEAN /\ overrun \in BOOLEAN
    /\ req_id \in Nat /\ inflight_num \in 0 .. N
    /\ head_id \in Nat /\ tail_id \in head_id .. head_id + N
    /\ pool \in [Slots -> [usr_ctx : Nat \cup {NoReq}, req_ring_id : Nat \cup {NoReq}]]
    /\ ring \in [Slots -> [result : Results, id : Nat \cup {NoReq}]]
    /\ done \subseteq hw /\ hw \subseteq [slot : Slots, req : Nat]
    /\ received \in Seq(Results)

\* inflight_num_ counts the requests in the device, whatever became of the ring, so that
\* the device never gets more of them than it takes.
DeviceCounted ==
    /\ IsFiniteSet(hw) /\ inflight_num = Cardinality(hw)
    /\ \A h \in hw : h.req < req_id

\* A context in the device still describes the request it was submitted for, although
\* contexts are taken round robin and requests complete in any order.
ContextsIntact == \A h \in hw : pool[h.slot] = [usr_ctx |-> h.req, req_ring_id |-> h.req]

\* What the ring spans is the requests in the device and the results that wait in it.
CountsExact ==
    tail_id - head_id =
        Cardinality(hw) + Cardinality({n \in head_id .. tail_id - 1 : ring[n % N].id = n})

\* Results are handed out once each, in the order of submission and with the outcome
\* of their own request, whatever was in the ring before.
AnsweredInOrder == received = [i \in 1 .. head_id |-> Own(i - 1)]

\* The contexts follow the ring: both counters move together, a request in the device
\* has the place of its number, and of the requests the ring spans those in the device
\* have nothing newer than an earlier round's result, the others their own.
RingExact ==
    /\ req_id = tail_id
    /\ \A h \in hw : h.req \in head_id .. tail_id - 1 /\ h.slot = h.req % N
    /\ \A s \in Slots : ring[s].id < tail_id
    /\ \A n \in head_id .. tail_id - 1 :
          IF [slot |-> n % N, req |-> n] \in hw
          THEN ring[n % N].id < n
          ELSE ring[n % N] = [result |-> Own(n), id |-> n]

\* What makes the properties inductive.  The test in the submission does not keep the ring
\* from being overrun; nothing but the device's count is promised after that.
RingInvariant ==
    /\ TypeOK /\ DeviceCounted
    /\ ~overrun => RingExact /\ ContextsIntact /\ AnsweredInOrder

\* As long as no request was submitted while the ring was full, contexts, ring and results
\* are exact; the device's count is exact always.
KaeSafe == RingInvariant /\ (~overrun => CountsExact)

\* If the device completes its requests and the user polls, all requests there are get
\* answered, as long as none was submitted while the ring was full: such a request has no
\* place in the ring, and may take the context of the one the ring waits for.
EveryRequestAnswered == head_id # tail_id ~> head_id = tail_id \/ closed \/ overrun

(***************************************************************************)
(* What a document says of the channel, and the code does not do.           *)
(***************************************************************************)
\* codec.h:468: Poll "gurantees that the order of callback executed matches the order of
\* submission": the results handed out are those of the requests accepted (CompressSGLAsync
\* returned kOk), none left out.
InSubmissionOrder == \A i \in DOMAIN received : received[i].of = i - 1
=============================================================================
