-------------------------- MODULE QatEngineProofs --------------------------
(****************************************************************************)
(* The engine keeps its bookkeeping for every number of slots, buffers and  *)
(* requests: QatEngine's InductiveInvariant holds in every reachable state, *)
(* the properties of the runs follow from it, and the engine implements the *)
(* abstract channel.                                                        *)
(****************************************************************************)
EXTENDS QatEngine, SequenceTheorems, TLAPS

(***************************************************************************)
(* Slots                                                                    *)
(***************************************************************************)
\* Euclidean division.
LEMMA DivMod ==
    ASSUME NEW a \in Nat, NEW n \in Nat, n > 0
    PROVE  /\ a \div n \in Int
           /\ a % n \in 0 .. n - 1
           /\ a = n * (a \div n) + (a % n)
<1>1. a \div n \in Int
  BY SMT
<1>2. a % n \in 0 .. n - 1
  BY SMT
<1>3. a = n * (a \div n) + (a % n)
  BY SMT
<1> QED BY Zenon, <1>1, <1>2, <1>3

\* DedicatedPool::Get stays within the pool.
LEMMA SlotInRange ==
    ASSUME NEW a \in Nat
    PROVE  Slot(a) \in Slots
  BY DivMod, SlotAssumption DEF Slot, Slots

\* Two requests whose ids are less than SlotNum apart have different slots.
LEMMA SlotsDistinct ==
    ASSUME NEW a \in Nat, NEW b \in Nat, a < b, b - a < SlotNum
    PROVE  Slot(a) # Slot(b)
<1> DEFINE n == SlotNum
<1>1. n \in Nat /\ n > 0
  BY SlotAssumption
<1> HIDE DEF n
<1> DEFINE qa == a \div n  qb == b \div n  r == a % n
<1>2. SUFFICES ASSUME a % n = b % n PROVE FALSE
  BY DEF Slot, n
<1>3. qa \in Int /\ r \in Int /\ a = n * qa + r
  BY <1>1, DivMod
<1>4. qb \in Int /\ b = n * qb + r
  BY <1>1, <1>2, DivMod
<1> HIDE DEF qa, qb, r
<1>5. b - a = n * (qb - qa)
  BY <1>1, <1>3, <1>4, SMT
<1>6. qb - qa \in Int /\ (qb - qa < 1 \/ qb - qa >= 1)
  BY <1>3, <1>4
<1>7. ASSUME NEW k \in Int, k >= 1 PROVE n * k >= n
  BY <1>1, <1>7, SMT
<1>8. ASSUME NEW k \in Int, k < 1 PROVE n * k <= 0
  BY <1>1, <1>8, SMT
<1>9. b - a < n
  BY DEF n
<1> QED BY <1>1, <1>5, <1>6, <1>7, <1>8, <1>9, SMT

\* The form in which the steps use it: within a window of SlotNum ids the slot
\* determines the id.
LEMMA SlotInjective ==
    ASSUME NEW lo \in Nat, NEW a \in Nat, NEW b \in Nat,
           lo <= a, a < lo + SlotNum, lo <= b, b < lo + SlotNum,
           Slot(a) = Slot(b)
    PROVE  a = b
<1>1. CASE a < b
  BY <1>1, SlotsDistinct, SlotAssumption
<1>2. CASE b < a
  BY <1>2, SlotsDistinct, SlotAssumption
<1> QED BY <1>1, <1>2

(***************************************************************************)
(* Results                                                                  *)
(***************************************************************************)
\* CodecResultList::ModifyAll changes statuses only.
LEMMA ModifyAllKeepsRequests ==
    ASSUME NEW q \in Results, NEW st \in Status
    PROVE  /\ ModifyAll(q, st) \in Results
           /\ Len(ModifyAll(q, st)) = Len(q)
           /\ DOMAIN ModifyAll(q, st) = DOMAIN q
           /\ \A i \in DOMAIN q : /\ ModifyAll(q, st)[i].ctx = q[i].ctx
                                  /\ ModifyAll(q, st)[i].of = q[i].of
<1> DEFINE R == [ctx : Nat, status : Status, of : Nat]
<1>1. DOMAIN q = 1 .. Len(q) /\ Len(q) \in Nat /\ \A i \in 1 .. Len(q) : q[i] \in R
  BY Zenon, LenProperties, ElementOfSeq DEF Results
<1>2. \A i \in 1 .. Len(q) : [q[i] EXCEPT !.status = st] \in R
  BY <1>1
<1>3. ModifyAll(q, st) = [i \in 1 .. Len(q) |-> [q[i] EXCEPT !.status = st]]
  BY <1>1 DEF ModifyAll
<1>4. ModifyAll(q, st) \in Seq(R)
  BY <1>1, <1>2, <1>3
<1>5. Len(ModifyAll(q, st)) = Len(q)
  BY <1>1, <1>3, <1>4
<1> QED BY Zenon, <1>1, <1>2, <1>3, <1>4, <1>5 DEF Results

\* CodecResultList::Pop splits the list.
LEMMA PopSplits ==
    ASSUME NEW n \in Nat, codec_results \in Results
    PROVE  /\ Pop(n).popped \in Results /\ Pop(n).rest \in Results
           /\ Len(Pop(n).popped) \in Nat /\ Len(Pop(n).rest) \in Nat
           /\ Len(Pop(n).popped) + Len(Pop(n).rest) = Len(codec_results)
           /\ \A i \in 1 .. Len(Pop(n).popped) : Pop(n).popped[i] = codec_results[i]
           /\ \A i \in 1 .. Len(Pop(n).rest) :
                  Pop(n).rest[i] = codec_results[Len(Pop(n).popped) + i]
<1> DEFINE R == [ctx : Nat, status : Status, of : Nat]
           len == Len(codec_results)
           k == IF n < len THEN n ELSE len
<1>0. codec_results \in Seq(R) /\ n \in Nat
  BY DEF Results
<1> HIDE DEF R
<1>1a. len \in Nat /\ \A i \in 1 .. len : codec_results[i] \in R
  BY <1>0, LenProperties, ElementOfSeq
<1>1. k \in 0 .. len /\ codec_results \in Seq(R) /\ len \in Nat
      /\ \A i \in 1 .. len : codec_results[i] \in R
  BY <1>0, <1>1a
<1> HIDE DEF k, len
<1>2. /\ SubSeq(codec_results, 1, k) \in Seq(R)
      /\ Len(SubSeq(codec_results, 1, k)) = k
      /\ \A i \in 1 .. k : SubSeq(codec_results, 1, k)[i] = codec_results[i]
  BY <1>1, SubSeqProperties
<1>3. /\ SubSeq(codec_results, k + 1, len) \in Seq(R)
      /\ Len(SubSeq(codec_results, k + 1, len)) = len - k
      /\ \A i \in 1 .. len - k :
            SubSeq(codec_results, k + 1, len)[i] = codec_results[k + i]
  BY <1>1, SubSeqProperties
<1>4. /\ Pop(n).popped = SubSeq(codec_results, 1, k)
      /\ Pop(n).rest = SubSeq(codec_results, k + 1, len)
  BY DEF Pop, k, len
<1>5. Pop(n).popped \in Results /\ Pop(n).rest \in Results
  BY Zenon, <1>2, <1>3, <1>4 DEF Results, R
<1> DEFINE pop == Pop(n).popped  rest == Pop(n).rest
<1>6. /\ Len(pop) = k /\ Len(rest) = len - k
      /\ \A i \in 1 .. k : pop[i] = codec_results[i]
      /\ \A i \in 1 .. len - k : rest[i] = codec_results[k + i]
  BY Zenon, <1>2, <1>3, <1>4
<1> HIDE DEF pop, rest
<1>7. /\ Len(pop) \in Nat /\ Len(rest) \in Nat
      /\ Len(pop) + Len(rest) = len
      /\ \A i \in 1 .. Len(pop) : pop[i] = codec_results[i]
      /\ \A i \in 1 .. Len(rest) : rest[i] = codec_results[Len(pop) + i]
  BY <1>1, <1>6
<1> QED BY Zenon, <1>5, <1>7 DEF pop, rest, len

(***************************************************************************)
(* The inductive invariant                                                  *)
(***************************************************************************)
LEMMA InitEstablishes == Init => InductiveInvariant
<1> SUFFICES ASSUME Init PROVE InductiveInvariant
  OBVIOUS
<1> USE SlotAssumption, BufAssumption, HaAssumption DEF Init
<1>1. /\ Len(cb_ctx) = SlotNum
      /\ cb_ctx \in Seq([req_id : Nat, buf : Bufs \cup {NoBuf}])
  BY DEF EmptyCtx
<1>2. TypeOK
  <2>1. meta \in [Slots -> [req_id : Nat, valid : BOOLEAN]]
    OBVIOUS
  <2>2. cb_pool \in [Slots -> CtxAddrs]
    BY <1>1 DEF Slots, CtxAddrs
  <2>3. /\ codec_results \in Results /\ received \in Results
        /\ free_mem_timers \in Seq([slot : Slots, dst : Nat])
        /\ ring \in Seq(CtxAddrs) /\ unseen \in Seq(Status)
    BY DEF Results
  <2>4. /\ next_req_id \in Nat \ {0} /\ next_recv_req_id \in Nat \ {0}
        /\ in_qat_num \in Nat /\ callback_called_times \in Nat
        /\ error_num \in Nat /\ spare \in Nat /\ submitting = 0
    OBVIOUS
  <2>5. /\ pc = "idle" /\ poll_r \in PollStatus
        /\ is_fatal \in BOOLEAN /\ closed \in BOOLEAN
        /\ bufs \subseteq Bufs /\ timers \subseteq Nat /\ retired \subseteq CtxAddrs
        /\ timed_out \subseteq Nat /\ src_freed \subseteq Nat /\ dst_freed \subseteq Nat
    BY Zenon DEF PollStatus
  <2> HIDE DEF Init
  <2> QED BY Zenon, <1>1, <2>1, <2>2, <2>3, <2>4, <2>5 DEF TypeOK
<1>3. EachRequestOnceInOrder /\ ResultIsOwn /\ InflightWindow
  BY DEF EachRequestOnceInOrder, ResultIsOwn, InflightWindow
<1>4. SlotOwnership
  <2>1. \A q, p \in Slots : cb_pool[q] = cb_pool[p] => q = p
    BY DEF Slots
  <2> QED BY <2>1 DEF SlotOwnership, TimerMatchesSlot
<1>5. BufferOwnership
  BY <1>1 DEF BufferOwnership, CtxAddrs, HwContexts, Range, NoBufferLost, EmptyCtx
<1> QED BY <1>2, <1>3, <1>4, <1>5 DEF InductiveInvariant

\* Steps that leave the pools, the timers and the ring alone.
LEMMA ControlStep ==
    ASSUME InductiveInvariant,
           TypeOK', EachRequestOnceInOrder', ResultIsOwn',
           UNCHANGED <<next_req_id, next_recv_req_id, closed, meta, cb_pool, cb_ctx, bufs,
                       timers, ring, retired, submitting>>,
           ~closed,
           submitting = 0,
           Len(received') + Len(codec_results') = Len(received) + Len(codec_results),
           in_qat_num' <= MaxInQat,
           Len(ring) <= in_qat_num',
           pc' \in {"poll", "timeout", "freemem"} =>
              Len(ring) + callback_called_times' <= in_qat_num'
    PROVE  InductiveInvariant'
<1>2. InflightWindow'
  BY Zenon DEF InductiveInvariant, InflightWindow
<1>3. SlotOwnership'
  BY Zenon DEF InductiveInvariant, SlotOwnership, TimerMatchesSlot
<1>4. BufferOwnership'
  BY DEF InductiveInvariant, BufferOwnership, CtxAddrs, HwContexts, Range, NoBufferLost
<1> QED BY <1>2, <1>3, <1>4 DEF InductiveInvariant

\* The parts of the invariant that speak of counters and control only.
LEMMA Counters ==
    ASSUME InductiveInvariant
    PROVE  /\ next_req_id \in Nat \ {0} /\ next_recv_req_id \in Nat \ {0}
           /\ in_qat_num \in Nat /\ callback_called_times \in Nat
           /\ Len(ring) \in Nat /\ DOMAIN ring = 1 .. Len(ring)
           /\ Len(received) \in Nat /\ Len(codec_results) \in Nat
           /\ next_recv_req_id <= next_req_id
           /\ Len(ring) = next_req_id - next_recv_req_id
           /\ Len(ring) <= in_qat_num /\ in_qat_num <= MaxInQat
           /\ pc \in {"poll", "timeout", "freemem"} =>
                 Len(ring) + callback_called_times <= in_qat_num
           /\ closed \in BOOLEAN /\ is_fatal \in BOOLEAN
           /\ closed => pc = "idle"
           /\ submitting # 0 => pc = "drop"
           /\ Len(cb_ctx) \in Nat /\ DOMAIN cb_ctx = 1 .. Len(cb_ctx)
<1>1. /\ Len(ring) \in Nat /\ DOMAIN ring = 1 .. Len(ring)
      /\ Len(received) \in Nat /\ Len(codec_results) \in Nat
      /\ Len(cb_ctx) \in Nat /\ DOMAIN cb_ctx = 1 .. Len(cb_ctx)
  BY DEF InductiveInvariant, TypeOK, Results
<1> QED BY Zenon, <1>1 DEF InductiveInvariant, TypeOK, InflightWindow, BufferOwnership

\* The steps that only move pc, poll_r or callback_called_times_ (PollStart, the end of
\* PollInstance, TimeoutsHandled, CloseStart, CloseFails) and FreeMemTimeout.
LEMMA ControlSteps ==
    ASSUME InductiveInvariant,
           \/ PollStart \/ TimeoutsHandled \/ FreeMemTimeout \/ CloseStart \/ CloseFails
           \/ \E r \in PollStatus : PollInstanceReturns(r)
    PROVE  InductiveInvariant'
<1> USE DEF reqVars, flagVars, poolVars, memVars, hwVars, haVars, pollVars
<1>1. TypeOK'
  <2>1. CASE FreeMemTimeout
    <3> DEFINE F == [slot : Slots, dst : Nat]
    <3>0. free_mem_timers \in Seq(F) /\ free_mem_timers # <<>>
      BY Zenon, <2>1 DEF FreeMemTimeout, InductiveInvariant, TypeOK
    <3> HIDE DEF F
    <3>1. Head(free_mem_timers) \in F /\ Tail(free_mem_timers) \in Seq(F)
      BY <3>0
    <3> USE DEF F
    <3> QED BY Zenon, <2>1, <3>1 DEF FreeMemTimeout, InductiveInvariant, TypeOK, CtxAddrs
  <2>2. CASE PollStart
    BY Zenon, <2>2 DEF PollStart, InductiveInvariant, TypeOK, CtxAddrs
  <2>3. CASE TimeoutsHandled \/ CloseStart \/ CloseFails
    BY Zenon, <2>3 DEF TimeoutsHandled, CloseStart, CloseFails, InductiveInvariant, TypeOK, CtxAddrs
  <2>4. CASE \E r \in PollStatus : PollInstanceReturns(r)
    BY Zenon, <2>4 DEF PollInstanceReturns, InductiveInvariant, TypeOK, CtxAddrs
  <2> QED
    BY <2>1, <2>2, <2>3, <2>4
<1>2. /\ ~closed /\ submitting = 0
      /\ in_qat_num' <= MaxInQat /\ Len(ring) <= in_qat_num'
      /\ pc' \in {"poll", "timeout", "freemem"} =>
            Len(ring) + callback_called_times' <= in_qat_num'
  BY Counters DEF PollStart, TimeoutsHandled, FreeMemTimeout, CloseStart, CloseFails,
                  PollInstanceReturns
<1>3. UNCHANGED <<next_req_id, next_recv_req_id, closed, meta, cb_pool, cb_ctx, bufs,
                  timers, ring, retired, codec_results, received, submitting>>
  BY Zenon DEF PollStart, TimeoutsHandled, FreeMemTimeout, CloseStart, CloseFails,
         PollInstanceReturns
<1>4. EachRequestOnceInOrder' /\ ResultIsOwn'
  BY Zenon, <1>3 DEF InductiveInvariant, EachRequestOnceInOrder, ResultIsOwn
<1> QED BY <1>1, <1>2, <1>3, <1>4, ControlStep

\* HandleHa may change the statuses of the results it is given, nothing else.
LEMMA HandleHaKeepsRequests ==
    ASSUME TypeOK,
           NEW e \in Status, NEW q \in Results, NEW back,
           HandleHa(e, q, back)
    PROVE  /\ codec_results' \in Results
           /\ Len(codec_results') = Len(q)
           /\ DOMAIN codec_results' = DOMAIN q
           /\ \A i \in DOMAIN q : /\ codec_results'[i].ctx = q[i].ctx
                                  /\ codec_results'[i].of = q[i].of
           /\ error_num' \in Nat /\ spare' = spare
           /\ pc' \in {"drop", back}
<1>1. PICK n \in ErrorNums(e) :
          IF ShouldFallback(e, n)
          THEN error_num' = 0 /\ codec_results' = ModifyAll(q, "Dropped") /\ pc' = "drop"
          ELSE error_num' = n /\ codec_results' = q /\ pc' = back
  BY DEF HandleHa
<1>2. n \in Nat
  BY DEF ErrorNums, TypeOK
<1>3. "Dropped" \in Status
  BY DEF Status
<1>4. CASE ShouldFallback(e, n)
  BY <1>1, <1>3, <1>4, ModifyAllKeepsRequests DEF HandleHa
<1>5. CASE ~ShouldFallback(e, n)
  BY <1>1, <1>2, <1>5 DEF HandleHa
<1> QED BY Zenon, <1>4, <1>5

\* Poll hands out a prefix of the results and keeps the rest in order.
LEMMA PopKeepsOrder ==
    ASSUME InductiveInvariant,
           NEW n \in Nat,
           received' = received \o Pop(n).popped,
           codec_results' \in Results,
           Len(codec_results') = Len(Pop(n).rest),
           \A i \in DOMAIN Pop(n).rest : /\ codec_results'[i].ctx = Pop(n).rest[i].ctx
                                         /\ codec_results'[i].of = Pop(n).rest[i].of,
           UNCHANGED <<timers, next_req_id, closed>>
    PROVE  /\ EachRequestOnceInOrder' /\ ResultIsOwn'
           /\ received' \in Results
           /\ Len(received') + Len(codec_results') = Len(received) + Len(codec_results)
<1> DEFINE R == [ctx : Nat, status : Status, of : Nat]
           pop == Pop(n).popped
           rest == Pop(n).rest
<1>1. /\ received \in Seq(R) /\ codec_results \in Seq(R) /\ codec_results' \in Seq(R)
      /\ codec_results \in Results
  BY Zenon DEF InductiveInvariant, TypeOK, Results
<1>2. /\ pop \in Seq(R) /\ rest \in Seq(R)
      /\ Len(pop) \in Nat /\ Len(rest) \in Nat
      /\ Len(pop) + Len(rest) = Len(codec_results)
      /\ \A i \in 1 .. Len(pop) : pop[i] = codec_results[i]
      /\ \A i \in 1 .. Len(rest) : rest[i] = codec_results[Len(pop) + i]
  BY Zenon, <1>1, PopSplits DEF Results
<1> HIDE DEF R, pop, rest
<1>3. /\ received' \in Seq(R)
      /\ Len(received') = Len(received) + Len(pop)
      /\ \A i \in 1 .. Len(received) + Len(pop) :
            received'[i] = IF i <= Len(received) THEN received[i] ELSE pop[i - Len(received)]
  BY <1>1, <1>2, ConcatProperties DEF pop
<1>4. /\ DOMAIN received = 1 .. Len(received) /\ Len(received) \in Nat
      /\ DOMAIN received' = 1 .. Len(received')
      /\ DOMAIN codec_results = 1 .. Len(codec_results) /\ Len(codec_results) \in Nat
      /\ DOMAIN codec_results' = 1 .. Len(codec_results')
      /\ Len(codec_results') = Len(rest)
      /\ DOMAIN rest = 1 .. Len(rest)
  BY Zenon, <1>1, <1>2, <1>3, LenProperties DEF rest
<1>5. /\ \A i \in 1 .. Len(received) : received[i].ctx = i
      /\ \A i \in 1 .. Len(codec_results) : /\ codec_results[i].ctx = Len(received) + i
                                            /\ codec_results[i].of = codec_results[i].ctx
      /\ ~closed => timers = Len(received) + Len(codec_results) + 1 .. next_req_id - 1
  BY Zenon, <1>4 DEF InductiveInvariant, EachRequestOnceInOrder, ResultIsOwn
<1>n. /\ Len(received') = Len(received) + Len(pop)
      /\ Len(codec_results') = Len(rest)
      /\ Len(pop) + Len(rest) = Len(codec_results)
      /\ Len(received) \in Nat /\ Len(pop) \in Nat /\ Len(rest) \in Nat
  BY Zenon, <1>2, <1>3, <1>4
<1>6. ASSUME NEW i \in 1 .. Len(rest)
      PROVE  /\ codec_results'[i].ctx = Len(received) + Len(pop) + i
             /\ codec_results'[i].of = codec_results'[i].ctx
  <2>0. rest[i] = codec_results[Len(pop) + i]
    BY Zenon, <1>2
  <2>1. rest[i] = codec_results[Len(pop) + i] /\ Len(pop) + i \in 1 .. Len(codec_results)
    BY <2>0, <1>n
  <2>2. rest[i].ctx = Len(received) + (Len(pop) + i) /\ rest[i].of = rest[i].ctx
    BY Zenon, <2>1, <1>5
  <2>3. codec_results'[i].ctx = rest[i].ctx /\ codec_results'[i].of = rest[i].of
    BY Zenon, <1>4 DEF rest
  <2> QED BY <1>n, <2>2, <2>3
<1>7. ASSUME NEW i \in 1 .. Len(received) + Len(pop)
      PROVE  received'[i].ctx = i
  <2>1. CASE i <= Len(received)
    BY <2>1, <1>3, <1>5, <1>n
  <2>2. CASE i > Len(received)
    <3>1. i - Len(received) \in 1 .. Len(pop)
      BY <2>2, <1>n
    <3>2. received'[i] = codec_results[i - Len(received)]
      BY <2>2, <3>1, <1>2, <1>3, <1>n, SMTT(30)
    <3> QED BY <3>1, <3>2, <1>5, <1>n, SMTT(30)
  <2> QED BY <2>1, <2>2, <1>n
<1>8. Len(received') + Len(codec_results') = Len(received) + Len(codec_results)
  BY SMTT(30), <1>n
<1>9. EachRequestOnceInOrder'
  BY Zenon, <1>3, <1>4, <1>5, <1>6, <1>7, <1>8 DEF EachRequestOnceInOrder
<1>10. ResultIsOwn'
  BY Zenon, <1>4, <1>6 DEF ResultIsOwn
<1> QED BY Zenon, <1>3, <1>8, <1>9, <1>10 DEF Results, R

\* Poll of a fatal engine hands out buffered results in order.
LEMMA PollFatalStep ==
    ASSUME InductiveInvariant, NEW n \in 1 .. MaxInQat, PollFatal(n)
    PROVE  InductiveInvariant'
<1> USE DEF reqVars, flagVars, poolVars, memVars, hwVars, haVars, pollVars
<1>0. n \in Nat /\ TypeOK /\ codec_results \in Results
  BY SlotAssumption DEF InductiveInvariant, TypeOK
<1>1. Pop(n).rest \in Results
  BY Zenon, <1>0, PopSplits
<1>2. /\ received' = received \o Pop(n).popped /\ codec_results' = Pop(n).rest
      /\ UNCHANGED <<pc, next_req_id, next_recv_req_id, in_qat_num, callback_called_times,
                     closed, meta, cb_pool, cb_ctx, bufs, timers, ring, retired, submitting>>
      /\ pc = "idle" /\ ~closed
  BY Zenon DEF PollFatal
<1>3. /\ EachRequestOnceInOrder' /\ ResultIsOwn' /\ received' \in Results
      /\ Len(received') + Len(codec_results') = Len(received) + Len(codec_results)
  BY Zenon, <1>0, <1>1, <1>2, PopKeepsOrder
<1>4. TypeOK'
  BY Zenon, <1>0, <1>1, <1>3 DEF PollFatal, TypeOK, CtxAddrs
<1> QED BY Zenon, <1>2, <1>3, <1>4, Counters, ControlStep

\* The part of Poll that updates in_qat_num_ and pops results, with what HandleHa does
\* to the results left.
LEMMA PollPopsStep ==
    ASSUME InductiveInvariant, NEW n \in 1 .. MaxInQat, PollPops(n)
    PROVE  InductiveInvariant'
<1> USE DEF reqVars, flagVars, poolVars, memVars, hwVars, haVars, pollVars
<1>0. n \in Nat /\ TypeOK /\ codec_results \in Results /\ poll_r \in Status
  BY SlotAssumption DEF InductiveInvariant, TypeOK, Status
<1>1. /\ Pop(n).rest \in Results /\ Pop(n).popped \in Results
      /\ DOMAIN Pop(n).rest = 1 .. Len(Pop(n).rest)
  BY Zenon, <1>0, PopSplits, LenProperties DEF Results
<1>2. /\ received' = received \o Pop(n).popped
      /\ in_qat_num' = in_qat_num - callback_called_times
      /\ UNCHANGED <<next_req_id, next_recv_req_id, callback_called_times,
                     closed, meta, cb_pool, cb_ctx, bufs, timers, ring, retired, submitting,
                     free_mem_timers, timed_out, src_freed, dst_freed>>
      /\ poll_r' \in PollStatus /\ pc = "freemem"
  BY Zenon DEF PollPops, PollStatus
<1>3. /\ codec_results' \in Results
      /\ Len(codec_results') = Len(Pop(n).rest)
      /\ \A i \in DOMAIN Pop(n).rest : /\ codec_results'[i].ctx = Pop(n).rest[i].ctx
                                       /\ codec_results'[i].of = Pop(n).rest[i].of
      /\ error_num' \in Nat /\ spare' = spare /\ is_fatal' \in BOOLEAN
      /\ pc' \in {"idle", "drop", "scan"}
      /\ unseen' \in Seq(Status)
  <2>1. CASE ~HaEnabled
    BY Zenon, <1>0, <1>1, <2>1 DEF PollPops, TypeOK
  <2>2. CASE HaEnabled /\ Failed(poll_r)
    <3>1. HandleHa(poll_r, Pop(n).rest, "idle") /\ UNCHANGED <<unseen, is_fatal>>
      BY Zenon, <2>2 DEF PollPops
    <3> QED BY Zenon, <1>0, <1>1, <3>1, HandleHaKeepsRequests DEF TypeOK
  <2>3. CASE HaEnabled /\ ~Failed(poll_r)
    <3>1. /\ unseen' = [i \in DOMAIN Pop(n).popped |-> Pop(n).popped[i].status]
          /\ codec_results' = Pop(n).rest /\ pc' = "scan"
          /\ UNCHANGED <<error_num, spare, is_fatal>>
      BY Zenon, <2>3 DEF PollPops
    <3>2. unseen' \in Seq(Status)
      <4> DEFINE pop == Pop(n).popped
      <4>1. /\ Len(pop) \in Nat /\ DOMAIN pop = 1 .. Len(pop)
            /\ \A i \in 1 .. Len(pop) : pop[i] \in [ctx : Nat, status : Status, of : Nat]
        BY Zenon, <1>1, LenProperties, ElementOfSeq DEF Results
      <4> HIDE DEF pop
      <4>2. \A i \in 1 .. Len(pop) : pop[i].status \in Status
        BY <4>1
      <4>3. unseen' = [i \in 1 .. Len(pop) |-> pop[i].status]
        BY Zenon, <3>1, <4>1 DEF pop
      <4> QED BY <4>1, <4>2, <4>3
    <3> QED BY Zenon, <1>0, <1>1, <3>1, <3>2 DEF TypeOK
  <2> QED BY Zenon, <2>1, <2>2, <2>3, HaAssumption
<1>4. /\ EachRequestOnceInOrder' /\ ResultIsOwn' /\ received' \in Results
      /\ Len(received') + Len(codec_results') = Len(received) + Len(codec_results)
  BY Zenon, <1>0, <1>1, <1>2, <1>3, PopKeepsOrder
<1>5. in_qat_num' \in Nat /\ in_qat_num' <= MaxInQat /\ Len(ring) <= in_qat_num'
  <2>1. pc = "freemem" /\ in_qat_num' = in_qat_num - callback_called_times
    BY Zenon, <1>2
  <2>2. /\ in_qat_num \in Nat /\ callback_called_times \in Nat /\ Len(ring) \in Nat
        /\ Len(ring) + callback_called_times <= in_qat_num /\ in_qat_num <= MaxInQat
    BY Zenon, <2>1, Counters
  <2> QED BY <2>1, <2>2, SlotAssumption
<1>6. TypeOK'
  BY Zenon, <1>0, <1>2, <1>3, <1>4, <1>5 DEF TypeOK, CtxAddrs
<1> QED BY Zenon, <1>2, <1>3, <1>4, <1>5, <1>6, Counters, ControlStep

\* One popped result is shown to HA.
LEMMA ScanPoppedStep ==
    ASSUME InductiveInvariant, ScanPopped
    PROVE  InductiveInvariant'
<1> USE DEF reqVars, flagVars, poolVars, memVars, hwVars, haVars, pollVars
<1>0. TypeOK /\ codec_results \in Results /\ DOMAIN codec_results = 1 .. Len(codec_results)
  BY Zenon, LenProperties DEF InductiveInvariant, TypeOK, Results
<1>1. /\ UNCHANGED <<next_req_id, next_recv_req_id, in_qat_num, callback_called_times,
                     closed, is_fatal, meta, cb_pool, cb_ctx, bufs, timers, ring, retired,
                     submitting, poll_r, free_mem_timers, timed_out, src_freed, dst_freed,
                     received>>
      /\ pc = "scan"
  BY Zenon DEF ScanPopped
<1>2. /\ codec_results' \in Results
      /\ Len(codec_results') = Len(codec_results)
      /\ DOMAIN codec_results' = DOMAIN codec_results
      /\ \A i \in DOMAIN codec_results : /\ codec_results'[i].ctx = codec_results[i].ctx
                                         /\ codec_results'[i].of = codec_results[i].of
      /\ error_num' \in Nat /\ spare' = spare
      /\ pc' \in {"idle", "drop", "scan"}
      /\ unseen' \in Seq(Status)
  <2>1. CASE unseen = <<>>
    BY Zenon, <1>0, <2>1 DEF ScanPopped, TypeOK
  <2>2. CASE unseen # <<>>
    <3>1. Head(unseen) \in Status /\ Tail(unseen) \in Seq(Status)
      BY <1>0, <2>2 DEF TypeOK
    <3>2. CASE Head(unseen) = "Ok"
      BY Zenon, <1>0, <2>2, <3>1, <3>2 DEF ScanPopped, TypeOK
    <3>3. CASE Head(unseen) # "Ok"
      <4>1. unseen' = Tail(unseen) /\ HandleHa(Head(unseen), codec_results, "scan")
        BY Zenon, <2>2, <3>3 DEF ScanPopped
      <4> QED BY Zenon, <1>0, <3>1, <4>1, HandleHaKeepsRequests
    <3> QED BY Zenon, <3>2, <3>3
  <2> QED BY Zenon, <2>1, <2>2
<1>3. EachRequestOnceInOrder' /\ ResultIsOwn'
  BY Zenon, <1>1, <1>2 DEF InductiveInvariant, EachRequestOnceInOrder, ResultIsOwn
<1>4. TypeOK'
  BY Zenon, <1>0, <1>1, <1>2 DEF TypeOK, CtxAddrs
<1> QED BY Zenon, <1>1, <1>2, <1>3, <1>4, Counters, ControlStep

\* A request with a timer is one the instance has not returned yet.
LEMMA TimersInWindow ==
    ASSUME InductiveInvariant, NEW t \in timers
    PROVE  t \in Nat /\ next_recv_req_id <= t /\ t < next_req_id
<1> USE Counters
<1>1. CASE closed
  BY Zenon, <1>1 DEF InductiveInvariant, InflightWindow
<1>2. CASE ~closed
  <2>1. /\ timers = Len(received) + Len(codec_results) + 1 .. next_req_id - 1
        /\ next_recv_req_id <= Len(received) + Len(codec_results) + 1
    BY Zenon, <1>2 DEF InductiveInvariant, EachRequestOnceInOrder, InflightWindow
  <2> QED BY <2>1
<1> QED BY <1>1, <1>2

\* As long as the ring is not full, the slot of the next request is free and
\* its context belongs to no hardware.
LEMMA NextSlotFree ==
    ASSUME InductiveInvariant, in_qat_num < MaxInQat, submitting = 0, ~closed
    PROVE  LET s == Slot(next_req_id)
               c == cb_pool[s]
           IN  /\ s \in Slots /\ c \in CtxAddrs
               /\ meta[s].valid = FALSE
               /\ c \notin HwContexts
               /\ cb_ctx[c].buf = NoBuf
               /\ \A t \in timers : Slot(t) # s
               /\ \A i \in DOMAIN ring : Slot(next_recv_req_id + i - 1) # s
<1> DEFINE s == Slot(next_req_id)
           c == cb_pool[s]
<1>1. s \in Slots
  BY Zenon, Counters, SlotInRange
<1>2. c \in CtxAddrs /\ meta[s].valid \in BOOLEAN
  BY Zenon, <1>1 DEF InductiveInvariant, TypeOK
<1>3. next_req_id - next_recv_req_id < SlotNum
  <2>1. /\ next_req_id \in Nat /\ next_recv_req_id \in Nat
        /\ next_req_id - next_recv_req_id <= in_qat_num /\ in_qat_num \in Nat
    BY Zenon, Counters
  <2> QED BY <2>1, SlotAssumption
<1>4. ASSUME NEW t \in timers PROVE Slot(t) # s
  <2>1. /\ t \in Nat /\ next_recv_req_id <= t /\ t < next_req_id
        /\ next_req_id \in Nat /\ next_recv_req_id \in Nat
    BY TimersInWindow, Counters
  <2> QED BY <1>3, <2>1, SlotsDistinct, SlotAssumption
<1>5. ASSUME NEW i \in DOMAIN ring PROVE Slot(next_recv_req_id + i - 1) # s
  <2>1. /\ next_req_id \in Nat /\ next_recv_req_id \in Nat \ {0}
        /\ i \in 1 .. next_req_id - next_recv_req_id
    BY Zenon, Counters
  <2>2. /\ next_recv_req_id + i - 1 \in Nat
        /\ next_recv_req_id <= next_recv_req_id + i - 1
        /\ next_recv_req_id + i - 1 < next_req_id
    BY <2>1
  <2> QED BY <1>3, <2>1, <2>2, SlotsDistinct, SlotAssumption
<1>6. meta[s].valid = FALSE
  BY Zenon, <1>1, <1>2, <1>4 DEF InductiveInvariant, SlotOwnership
<1>7. c \notin HwContexts
  <2>1. c \notin retired
    BY Zenon, <1>1 DEF InductiveInvariant, SlotOwnership
  <2>2. \A i \in DOMAIN ring : c # ring[i]
    BY Zenon, <1>1, <1>5 DEF InductiveInvariant, SlotOwnership
  <2> QED BY Zenon, <2>1, <2>2 DEF HwContexts, Range
<1>8. c # submitting
  BY <1>2 DEF CtxAddrs
<1>9. cb_ctx[c].buf = NoBuf
  BY Zenon, <1>2, <1>7, <1>8 DEF InductiveInvariant, BufferOwnership
<1> QED BY Zenon, <1>1, <1>2, <1>4, <1>5, <1>6, <1>7, <1>9

\* A submission that fails in PrepareCommonReqData has written the id of a free slot.
LEMMA PrepareFailsStep ==
    ASSUME InductiveInvariant, PrepareFails
    PROVE  InductiveInvariant'
<1> USE DEF reqVars, flagVars, poolVars, memVars, hwVars, haVars, pollVars
<1> DEFINE s == Slot(next_req_id)
<1>1. /\ in_qat_num < MaxInQat /\ submitting = 0 /\ ~closed
      /\ meta' = [meta EXCEPT ![s].req_id = next_req_id]
      /\ UNCHANGED <<pc, next_req_id, next_recv_req_id, in_qat_num, callback_called_times,
                     closed, cb_pool, cb_ctx, bufs, timers, codec_results, ring, retired,
                     submitting, received>>
  BY Counters, SlotAssumption DEF PrepareFails, CanSubmit, QatRingFull
<1>2. /\ s \in Slots /\ meta[s].valid = FALSE
      /\ \A t \in timers : Slot(t) # s
  BY Zenon, <1>1, NextSlotFree
<1> HIDE DEF s
<1>3. TypeOK'
  <2>1. meta' \in [Slots -> [req_id : Nat, valid : BOOLEAN]]
    BY Zenon, <1>1, <1>2, Counters DEF InductiveInvariant, TypeOK
  <2> QED BY Zenon, <1>1, <2>1 DEF PrepareFails, InductiveInvariant, TypeOK, CtxAddrs
<1>4. EachRequestOnceInOrder' /\ ResultIsOwn'
  BY <1>1 DEF InductiveInvariant, EachRequestOnceInOrder, ResultIsOwn
<1>5. InflightWindow'
  BY <1>1 DEF InductiveInvariant, InflightWindow
<1>6. SlotOwnership'
  <2>1. \A q \in Slots : q # s => meta'[q] = meta[q]
    BY Zenon, <1>1 DEF InductiveInvariant, TypeOK
  <2>2. meta'[s].valid = FALSE
    BY <1>1, <1>2 DEF InductiveInvariant, TypeOK
  <2>3. TimerMatchesSlot'
    BY <1>1, <1>2, <2>1, SlotInRange DEF InductiveInvariant, SlotOwnership, TimerMatchesSlot, TypeOK
  <2> QED BY <1>1, <2>1, <2>2, <2>3 DEF InductiveInvariant, SlotOwnership
<1>7. BufferOwnership'
  BY <1>1 DEF InductiveInvariant, BufferOwnership, CtxAddrs, HwContexts, Range, NoBufferLost
<1> QED BY <1>3, <1>4, <1>5, <1>6, <1>7 DEF InductiveInvariant

\* Writing one context of the heap.
LEMMA WriteCtx ==
    ASSUME NEW S, NEW q \in Seq(S), NEW i \in 1 .. Len(q), NEW x \in S, NEW p,
           p = [q EXCEPT ![i] = x]
    PROVE  /\ p \in Seq(S) /\ Len(p) = Len(q)
           /\ p[i] = x
           /\ \A j \in 1 .. Len(q) : j # i => p[j] = q[j]
  OBVIOUS

\* A free context gets a pair of buffers from the cache (QatBufCache::GetOne) and
\* becomes an owner.
LEMMA OwnersGain ==
    ASSUME InductiveInvariant, ~closed,
           NEW c \in CtxAddrs, NEW b \in bufs, NEW r \in Nat,
           cb_ctx[c].buf = NoBuf,
           bufs' = bufs \ {b},
           cb_ctx' = [cb_ctx EXCEPT ![c] = [req_id |-> r, buf |-> b]],
           \A d \in CtxAddrs : (d \in HwContexts' \/ d = submitting') <=>
                              (d \in HwContexts \/ d = submitting \/ d = c),
           submitting' # 0 => pc' = "drop" /\ submitting' \notin HwContexts'
    PROVE  BufferOwnership'
<1>1. b \in Bufs /\ b # NoBuf
  BY Zenon, BufAssumption DEF InductiveInvariant, TypeOK
<1>2. /\ Len(cb_ctx') = Len(cb_ctx) /\ CtxAddrs' = CtxAddrs
      /\ cb_ctx'[c] = [req_id |-> r, buf |-> b]
      /\ \A d \in CtxAddrs : d # c => cb_ctx'[d] = cb_ctx[d]
  BY DEF InductiveInvariant, TypeOK, CtxAddrs
<1>3. ASSUME NEW d \in CtxAddrs
      PROVE  /\ cb_ctx'[d].buf # NoBuf <=> d \in HwContexts' \/ d = submitting'
             /\ cb_ctx'[d].buf \notin bufs'
  <2>1. CASE d = c
    BY <1>1, <1>2, <2>1
  <2>2. CASE d # c
    BY <1>2, <2>2 DEF InductiveInvariant, BufferOwnership
  <2> QED BY Zenon, <2>1, <2>2
<1>4. ASSUME NEW d \in CtxAddrs, NEW e \in CtxAddrs, cb_ctx'[d].buf = cb_ctx'[e].buf
      PROVE  d = e \/ cb_ctx'[d].buf = NoBuf
  <2>1. \A f \in CtxAddrs : cb_ctx[f].buf # b
    BY Zenon DEF InductiveInvariant, BufferOwnership
  <2>2. CASE d # c /\ e # c
    BY <1>2, <1>4, <2>2 DEF InductiveInvariant, BufferOwnership
  <2>3. CASE d = c \/ e = c
    BY <1>2, <1>4, <2>1, <2>3
  <2> QED BY Zenon, <2>2, <2>3
<1>5. NoBufferLost'
  <2> SUFFICES ASSUME NEW x \in Bufs
               PROVE  x \in bufs' \/ \E d \in CtxAddrs : cb_ctx'[d].buf = x
    BY Zenon, <1>2 DEF NoBufferLost
  <2>1. CASE x = b
    BY <1>2, <2>1
  <2>2. CASE x # b /\ x \in bufs
    BY Zenon, <2>2
  <2>3. CASE x \notin bufs
    <3>1. PICK d \in CtxAddrs : cb_ctx[d].buf = x
      BY Zenon, <2>3 DEF InductiveInvariant, BufferOwnership, NoBufferLost
    <3>2. d # c
      BY Zenon, <3>1, BufAssumption
    <3> QED BY Zenon, <1>2, <3>1, <3>2
  <2> QED BY Zenon, <2>1, <2>2, <2>3
<1> QED BY Zenon, <1>2, <1>3, <1>4, <1>5 DEF BufferOwnership

\* RequestCbContext::Reset gives the buffers of a context back, and the context
\* is no owner any more.
LEMMA OwnersLose ==
    ASSUME InductiveInvariant, ~closed,
           NEW c \in CtxAddrs,
           ResetCtx(c),
           \A d \in CtxAddrs : (d \in HwContexts' \/ d = submitting') <=>
                              (d \in HwContexts \/ d = submitting) /\ d # c,
           submitting' # 0 => pc' = "drop" /\ submitting' \notin HwContexts'
    PROVE  /\ BufferOwnership'
           /\ cb_ctx' \in Seq([req_id : Nat, buf : Bufs \cup {NoBuf}])
           /\ CtxAddrs' = CtxAddrs
           /\ \A d \in CtxAddrs : d # c => cb_ctx'[d] = cb_ctx[d]
           /\ bufs' \subseteq Bufs
<1> DEFINE b == cb_ctx[c].buf
<1>1. /\ cb_ctx \in Seq([req_id : Nat, buf : Bufs \cup {NoBuf}]) /\ bufs \subseteq Bufs
      /\ cb_ctx[c] \in [req_id : Nat, buf : Bufs \cup {NoBuf}]
  <2>1. cb_ctx \in Seq([req_id : Nat, buf : Bufs \cup {NoBuf}]) /\ bufs \subseteq Bufs
    BY Zenon DEF InductiveInvariant, TypeOK
  <2>2. c \in 1 .. Len(cb_ctx)
    BY Zenon DEF CtxAddrs
  <2> QED BY Zenon, <2>1, <2>2, ElementOfSeq
<1>2. /\ cb_ctx' \in Seq([req_id : Nat, buf : Bufs \cup {NoBuf}])
      /\ Len(cb_ctx') = Len(cb_ctx) /\ CtxAddrs' = CtxAddrs
      /\ cb_ctx'[c].buf = NoBuf
      /\ \A d \in CtxAddrs : d # c => cb_ctx'[d] = cb_ctx[d]
  BY <1>1 DEF ResetCtx, EmptyCtx, CtxAddrs
<1>3. bufs' = bufs \cup ({b} \ {NoBuf}) /\ bufs' \subseteq Bufs
  BY Zenon, <1>1 DEF ResetCtx
<1> HIDE DEF b
<1>4. ASSUME NEW d \in CtxAddrs
      PROVE  /\ cb_ctx'[d].buf # NoBuf <=> d \in HwContexts' \/ d = submitting'
             /\ cb_ctx'[d].buf \notin bufs'
  <2>1. CASE d = c
    BY Zenon, <1>2, <1>3, <2>1, BufAssumption
  <2>2. CASE d # c
    BY Zenon, <1>2, <1>3, <2>2, BufAssumption DEF InductiveInvariant, BufferOwnership, b
  <2> QED BY Zenon, <2>1, <2>2
<1>5. ASSUME NEW d \in CtxAddrs, NEW e \in CtxAddrs, cb_ctx'[d].buf = cb_ctx'[e].buf
      PROVE  d = e \/ cb_ctx'[d].buf = NoBuf
  BY Zenon, <1>2, <1>5 DEF InductiveInvariant, BufferOwnership
<1>6. NoBufferLost'
  <2> SUFFICES ASSUME NEW x \in Bufs, x \notin bufs'
               PROVE  \E d \in CtxAddrs : cb_ctx'[d].buf = x
    BY Zenon, <1>2 DEF NoBufferLost
  <2>1. PICK d \in CtxAddrs : cb_ctx[d].buf = x
    BY Zenon, <1>3 DEF InductiveInvariant, BufferOwnership, NoBufferLost
  <2>2. d # c
    BY Zenon, <1>3, <2>1, BufAssumption DEF b
  <2> QED BY Zenon, <1>2, <2>1, <2>2
<1> QED BY Zenon, <1>2, <1>3, <1>4, <1>5, <1>6 DEF BufferOwnership

(***************************************************************************)
(* The steps that change pools, timers or ring: submission, callback,       *)
(* timeout and drop, fallback, close.                                       *)
(***************************************************************************)
\* SubmitAsyncRequest accepts: the next slot is free, its context gets an own pair
\* of buffers.
LEMMA SubmitOkStep ==
    ASSUME InductiveInvariant, SubmitOk
    PROVE  InductiveInvariant'
<1> USE DEF reqVars, flagVars, poolVars, memVars, hwVars, haVars, pollVars
<1> DEFINE id == next_req_id
           s == Slot(id)
           c == cb_pool[s]
           n == Len(ring)
<1>1. PICK b \in bufs : /\ bufs' = bufs \ {b}
                        /\ cb_ctx' = [cb_ctx EXCEPT ![c] = [req_id |-> id, buf |-> b]]
  BY Zenon DEF SubmitOk
<1>2. /\ pc = "idle" /\ in_qat_num < MaxInQat /\ submitting = 0 /\ ~closed
      /\ meta' = [meta EXCEPT ![s] = [req_id |-> id, valid |-> TRUE]]
      /\ ring' = Append(ring, c)
      /\ in_qat_num' = in_qat_num + 1
      /\ next_req_id' = id + 1
      /\ timers' = timers \cup {id}
      /\ UNCHANGED <<pc, next_recv_req_id, callback_called_times, closed, cb_pool,
                     codec_results, retired, submitting, received>>
  BY Counters, SlotAssumption, SMTT(30) DEF SubmitOk, CanSubmit, QatRingFull
<1>3. /\ s \in Slots /\ c \in CtxAddrs /\ c \notin HwContexts
      /\ cb_ctx[c].buf = NoBuf
      /\ \A t \in timers : Slot(t) # s
      /\ \A i \in DOMAIN ring : Slot(next_recv_req_id + i - 1) # s
  BY Zenon, <1>2, NextSlotFree
<1>4. TypeOK /\ id \in Nat \ {0} /\ n \in Nat /\ DOMAIN ring = 1 .. n
  BY Zenon, Counters DEF InductiveInvariant
<1>5. b \in Bufs /\ b # NoBuf
  BY Zenon, <1>4, BufAssumption DEF TypeOK
<1>6. /\ cb_ctx' \in Seq([req_id : Nat, buf : Bufs \cup {NoBuf}])
      /\ Len(cb_ctx') = Len(cb_ctx) /\ CtxAddrs' = CtxAddrs
      /\ cb_ctx'[c] = [req_id |-> id, buf |-> b]
      /\ \A d \in CtxAddrs : d # c => cb_ctx'[d] = cb_ctx[d]
  BY <1>1, <1>3, <1>4, <1>5 DEF TypeOK, CtxAddrs
<1>7. /\ ring' \in Seq(CtxAddrs) /\ Len(ring') = n + 1 /\ DOMAIN ring' = 1 .. n + 1
      /\ \A i \in 1 .. n : ring'[i] = ring[i] /\ ring[i] \in CtxAddrs
      /\ ring'[n + 1] = c
  BY <1>2, <1>3, <1>4 DEF TypeOK
<1>8. HwContexts' = HwContexts \cup {c}
  <2>1. Range(ring') = Range(ring) \cup {c}
    BY <1>4, <1>7 DEF Range
  <2> QED BY Zenon, <1>2, <2>1 DEF HwContexts, Range
<1>9. \A i \in 1 .. n : ring[i] # c
  BY Zenon, <1>3, <1>4 DEF HwContexts, Range
<1>10. meta' \in [Slots -> [req_id : Nat, valid : BOOLEAN]]
  BY Zenon, <1>2, <1>3, <1>4 DEF TypeOK
<1>11. /\ meta'[s] = [req_id |-> id, valid |-> TRUE]
       /\ \A q \in Slots : q # s => meta'[q] = meta[q]
  BY Zenon, <1>2, <1>3, <1>4 DEF TypeOK
<1> HIDE DEF id, s, c, n
<1>12. TypeOK'
  <2>1. /\ next_req_id' \in Nat \ {0} /\ in_qat_num' \in Nat
        /\ bufs' \subseteq Bufs /\ timers' \subseteq Nat
    BY <1>1, <1>2, <1>4 DEF TypeOK, id
  <2> QED BY Zenon, <1>2, <1>4, <1>6, <1>7, <1>10, <2>1 DEF SubmitOk, TypeOK
<1>13. EachRequestOnceInOrder' /\ ResultIsOwn'
  <2>1. timers' = Len(received) + Len(codec_results) + 1 .. next_req_id' - 1
    <3>1. /\ timers = Len(received) + Len(codec_results) + 1 .. id - 1
          /\ Len(received) + Len(codec_results) + 1 <= id
      BY Zenon, <1>2 DEF InductiveInvariant, EachRequestOnceInOrder, InflightWindow, id
    <3> QED BY SMTT(30), <1>2, <1>4, <3>1, Counters
  <2> QED BY Zenon, <1>2, <2>1 DEF InductiveInvariant, EachRequestOnceInOrder, ResultIsOwn
<1>14. InflightWindow'
  <2>1. /\ next_recv_req_id' <= next_req_id' /\ Len(ring') = next_req_id' - next_recv_req_id'
        /\ in_qat_num' <= MaxInQat /\ Len(ring') <= in_qat_num'
    BY SMTT(30), <1>2, <1>7, Counters, SlotAssumption DEF id, n
  <2>2. ASSUME NEW i \in 1 .. n + 1
        PROVE  cb_ctx'[ring'[i]].req_id = next_recv_req_id + i - 1
    <3>1. CASE i \in 1 .. n
      BY ZenonT(40), <1>4, <1>6, <1>7, <1>9, <3>1 DEF InductiveInvariant, InflightWindow
    <3>2. CASE i = n + 1
      <4>1. id = next_recv_req_id + n
        BY Counters DEF id, n
      <4> QED BY SMTT(30), <1>4, <1>6, <1>7, <3>2, <4>1, Counters
    <3> QED BY <1>4, <3>1, <3>2
  <2>3. /\ next_recv_req_id <= Len(received) + Len(codec_results) + 1
        /\ Len(received) + Len(codec_results) + 1 <= id + 1
    <3>1. Len(received) + Len(codec_results) + 1 <= id
      BY Zenon, <1>2 DEF InductiveInvariant, InflightWindow, id
    <3> QED BY <1>2, <3>1, <1>4, Counters DEF InductiveInvariant, InflightWindow
  <2> QED BY Zenon, <1>2, <1>7, <2>1, <2>2, <2>3 DEF InflightWindow
<1>15. SlotOwnership'
  <2>1. TimerMatchesSlot'
    <3> SUFFICES ASSUME NEW t \in timers'
                 PROVE  meta'[Slot(t)] = [req_id |-> t, valid |-> TRUE]
      BY DEF TimerMatchesSlot
    <3>1. CASE t = id
      BY Zenon, <1>11, <3>1 DEF s
    <3>2. CASE t # id
      <4>1. t \in timers /\ t \in Nat
        BY Zenon, <1>2, <1>4, <3>2 DEF TypeOK
      <4>2. Slot(t) \in Slots /\ Slot(t) # s
        BY Zenon, <1>3, <4>1, SlotInRange
      <4> QED BY Zenon, <1>11, <4>1, <4>2 DEF InductiveInvariant, SlotOwnership, TimerMatchesSlot
    <3> QED BY Zenon, <3>1, <3>2
  <2>2. ASSUME NEW q \in Slots, meta'[q].valid
        PROVE  meta'[q].req_id \in timers' /\ Slot(meta'[q].req_id) = q
    BY SMTT(30), <1>2, <1>11, <2>2 DEF InductiveInvariant, SlotOwnership, s
  <2>3. ASSUME NEW q \in Slots
        PROVE  cb_pool'[q] \notin retired'
    BY Zenon, <1>2 DEF InductiveInvariant, SlotOwnership
  <2>4. ASSUME NEW q \in Slots, NEW i \in 1 .. n + 1, cb_pool[q] = ring'[i]
        PROVE  /\ next_recv_req_id + i - 1 \in timers'
               /\ Slot(next_recv_req_id + i - 1) = q
    <3>1. CASE i \in 1 .. n
      BY Zenon, <1>2, <1>4, <1>7, <2>4, <3>1 DEF InductiveInvariant, SlotOwnership
    <3>2. CASE i = n + 1
      <4>1. next_recv_req_id + i - 1 = id
        BY <3>2, Counters DEF id, n
      <4>2. cb_pool[q] = c
        BY Zenon, <1>7, <2>4, <3>2
      <4>3. q = s
        BY Zenon, <1>3, <4>2 DEF c, InductiveInvariant, SlotOwnership
      <4> QED BY Zenon, <1>2, <4>1, <4>3 DEF s
    <3> QED BY SMTT(30), <1>4, <3>1, <3>2
  <2>5. ASSUME NEW i \in 1 .. n + 1, NEW j \in 1 .. n + 1, ring'[i] = ring'[j]
        PROVE  i = j
    BY SMTT(30), <1>4, <1>7, <1>9, <2>5 DEF InductiveInvariant, SlotOwnership
  <2>6. ASSUME NEW i \in 1 .. n + 1
        PROVE  ring'[i] \notin retired
    BY SMTT(30), <1>3, <1>4, <1>7 DEF InductiveInvariant, SlotOwnership, HwContexts
  <2>7. \A q, p \in Slots : cb_pool'[q] = cb_pool'[p] => q = p
    BY Zenon, <1>2 DEF InductiveInvariant, SlotOwnership
  <2> QED BY Zenon, <1>2, <1>7, <2>1, <2>2, <2>3, <2>4, <2>5, <2>6, <2>7 DEF SlotOwnership
<1>16. BufferOwnership'
  BY Zenon, <1>1, <1>2, <1>3, <1>4, <1>8, OwnersGain DEF c
<1> QED BY Zenon, <1>12, <1>13, <1>14, <1>15, <1>16 DEF InductiveInvariant
\* The driver rejects a request: its context is cleaned up at once, or, when the
\* error triggers HA, stays filled until the inflight requests are dropped.
LEMMA SubmitFailsStep ==
    ASSUME InductiveInvariant, NEW e \in SubmitErrors, SubmitFails(e)
    PROVE  InductiveInvariant'
<1> USE DEF reqVars, flagVars, poolVars, memVars, hwVars, haVars, pollVars
<1> DEFINE id == next_req_id
           s == Slot(id)
           c == cb_pool[s]
<1>1. /\ in_qat_num < MaxInQat /\ submitting = 0 /\ ~closed /\ pc = "idle"
      /\ meta' = [meta EXCEPT ![s].req_id = id]
      /\ UNCHANGED <<next_req_id, next_recv_req_id, in_qat_num, callback_called_times,
                     closed, cb_pool, timers, ring, retired, received>>
  BY Counters, SlotAssumption DEF SubmitFails, CanSubmit, QatRingFull
<1>2. /\ s \in Slots /\ c \in CtxAddrs /\ c \notin HwContexts
      /\ meta[s].valid = FALSE /\ cb_ctx[c].buf = NoBuf
      /\ \A t \in timers : Slot(t) # s
  BY Zenon, <1>1, NextSlotFree
<1>3. TypeOK /\ codec_results \in Results /\ id \in Nat
  BY Zenon, Counters DEF InductiveInvariant, TypeOK
<1>4. /\ codec_results' \in Results
      /\ Len(codec_results') = Len(codec_results)
      /\ DOMAIN codec_results' = DOMAIN codec_results
      /\ \A i \in DOMAIN codec_results : /\ codec_results'[i].ctx = codec_results[i].ctx
                                         /\ codec_results'[i].of = codec_results[i].of
      /\ error_num' \in Nat /\ spare' = spare /\ is_fatal' \in BOOLEAN
      /\ pc' \in {"drop", "idle"}
  <2>1. CASE HaEnabled
    <3>1. HandleHa(e, codec_results, "idle") /\ is_fatal' = is_fatal
      BY <2>1 DEF SubmitFails
    <3>2. e \in Status /\ is_fatal \in BOOLEAN
      BY Zenon, Counters DEF Status
    <3> QED BY Zenon, <1>3, <3>1, <3>2, HandleHaKeepsRequests
  <2>2. CASE ~HaEnabled
    <3>1. /\ is_fatal' = (e = "ChannelError")
          /\ UNCHANGED <<pc, codec_results, error_num, spare>>
      BY Zenon, <2>2 DEF SubmitFails
    <3> QED BY Zenon, <1>1, <1>3, <3>1 DEF TypeOK
  <2> QED BY Zenon, <2>1, <2>2
<1>5. PICK b \in bufs :
        IF pc' = "drop"
        THEN /\ submitting' = c
             /\ bufs' = bufs \ {b}
             /\ cb_ctx' = [cb_ctx EXCEPT ![c] = [req_id |-> id, buf |-> b]]
        ELSE /\ cb_ctx' = [cb_ctx EXCEPT ![c] = EmptyCtx]
             /\ UNCHANGED <<submitting, bufs>>
  BY Zenon DEF SubmitFails
<1> HIDE DEF c, s, id
<1>6. HwContexts' = HwContexts
  BY <1>1 DEF HwContexts, Range
<1>7. /\ cb_ctx' \in Seq([req_id : Nat, buf : Bufs \cup {NoBuf}])
      /\ CtxAddrs' = CtxAddrs
      /\ \A d \in CtxAddrs : d # c => cb_ctx'[d] = cb_ctx[d]
      /\ bufs' \subseteq Bufs
      /\ submitting' \in {0, c}
  <2> DEFINE Ctx == [req_id : Nat, buf : Bufs \cup {NoBuf}]
  <2>1. /\ [req_id |-> id, buf |-> b] \in Ctx /\ EmptyCtx \in Ctx
        /\ cb_ctx \in Seq(Ctx) /\ bufs \subseteq Bufs /\ c \in 1 .. Len(cb_ctx)
    BY Zenon, <1>2, <1>3 DEF TypeOK, CtxAddrs, EmptyCtx
  <2> HIDE DEF Ctx
  <2>2. PICK x \in Ctx : cb_ctx' = [cb_ctx EXCEPT ![c] = x]
    BY Zenon, <1>5, <2>1
  <2>3. /\ cb_ctx' \in Seq(Ctx) /\ Len(cb_ctx') = Len(cb_ctx)
        /\ \A d \in 1 .. Len(cb_ctx) : d # c => cb_ctx'[d] = cb_ctx[d]
    BY <2>1, <2>2, WriteCtx
  <2>4. bufs' \subseteq Bufs /\ submitting' \in {0, c}
    BY Zenon, <1>1, <1>5, <2>1
  <2> QED BY Zenon, <2>3, <2>4 DEF CtxAddrs, Ctx
<1>8. BufferOwnership'
  <2>1. CASE pc' = "drop"
    <3>1. \A d \in CtxAddrs : d # submitting
      BY <1>1 DEF CtxAddrs
    <3>2. /\ submitting' = c /\ bufs' = bufs \ {b}
          /\ cb_ctx' = [cb_ctx EXCEPT ![c] = [req_id |-> id, buf |-> b]]
      BY Zenon, <1>5, <2>1
    <3>3. ~closed
      BY Zenon, <1>1
    <3> QED BY Zenon, <1>2, <1>3, <1>6, <2>1, <3>1, <3>2, <3>3, OwnersGain
  <2>2. CASE pc' # "drop"
    <3>1. ResetCtx(c)
      BY Zenon, <1>2, <1>5, <2>2 DEF ResetCtx
    <3>2. \A d \in CtxAddrs : d # 0
      BY DEF CtxAddrs
    <3> QED BY Zenon, <1>1, <1>2, <1>5, <1>6, <2>2, <3>1, <3>2, OwnersLose
  <2> QED BY Zenon, <2>1, <2>2
<1>9. meta' \in [Slots -> [req_id : Nat, valid : BOOLEAN]]
  BY Zenon, <1>1, <1>2, <1>3 DEF TypeOK
<1>10. TypeOK'
  <2>1. submitting' \in Nat /\ (submitting' # 0 => submitting' \in CtxAddrs)
    BY <1>2, <1>7 DEF CtxAddrs
  <2>2. ring' \in Seq(CtxAddrs) /\ cb_pool' \in [Slots -> CtxAddrs] /\ retired' \subseteq CtxAddrs
    BY Zenon, <1>1, <1>3 DEF TypeOK
  <2>3. /\ UNCHANGED <<poll_r, unseen, free_mem_timers, timed_out, src_freed, dst_freed>>
    BY Zenon DEF SubmitFails
  <2> QED BY Zenon, <1>1, <1>3, <1>4, <1>7, <1>9, <2>1, <2>2, <2>3 DEF TypeOK
<1>11. EachRequestOnceInOrder' /\ ResultIsOwn'
  BY Zenon, <1>1, <1>4 DEF InductiveInvariant, EachRequestOnceInOrder, ResultIsOwn
<1>12. InflightWindow'
  <2>1. \A i \in DOMAIN ring : ring[i] # c /\ ring[i] \in CtxAddrs
    BY <1>2, <1>3 DEF HwContexts, Range, TypeOK
  <2>2. \A i \in DOMAIN ring : cb_ctx'[ring[i]].req_id = next_recv_req_id + i - 1
    BY Zenon, <1>7, <2>1 DEF InductiveInvariant, InflightWindow
  <2> QED BY Zenon, <1>1, <1>4, <2>2 DEF InductiveInvariant, InflightWindow
<1>13. SlotOwnership'
  <2>1. \A q \in Slots : q # s => meta'[q] = meta[q]
    BY <1>1, <1>3 DEF TypeOK
  <2>2. meta'[s].valid = FALSE
    BY Zenon, <1>1, <1>2, <1>3 DEF TypeOK
  <2>3. TimerMatchesSlot'
    BY <1>1, <1>2, <1>3, <2>1, SlotInRange
       DEF InductiveInvariant, SlotOwnership, TimerMatchesSlot, TypeOK
  <2> QED BY <1>1, <2>1, <2>2, <2>3 DEF InductiveInvariant, SlotOwnership
<1> QED BY Zenon, <1>8, <1>10, <1>11, <1>12, <1>13 DEF InductiveInvariant

\* The driver's callback: if the request has not timed out, it is the oldest one
\* with a timer.
LEMMA CallbackStep ==
    ASSUME InductiveInvariant, NEW st \in CallbackStatus, Callback(st)
    PROVE  InductiveInvariant'
<1> USE DEF reqVars, flagVars, poolVars, memVars, hwVars, haVars, pollVars
<1> DEFINE c == Head(ring)
           r == next_recv_req_id
           s == Slot(r)
           n == Len(ring)
           done == Len(received) + Len(codec_results)
<1>1. TypeOK /\ ring # <<>> /\ n \in Nat /\ n >= 1 /\ r \in Nat \ {0} /\ done \in Nat
  BY Counters DEF InductiveInvariant, Callback
<1>2. c = ring[1] /\ c \in CtxAddrs /\ cb_ctx[c].req_id = r
  BY SMTT(30), <1>1 DEF InductiveInvariant, InflightWindow, TypeOK
<1>3. /\ pc \in {"poll", "close"} /\ ~closed /\ submitting = 0
      /\ ring' = Tail(ring)
      /\ callback_called_times' = callback_called_times + 1
      /\ next_recv_req_id' = r + 1
      /\ IF meta[s].valid
         THEN /\ codec_results' = Append(codec_results, Result(meta[s].req_id, st, r))
              /\ meta' = [meta EXCEPT ![s].valid = FALSE]
              /\ timers' = timers \ {meta[s].req_id}
         ELSE UNCHANGED <<codec_results, meta, timers>>
      /\ ResetCtx(c)
      /\ UNCHANGED <<pc, next_req_id, in_qat_num, is_fatal, closed, cb_pool, retired,
                     submitting, received>>
  BY Zenon, <1>2, Counters DEF Callback
<1>4. /\ Len(ring') = n - 1 /\ DOMAIN ring' = 1 .. n - 1 /\ ring' \in Seq(CtxAddrs)
      /\ \A i \in 1 .. n - 1 : ring'[i] = ring[i + 1]
  BY <1>1, <1>3 DEF TypeOK
<1>5. \A i \in 1 .. n - 1 : ring[i + 1] # c /\ ring[i + 1] \in CtxAddrs
  <2> SUFFICES ASSUME NEW i \in 1 .. n - 1
               PROVE  ring[i + 1] # c /\ ring[i + 1] \in CtxAddrs
    BY Zenon
  <2>1. 1 \in DOMAIN ring /\ i + 1 \in DOMAIN ring /\ i + 1 # 1
    BY <1>1, Counters
  <2>2. ring[i + 1] \in CtxAddrs
    BY Zenon, <1>1, <2>1, Counters, ElementOfSeq DEF TypeOK
  <2>3. ring[i + 1] # ring[1]
    BY Zenon, <2>1 DEF InductiveInvariant, SlotOwnership
  <2> QED BY Zenon, <1>2, <2>2, <2>3
<1>6. HwContexts' = HwContexts \ {c}
  <2>1. c \notin retired
    BY <1>1, <1>2, Counters DEF InductiveInvariant, SlotOwnership
  <2>2. Range(ring') = Range(ring) \ {c}
    <3>1. ASSUME NEW x \in Range(ring) \ {c} PROVE x \in Range(ring')
      <4>1. PICK i \in 1 .. n : ring[i] = x
        BY Zenon, Counters DEF Range
      <4>2. i # 1 /\ i - 1 \in 1 .. n - 1 /\ (i - 1) + 1 = i
        BY <1>1, <1>2, <4>1
      <4> QED BY Zenon, <1>4, <4>1, <4>2 DEF Range
    <3>2. ASSUME NEW x \in Range(ring') PROVE x \in Range(ring) \ {c}
      <4>1. PICK i \in 1 .. n - 1 : ring'[i] = x
        BY Zenon, <1>4 DEF Range
      <4>2. i + 1 \in DOMAIN ring /\ ring[i + 1] = x /\ x # c
        BY <1>1, <1>4, <1>5, <4>1, Counters, SMTT(30)
      <4> QED BY Zenon, <4>2 DEF Range
    <3> QED BY Zenon, <3>1, <3>2
  <2> QED BY <1>3, <2>1, <2>2 DEF HwContexts
<1>7. /\ BufferOwnership'
      /\ cb_ctx' \in Seq([req_id : Nat, buf : Bufs \cup {NoBuf}])
      /\ CtxAddrs' = CtxAddrs
      /\ \A d \in CtxAddrs : d # c => cb_ctx'[d] = cb_ctx[d]
      /\ bufs' \subseteq Bufs
  <2>1. \A d \in CtxAddrs : d # 0
    BY DEF CtxAddrs
  <2> QED BY Zenon, <1>2, <1>3, <1>6, <2>1, OwnersLose
<1>8. /\ timers = done + 1 .. next_req_id - 1
      /\ r <= done + 1 /\ done + 1 <= next_req_id
      /\ r < next_req_id /\ next_req_id <= r + SlotNum /\ next_req_id \in Nat
  <2>1. timers = done + 1 .. next_req_id - 1
    BY <1>3 DEF InductiveInvariant, EachRequestOnceInOrder
  <2>2. r <= done + 1 /\ done + 1 <= next_req_id
    BY Zenon, <1>3 DEF InductiveInvariant, InflightWindow
  <2>3. r < next_req_id /\ next_req_id <= r + SlotNum /\ next_req_id \in Nat
    BY <1>1, Counters, SlotAssumption
  <2> QED BY Zenon, <2>1, <2>2, <2>3
<1>9. s \in Slots
  BY Zenon, <1>1, SlotInRange
<1>10. ASSUME NEW t \in timers, Slot(t) = s PROVE t = r
  BY <1>1, <1>8, <1>10, SlotInjective, SlotAssumption
<1>11. meta[s].valid => meta[s].req_id = r /\ r = done + 1
  <2> SUFFICES ASSUME meta[s].valid PROVE meta[s].req_id = r /\ r = done + 1
    BY Zenon
  <2>1. meta[s].req_id \in timers /\ Slot(meta[s].req_id) = s
    BY Zenon, <1>9 DEF InductiveInvariant, SlotOwnership
  <2>2. meta[s].req_id = r /\ r \in timers
    BY Zenon, <1>10, <2>1
  <2> QED BY <1>1, <1>8, <2>2
<1>12. ~meta[s].valid => r <= done
  <2> SUFFICES ASSUME ~meta[s].valid PROVE r <= done
    BY Zenon
  <2>1. \A t \in timers : meta[Slot(t)] = [req_id |-> t, valid |-> TRUE]
    BY DEF InductiveInvariant, SlotOwnership, TimerMatchesSlot
  <2>2. r \notin timers
    <3>1. meta[s].valid \in BOOLEAN
      BY Zenon, <1>1, <1>9 DEF TypeOK
    <3>2. meta[s].valid = FALSE
      BY Zenon, <3>1
    <3>3. ASSUME r \in timers PROVE FALSE
      <4>1. meta[s] = [req_id |-> r, valid |-> TRUE]
        BY Zenon, <2>1, <3>3
      <4>2. meta[s].valid = TRUE
        BY <4>1
      <4> QED BY Zenon, <3>2, <4>2
    <3> QED BY Zenon, <3>3
  <2> QED BY <1>1, <1>8, <2>2
<1>13. /\ codec_results \in Results /\ meta \in [Slots -> [req_id : Nat, valid : BOOLEAN]]
       /\ Len(codec_results) \in Nat /\ Len(received) \in Nat
  BY Zenon, <1>1, Counters DEF TypeOK
<1>14. timers' = timers \ {r}
  <2>1. CASE meta[s].valid
    BY <1>3, <1>11, <2>1
  <2>2. CASE ~meta[s].valid
    BY <1>1, <1>3, <1>8, <1>12, <2>2
  <2> QED BY Zenon, <2>1, <2>2
<1>15. /\ meta' \in [Slots -> [req_id : Nat, valid : BOOLEAN]]
       /\ meta'[s].valid = FALSE
       /\ \A q \in Slots : q # s => meta'[q] = meta[q]
  <2>1. CASE meta[s].valid
    BY Zenon, <1>3, <1>9, <1>13, <2>1
  <2>2. CASE ~meta[s].valid
    BY Zenon, <1>3, <1>9, <1>13, <2>2
  <2> QED BY Zenon, <2>1, <2>2
<1>16. /\ codec_results' \in Results
       /\ \/ /\ codec_results' = Append(codec_results, Result(r, st, r))
             /\ r = done + 1
             /\ Len(codec_results') = Len(codec_results) + 1
             /\ \A i \in 1 .. Len(codec_results) : codec_results'[i] = codec_results[i]
             /\ codec_results'[Len(codec_results) + 1] = Result(r, st, r)
          \/ codec_results' = codec_results /\ r <= done
  <2>1. CASE meta[s].valid
    <3>1. Result(r, st, r) \in [ctx : Nat, status : Status, of : Nat]
      BY Zenon, <1>1 DEF Result, Status
    <3>2. codec_results' = Append(codec_results, Result(r, st, r)) /\ r = done + 1
      BY Zenon, <1>3, <1>11, <2>1
    <3> HIDE DEF r
    <3> QED BY <1>13, <3>1, <3>2 DEF Results
  <2>2. CASE ~meta[s].valid
    BY <1>3, <1>12, <1>13, <2>2
  <2> QED BY Zenon, <2>1, <2>2
<1> HIDE DEF c, r, s, n, done
<1>17. TypeOK'
  <2>1. /\ next_recv_req_id' \in Nat \ {0} /\ callback_called_times' \in Nat
        /\ timers' \subseteq Nat
    <3>1. r + 1 \in Nat \ {0} /\ callback_called_times + 1 \in Nat
      BY <1>1, Counters
    <3> QED BY Zenon, <1>1, <1>3, <1>14, <3>1 DEF TypeOK
  <2>2. UNCHANGED <<error_num, spare, poll_r, unseen, free_mem_timers, timed_out,
                    src_freed, dst_freed>>
    BY Zenon DEF Callback
  <2> QED BY Zenon, <1>1, <1>3, <1>4, <1>7, <1>15, <1>16, <2>1, <2>2 DEF TypeOK
<1>18. EachRequestOnceInOrder' /\ ResultIsOwn' /\ Len(codec_results') \in Nat
  <2>1. CASE codec_results' = codec_results /\ r <= done
    <3>1. timers' = timers
      BY <1>1, <1>8, <1>14, <2>1
    <3> QED BY Zenon, <1>3, <1>13, <2>1, <3>1 DEF InductiveInvariant, EachRequestOnceInOrder, ResultIsOwn
  <2>2. CASE /\ codec_results' = Append(codec_results, Result(r, st, r))
             /\ r = done + 1
             /\ Len(codec_results') = Len(codec_results) + 1
             /\ \A i \in 1 .. Len(codec_results) : codec_results'[i] = codec_results[i]
             /\ codec_results'[Len(codec_results) + 1] = Result(r, st, r)
    <3>1. /\ DOMAIN codec_results' = 1 .. Len(codec_results) + 1
          /\ DOMAIN codec_results = 1 .. Len(codec_results)
      BY Zenon, <1>13, <1>16, <2>2, LenProperties DEF Results
    <3>2. timers' = Len(received') + Len(codec_results') + 1 .. next_req_id' - 1
      BY <1>1, <1>3, <1>8, <1>13, <1>14, <2>2 DEF done
    <3>3. ASSUME NEW i \in 1 .. Len(codec_results) + 1
          PROVE  /\ codec_results'[i].ctx = Len(received) + i
                 /\ codec_results'[i].of = codec_results'[i].ctx
      <4>1. CASE i \in 1 .. Len(codec_results)
        BY Zenon, <2>2, <3>1, <4>1 DEF InductiveInvariant, EachRequestOnceInOrder, ResultIsOwn
      <4>2. CASE i = Len(codec_results) + 1
        BY <1>13, <2>2, <4>2 DEF Result, done
      <4> QED BY <1>13, <4>1, <4>2
    <3>4. \A i \in DOMAIN received' : received'[i].ctx = i
      BY Zenon, <1>3 DEF InductiveInvariant, EachRequestOnceInOrder
    <3>5. \A i \in DOMAIN codec_results' :
             /\ codec_results'[i].ctx = Len(received') + i
             /\ codec_results'[i].of = codec_results'[i].ctx
      BY <1>3, <3>1, <3>3
    <3>6. Len(codec_results') \in Nat
      BY <1>13, <2>2
    <3> QED BY Zenon, <3>2, <3>4, <3>5, <3>6 DEF EachRequestOnceInOrder, ResultIsOwn
  <2> QED BY Zenon, <1>16, <2>1, <2>2
<1>19. InflightWindow'
  <2>1. \A i \in 1 .. n - 1 : cb_ctx'[ring'[i]].req_id = r + 1 + i - 1
    <3> SUFFICES ASSUME NEW i \in 1 .. n - 1 PROVE cb_ctx'[ring'[i]].req_id = r + 1 + i - 1
      BY Zenon
    <3>1. cb_ctx'[ring'[i]] = cb_ctx[ring[i + 1]]
      BY Zenon, <1>4, <1>5, <1>7
    <3>2. i + 1 \in DOMAIN ring
      BY <1>1, Counters DEF n
    <3>3. cb_ctx[ring[i + 1]].req_id = r + (i + 1) - 1
      BY Zenon, <3>2 DEF InductiveInvariant, InflightWindow, r
    <3> QED BY <1>1, <3>1, <3>3
  <2>2. /\ next_recv_req_id' <= next_req_id' /\ Len(ring') = next_req_id' - next_recv_req_id'
        /\ in_qat_num' <= MaxInQat /\ Len(ring') <= in_qat_num'
        /\ pc' \in {"poll", "timeout", "freemem"} =>
              Len(ring') + callback_called_times' <= in_qat_num'
    BY SMTT(30), <1>1, <1>3, <1>4, Counters, SlotAssumption DEF n, r
  <2>3. /\ r + 1 <= Len(received) + Len(codec_results') + 1
        /\ Len(received) + Len(codec_results') + 1 <= next_req_id
    BY <1>1, <1>8, <1>13, <1>16 DEF done
  <2> QED BY Zenon, <1>3, <1>4, <2>1, <2>2, <2>3 DEF InflightWindow
<1>20. SlotOwnership'
  <2>1. ASSUME NEW u \in timers' PROVE u \in timers /\ Slot(u) # s /\ Slot(u) \in Slots
    BY Zenon, <1>1, <1>10, <1>14, SlotInRange DEF TypeOK
  <2>2. TimerMatchesSlot'
    BY <1>15, <2>1 DEF InductiveInvariant, SlotOwnership, TimerMatchesSlot
  <2>3. ASSUME NEW q \in Slots, meta'[q].valid
        PROVE  meta'[q].req_id \in timers' /\ Slot(meta'[q].req_id) = q
    <3>1. q # s /\ meta'[q] = meta[q]
      BY Zenon, <1>15, <2>3
    <3>2. meta[q].req_id \in timers /\ Slot(meta[q].req_id) = q
      BY Zenon, <2>3, <3>1 DEF InductiveInvariant, SlotOwnership
    <3> QED BY Zenon, <1>14, <3>1, <3>2 DEF s
  <2>4. ASSUME NEW q \in Slots, NEW i \in 1 .. n - 1, cb_pool[q] = ring'[i]
        PROVE  r + 1 + i - 1 \in timers' /\ Slot(r + 1 + i - 1) = q
    <3>1. cb_pool[q] = ring[i + 1] /\ i + 1 \in DOMAIN ring
      BY <1>1, <1>4, <2>4, Counters, SMTT(30) DEF n
    <3>2. r + (i + 1) - 1 \in timers /\ Slot(r + (i + 1) - 1) = q
      BY Zenon, <3>1 DEF InductiveInvariant, SlotOwnership, r
    <3>3. r + (i + 1) - 1 = r + 1 + i - 1 /\ r + 1 + i - 1 # r
      BY <1>1
    <3> QED BY Zenon, <1>14, <3>2, <3>3
  <2>5. ASSUME NEW i \in 1 .. n - 1, NEW j \in 1 .. n - 1, ring'[i] = ring'[j]
        PROVE  i = j
    <3>1. i + 1 \in DOMAIN ring /\ j + 1 \in DOMAIN ring /\ ring[i + 1] = ring[j + 1]
      BY SMTT(30), <1>1, <1>4, <2>5, Counters DEF n
    <3>2. i + 1 = j + 1
      BY Zenon, <3>1 DEF InductiveInvariant, SlotOwnership
    <3> QED BY <3>2
  <2>6. ASSUME NEW i \in 1 .. n - 1 PROVE ring'[i] \notin retired'
    <3>1. i + 1 \in DOMAIN ring /\ ring'[i] = ring[i + 1]
      BY <1>1, <1>4, Counters, SMTT(30) DEF n
    <3> QED BY Zenon, <1>3, <3>1 DEF InductiveInvariant, SlotOwnership
  <2>7. /\ \A q \in Slots : cb_pool'[q] \notin retired'
        /\ \A q, p \in Slots : cb_pool'[q] = cb_pool'[p] => q = p
    BY Zenon, <1>3 DEF InductiveInvariant, SlotOwnership
  <2> QED BY Zenon, <1>3, <1>4, <2>2, <2>3, <2>4, <2>5, <2>6, <2>7 DEF SlotOwnership
<1> QED BY Zenon, <1>7, <1>17, <1>18, <1>19, <1>20 DEF InductiveInvariant
\* A timer fires, or HA drops an inflight request: it is the oldest request that
\* has no result, and its slot gets a context no hardware knows.
LEMMA InterceptStep ==
    ASSUME InductiveInvariant, ~closed,
           NEW t \in timers, FirstTimer(t),
           NEW code \in Status,
           timers' = timers \ {t},
           InterceptInflightReq(t, code),
           free_mem_timers' \in Seq([slot : Slots, dst : Nat]),
           timed_out' \subseteq Nat,
           UNCHANGED <<pc, reqVars, flagVars, src_freed, dst_freed, hwVars, haVars,
                       pollVars, received>>
    PROVE  InductiveInvariant'
<1> USE DEF reqVars, flagVars, hwVars, haVars, pollVars
<1> DEFINE s == Slot(t)
           a == Len(cb_ctx) + 1
           len == Len(codec_results)
           done == Len(received) + len
           Ctx == [req_id : Nat, buf : Bufs \cup {NoBuf}]
<1>1. /\ TypeOK /\ t \in Nat /\ s \in Slots /\ len \in Nat /\ done \in Nat
      /\ Len(received) \in Nat /\ next_req_id \in Nat
  <2>1. TypeOK /\ t \in Nat
    BY Zenon DEF InductiveInvariant, TypeOK
  <2> QED BY <2>1, Counters, SlotInRange
<1>2. timers = done + 1 .. next_req_id - 1 /\ t = done + 1 /\ t < next_req_id
  <2>1. timers = done + 1 .. next_req_id - 1
    BY Zenon DEF InductiveInvariant, EachRequestOnceInOrder
  <2>2. t \in done + 1 .. next_req_id - 1 /\ \A u \in done + 1 .. next_req_id - 1 : t <= u
    BY Zenon, <2>1 DEF FirstTimer
  <2>3. done + 1 \in done + 1 .. next_req_id - 1
    BY <1>1, <2>2
  <2>4. t <= done + 1
    BY Zenon, <2>2, <2>3
  <2> QED BY SMTT(30), <1>1, <2>1, <2>2, <2>4
<1>3. meta[s] = [req_id |-> t, valid |-> TRUE]
  BY Zenon DEF InductiveInvariant, SlotOwnership, TimerMatchesSlot
<1>4. /\ meta' = [meta EXCEPT ![s].valid = FALSE]
      /\ codec_results' = Append(codec_results, Result(t, code, t))
      /\ cb_ctx' = Append(cb_ctx, EmptyCtx)
      /\ cb_pool' = [cb_pool EXCEPT ![s] = a]
      /\ bufs' = bufs
  BY <1>3 DEF InterceptInflightReq
<1>5. /\ meta' \in [Slots -> [req_id : Nat, valid : BOOLEAN]]
      /\ meta'[s].valid = FALSE
      /\ \A q \in Slots : q # s => meta'[q] = meta[q]
  BY Zenon, <1>1, <1>4 DEF TypeOK
<1>6. /\ cb_ctx \in Seq(Ctx) /\ EmptyCtx \in Ctx /\ Len(cb_ctx) \in Nat
  BY Zenon, <1>1, Counters DEF TypeOK, EmptyCtx
<1> HIDE DEF Ctx
<1>7. /\ cb_ctx' \in Seq(Ctx) /\ Len(cb_ctx') = a
      /\ \A d \in CtxAddrs : cb_ctx'[d] = cb_ctx[d]
      /\ cb_ctx'[a] = EmptyCtx
  BY <1>4, <1>6 DEF CtxAddrs
<1>8. a \notin CtxAddrs /\ CtxAddrs' = CtxAddrs \cup {a}
  BY <1>6, <1>7 DEF CtxAddrs
<1>9. /\ cb_pool' \in [Slots -> CtxAddrs'] /\ cb_pool'[s] = a
      /\ \A q \in Slots : q # s => cb_pool'[q] = cb_pool[q] /\ cb_pool[q] \in CtxAddrs
  BY Zenon, <1>1, <1>4, <1>8 DEF TypeOK
<1>10. /\ codec_results' \in Results /\ codec_results \in Results
       /\ Len(codec_results') = len + 1
       /\ \A i \in 1 .. len : codec_results'[i] = codec_results[i]
       /\ codec_results'[len + 1] = Result(t, code, t)
  <2>1. Result(t, code, t) \in [ctx : Nat, status : Status, of : Nat]
    BY Zenon, <1>1 DEF Result
  <2>2. codec_results \in Results
    BY Zenon, <1>1 DEF TypeOK
  <2> QED BY <1>1, <1>4, <2>1, <2>2 DEF Results
<1>11. \A i \in DOMAIN ring : ring[i] \in CtxAddrs /\ ring[i] # a
  BY <1>1, <1>8 DEF TypeOK
<1>12. retired \subseteq CtxAddrs /\ a \notin retired
  BY Zenon, <1>1, <1>8 DEF TypeOK
<1> HIDE DEF s, a, len, done
<1>13. TypeOK'
  <2>1. ring' \in Seq(CtxAddrs')
    BY <1>1, <1>8 DEF TypeOK
  <2>2. timers' \subseteq Nat /\ retired' \subseteq CtxAddrs'
    BY Zenon, <1>1, <1>8 DEF TypeOK
  <2>3. submitting' \in Nat /\ (submitting' # 0 => submitting' \in CtxAddrs')
    BY Zenon, <1>1, <1>8 DEF TypeOK
  <2>4. bufs' \subseteq Bufs /\ received' \in Results
    BY Zenon, <1>1, <1>4 DEF TypeOK
  <2> QED BY Zenon, <1>1, <1>5, <1>7, <1>9, <1>10, <2>1, <2>2, <2>3, <2>4 DEF TypeOK, Ctx
<1>14. EachRequestOnceInOrder' /\ ResultIsOwn'
  <2>1. DOMAIN codec_results' = 1 .. len + 1 /\ DOMAIN codec_results = 1 .. len
    BY Zenon, <1>1, <1>10, LenProperties DEF Results, len
  <2>2. timers' = Len(received') + Len(codec_results') + 1 .. next_req_id' - 1
    BY SMTT(30), <1>1, <1>2, <1>10 DEF done
  <2>3. ASSUME NEW i \in 1 .. len + 1
        PROVE  /\ codec_results'[i].ctx = Len(received) + i
               /\ codec_results'[i].of = codec_results'[i].ctx
    <3>1. CASE i \in 1 .. len
      BY Zenon, <1>10, <2>1, <3>1 DEF InductiveInvariant, EachRequestOnceInOrder, ResultIsOwn
    <3>2. CASE i = len + 1
      BY SMTT(30), <1>1, <1>2, <1>10, <3>2 DEF Result, done
    <3> QED BY SMTT(30), <1>1, <3>1, <3>2
  <2>4. \A i \in DOMAIN received' : received'[i].ctx = i
    BY Zenon DEF InductiveInvariant, EachRequestOnceInOrder
  <2> QED BY Zenon, <2>1, <2>2, <2>3, <2>4 DEF EachRequestOnceInOrder, ResultIsOwn
<1>15. InflightWindow'
  <2>1. \A i \in DOMAIN ring : cb_ctx'[ring[i]].req_id = next_recv_req_id + i - 1
    BY <1>7, <1>11, SMTT(30) DEF InductiveInvariant, InflightWindow
  <2>2. /\ next_recv_req_id <= Len(received) + Len(codec_results') + 1
        /\ Len(received) + Len(codec_results') + 1 <= next_req_id
    <3>1. next_recv_req_id <= done + 1 /\ next_recv_req_id \in Nat
      BY SMTT(30), Counters DEF InductiveInvariant, InflightWindow, done, len
    <3> QED BY SMTT(30), <1>1, <1>2, <1>10, <3>1 DEF done
  <2> QED BY Zenon, <2>1, <2>2 DEF InductiveInvariant, InflightWindow
<1>16. SlotOwnership'
  <2>1. ASSUME NEW u \in timers' PROVE u \in timers /\ Slot(u) # s /\ Slot(u) \in Slots
    <3>1. u \in timers /\ u # t /\ u \in Nat
      BY Zenon, <1>1 DEF TypeOK
    <3>2. /\ next_recv_req_id <= u /\ u < next_req_id
          /\ next_recv_req_id <= t /\ t < next_req_id
      BY Zenon, <3>1, TimersInWindow
    <3>3. next_req_id <= next_recv_req_id + SlotNum /\ next_recv_req_id \in Nat
      BY Counters, SlotAssumption, SMTT(30)
    <3>4. u < next_recv_req_id + SlotNum /\ t < next_recv_req_id + SlotNum
      BY <1>1, <3>1, <3>2, <3>3, SlotAssumption
    <3>5. Slot(u) # s
      BY Zenon, <1>1, <3>1, <3>2, <3>3, <3>4, SlotInjective DEF s
    <3> QED BY Zenon, <3>1, <3>5, SlotInRange
  <2>2. TimerMatchesSlot'
    BY <1>5, <2>1 DEF InductiveInvariant, SlotOwnership, TimerMatchesSlot
  <2>3. ASSUME NEW q \in Slots, meta'[q].valid
        PROVE  meta'[q].req_id \in timers' /\ Slot(meta'[q].req_id) = q
    <3>1. q # s /\ meta'[q] = meta[q]
      BY Zenon, <1>5, <2>3
    <3>2. meta[q].req_id \in timers /\ Slot(meta[q].req_id) = q
      BY Zenon, <2>3, <3>1 DEF InductiveInvariant, SlotOwnership
    <3> QED BY Zenon, <3>1, <3>2 DEF s
  <2>4. ASSUME NEW q \in Slots, NEW i \in DOMAIN ring, cb_pool'[q] = ring[i]
        PROVE  /\ next_recv_req_id + i - 1 \in timers'
               /\ Slot(next_recv_req_id + i - 1) = q
    <3>1. q # s /\ cb_pool[q] = ring[i]
      BY Zenon, <1>9, <1>11, <2>4
    <3>2. next_recv_req_id + i - 1 \in timers /\ Slot(next_recv_req_id + i - 1) = q
      BY Zenon, <3>1 DEF InductiveInvariant, SlotOwnership
    <3> QED BY Zenon, <3>1, <3>2 DEF s
  <2>5. \A q \in Slots : cb_pool'[q] \notin retired'
    BY Zenon, <1>9, <1>12 DEF InductiveInvariant, SlotOwnership
  <2>6. \A q, p \in Slots : cb_pool'[q] = cb_pool'[p] => q = p
    BY <1>8, <1>9 DEF InductiveInvariant, SlotOwnership
  <2> QED BY Zenon, <2>2, <2>3, <2>4, <2>5, <2>6 DEF InductiveInvariant, SlotOwnership
<1>17. BufferOwnership'
  <2>1. HwContexts' = HwContexts /\ HwContexts \subseteq CtxAddrs
    BY Zenon, <1>11, <1>12 DEF HwContexts, Range
  <2>2. submitting' = submitting /\ a # submitting
    BY SMTT(30), <1>1, <1>6, <1>8 DEF TypeOK, a
  <2>3. cb_ctx'[a].buf = NoBuf
    BY SMTT(30), <1>7 DEF EmptyCtx
  <2>4. \A d \in CtxAddrs' : /\ cb_ctx'[d].buf # NoBuf <=> d \in HwContexts \/ d = submitting
                             /\ cb_ctx'[d].buf \notin bufs
    BY Zenon, <1>1, <1>7, <1>8, <2>1, <2>2, <2>3, BufAssumption
       DEF InductiveInvariant, BufferOwnership, TypeOK
  <2>5. ASSUME NEW d \in CtxAddrs', NEW e \in CtxAddrs', cb_ctx'[d].buf = cb_ctx'[e].buf
        PROVE  d = e \/ cb_ctx'[d].buf = NoBuf
    <3>1. CASE d = a \/ e = a
      BY Zenon, <2>3, <2>5, <3>1
    <3>2. CASE d \in CtxAddrs /\ e \in CtxAddrs
      <4>1. cb_ctx[d].buf = cb_ctx[e].buf => d = e \/ cb_ctx[d].buf = NoBuf
        BY Zenon, <3>2 DEF InductiveInvariant, BufferOwnership
      <4> QED BY Zenon, <1>7, <2>5, <3>2, <4>1
    <3> QED BY Zenon, <1>8, <3>1, <3>2
  <2>6. NoBufferLost'
    BY ZenonT(40), <1>4, <1>7, <1>8 DEF InductiveInvariant, BufferOwnership, NoBufferLost
  <2> QED BY Zenon, <1>4, <2>1, <2>2, <2>4, <2>5, <2>6 DEF InductiveInvariant, BufferOwnership
<1> QED BY Zenon, <1>13, <1>14, <1>15, <1>16, <1>17 DEF InductiveInvariant
\* timer_manager_->HandleTimeout and ClearRetiredQat.
LEMMA InterceptSteps ==
    ASSUME InductiveInvariant, RequestTimeout \/ DropInflightReq
    PROVE  InductiveInvariant'
<1>1. ~closed /\ TypeOK
  BY Zenon, Counters DEF InductiveInvariant, RequestTimeout, DropInflightReq
<1>2. "Timeout" \in Status /\ "Dropped" \in Status
  BY Zenon DEF Status
<1>3. CASE RequestTimeout
  <2>1. PICK t \in timers :
          /\ FirstTimer(t)
          /\ timers' = timers \ {t}
          /\ InterceptInflightReq(t, "Timeout")
          /\ free_mem_timers' = Append(free_mem_timers,
                                       [slot |-> Slot(t), dst |-> meta[Slot(t)].req_id])
          /\ timed_out' = timed_out \cup {meta[Slot(t)].req_id}
    BY <1>3 DEF RequestTimeout
  <2>2. Slot(t) \in Slots /\ meta[Slot(t)].req_id \in Nat
    <3>1. t \in Nat /\ meta \in [Slots -> [req_id : Nat, valid : BOOLEAN]]
      BY Zenon, <1>1 DEF TypeOK
    <3> QED BY Zenon, <3>1, SlotInRange
  <2>3. /\ free_mem_timers' \in Seq([slot : Slots, dst : Nat])
        /\ timed_out' \subseteq Nat
    <3>1. /\ free_mem_timers \in Seq([slot : Slots, dst : Nat]) /\ timed_out \subseteq Nat
          /\ [slot |-> Slot(t), dst |-> meta[Slot(t)].req_id] \in [slot : Slots, dst : Nat]
      BY Zenon, <1>1, <2>2 DEF TypeOK
    <3> QED BY Zenon, <2>1, <2>2, <3>1, AppendProperties
  <2> QED BY Zenon, <1>1, <1>2, <1>3, <2>1, <2>3, InterceptStep DEF RequestTimeout
<1>4. CASE DropInflightReq
  <2>1. PICK t \in timers : /\ FirstTimer(t)
                            /\ timers' = timers \ {t}
                            /\ InterceptInflightReq(t, "Dropped")
    BY Zenon, <1>4 DEF DropInflightReq
  <2>2. /\ free_mem_timers' \in Seq([slot : Slots, dst : Nat])
        /\ timed_out' \subseteq Nat
    BY Zenon, <1>1, <1>4 DEF DropInflightReq, memVars, TypeOK
  <2>3. UNCHANGED <<pc, reqVars, flagVars, src_freed, dst_freed, hwVars, haVars, pollVars,
                    received>>
    BY Zenon, <1>4 DEF DropInflightReq, memVars
  <2> QED BY Zenon, <1>1, <1>2, <2>1, <2>2, <2>3, InterceptStep
<1> QED BY Zenon, <1>3, <1>4

(***************************************************************************)
(* The end of HandleHa, every step, and the theorems.                       *)
(***************************************************************************)
\* The end of HandleHa: every inflight request has been dropped, so no slot holds a
\* context of the retired instance.
LEMMA ReinitStep ==
    ASSUME InductiveInvariant, Reinit
    PROVE  InductiveInvariant'
<1> USE DEF memVars
<1> DEFINE done == Len(received) + Len(codec_results)
<1>1. /\ pc = "drop" /\ timers = {} /\ ~closed /\ TypeOK
      /\ pc' = "idle" /\ next_recv_req_id' = next_req_id
      /\ callback_called_times' = 0 /\ in_qat_num' = 0
      /\ retired' = retired \cup Range(ring) /\ ring' = <<>>
      /\ submitting' = 0 /\ unseen' = <<>>
      /\ UNCHANGED <<next_req_id, closed, meta, cb_pool, timers, free_mem_timers, timed_out,
                     src_freed, dst_freed, codec_results, error_num, poll_r, received>>
  BY Zenon, Counters DEF Reinit, InductiveInvariant
<1>2. spare' \in Nat /\ is_fatal' \in BOOLEAN
  <2>1. spare \in Nat /\ is_fatal \in BOOLEAN
    BY Zenon, <1>1 DEF TypeOK
  <2>2. CASE \E n \in 0 .. spare - 1 : spare' = n /\ UNCHANGED is_fatal
    BY <2>1, <2>2
  <2>3. CASE spare' = 0 /\ is_fatal' = TRUE
    BY Zenon, <2>3
  <2> QED BY Zenon, <2>2, <2>3 DEF Reinit
<1>3. HwContexts' = HwContexts /\ Range(ring) \subseteq CtxAddrs
  BY <1>1 DEF HwContexts, Range, TypeOK
<1>4. \A d \in CtxAddrs : d # 0
  BY DEF CtxAddrs
<1>5. /\ BufferOwnership'
      /\ cb_ctx' \in Seq([req_id : Nat, buf : Bufs \cup {NoBuf}])
      /\ CtxAddrs' = CtxAddrs
      /\ bufs' \subseteq Bufs
  <2>1. CASE submitting = 0
    <3>1. UNCHANGED <<cb_ctx, bufs, submitting>> /\ CtxAddrs' = CtxAddrs
      BY Zenon, <1>1, <2>1 DEF Reinit, CtxAddrs
    <3>2. BufferOwnership'
      BY Zenon, <1>1, <1>3, <3>1 DEF InductiveInvariant, BufferOwnership, NoBufferLost
    <3> QED BY Zenon, <1>1, <3>1, <3>2 DEF TypeOK
  <2>2. CASE submitting # 0
    <3>1. ResetCtx(submitting) /\ submitting \in CtxAddrs /\ submitting \notin HwContexts
      BY Zenon, <1>1, <2>2 DEF Reinit, InductiveInvariant, BufferOwnership, TypeOK
    <3> QED BY Zenon, <1>1, <1>3, <1>4, <3>1, OwnersLose
  <2> QED BY Zenon, <2>1, <2>2
<1>6. TypeOK'
  <2>1. /\ ring' \in Seq(CtxAddrs') /\ unseen' \in Seq(Status)
        /\ retired' \subseteq CtxAddrs' /\ cb_pool' \in [Slots -> CtxAddrs']
    BY SMTT(30), <1>1, <1>3, <1>5 DEF TypeOK
  <2> QED BY Zenon, <1>1, <1>2, <1>5, <2>1 DEF TypeOK
<1>7. EachRequestOnceInOrder' /\ ResultIsOwn'
  BY Zenon, <1>1 DEF InductiveInvariant, EachRequestOnceInOrder, ResultIsOwn
<1>8. InflightWindow'
  <2>1. done + 1 = next_req_id /\ next_req_id \in Nat \ {0}
    <3>1. {} = done + 1 .. next_req_id - 1 /\ done + 1 <= next_req_id
      BY Zenon, <1>1 DEF InductiveInvariant, EachRequestOnceInOrder, InflightWindow
    <3>2. done \in Nat /\ next_req_id \in Nat \ {0}
      BY Counters
    <3>3. done + 1 \notin done + 1 .. next_req_id - 1
      BY Zenon, <3>1
    <3> HIDE DEF done
    <3> QED BY SMTT(30), <3>1, <3>2, <3>3
  <2> QED BY <1>1, <2>1, SlotAssumption DEF InflightWindow
<1>9. SlotOwnership'
  <2>1. \A q \in Slots : cb_pool[q] \notin retired'
    <3> SUFFICES ASSUME NEW q \in Slots PROVE cb_pool[q] \notin retired'
      BY Zenon
    <3>1. /\ cb_pool[q] \notin retired
          /\ \A i \in DOMAIN ring : cb_pool[q] # ring[i]
      BY Zenon, <1>1 DEF InductiveInvariant, SlotOwnership
    <3> QED BY Zenon, <1>1, <3>1 DEF Range
  <2>2. TimerMatchesSlot' /\ DOMAIN ring' = {}
    BY SMTT(30), <1>1 DEF TimerMatchesSlot
  <2>3. ASSUME NEW q \in Slots
        PROVE  /\ meta'[q].valid => meta'[q].req_id \in timers' /\ Slot(meta'[q].req_id) = q
               /\ \A p \in Slots : cb_pool'[q] = cb_pool'[p] => q = p
    BY Zenon, <1>1 DEF InductiveInvariant, SlotOwnership
  <2> QED BY SMTT(30), <1>1, <2>1, <2>2, <2>3 DEF SlotOwnership
<1> QED BY Zenon, <1>5, <1>6, <1>7, <1>8, <1>9 DEF InductiveInvariant

\* Close can only succeed when the instance has returned every request.
LEMMA CloseSucceedsStep ==
    ASSUME InductiveInvariant, CloseSucceeds
    PROVE  InductiveInvariant'
<1> USE DEF reqVars, haVars, pollVars
<1> DEFINE done == Len(received) + Len(codec_results)
           Ctx == [req_id : Nat, buf : Bufs \cup {NoBuf}]
<1>1. /\ pc = "close" /\ ~closed /\ submitting = 0 /\ TypeOK /\ ring = <<>>
      /\ pc' = "idle" /\ closed' = TRUE
      /\ timers' = {} /\ free_mem_timers' = <<>> /\ codec_results' = <<>>
      /\ cb_ctx' = [i \in DOMAIN cb_ctx |-> EmptyCtx] /\ bufs' = Bufs
      /\ UNCHANGED <<retired, next_req_id, next_recv_req_id, in_qat_num, callback_called_times,
                     is_fatal, meta, cb_pool, timed_out, src_freed, dst_freed, ring,
                     error_num, spare, poll_r, unseen, submitting, received>>
  BY Zenon, Counters DEF CloseSucceeds, InductiveInvariant, hwVars
<1>2. timers = {}
  <2>1. /\ timers = done + 1 .. next_req_id - 1 /\ next_recv_req_id <= done + 1
    BY Zenon, <1>1 DEF InductiveInvariant, EachRequestOnceInOrder, InflightWindow
  <2>2. next_recv_req_id = next_req_id
    BY <1>1, Counters
  <2> QED BY SMTT(30), <2>1, <2>2, Counters
<1>3. EmptyCtx \in Ctx /\ DOMAIN cb_ctx = 1 .. Len(cb_ctx) /\ Len(cb_ctx) \in Nat
  BY Zenon, Counters DEF EmptyCtx
<1> HIDE DEF Ctx
<1>4. /\ cb_ctx' \in Seq(Ctx) /\ CtxAddrs' = CtxAddrs
      /\ \A d \in CtxAddrs : cb_ctx'[d] = EmptyCtx
  BY <1>1, <1>3 DEF CtxAddrs
<1>5. TypeOK'
  <2>1. /\ free_mem_timers' \in Seq([slot : Slots, dst : Nat]) /\ codec_results' \in Results
        /\ timers' \subseteq Nat
    BY <1>1 DEF Results
  <2>2. ring' \in Seq(CtxAddrs') /\ cb_pool' \in [Slots -> CtxAddrs'] /\ retired' \subseteq CtxAddrs'
    BY Zenon, <1>1, <1>4 DEF TypeOK
  <2> QED BY Zenon, <1>1, <1>4, <2>1, <2>2 DEF TypeOK, Ctx
<1>6. EachRequestOnceInOrder' /\ ResultIsOwn'
  <2>1. /\ DOMAIN codec_results' = {} /\ closed'
        /\ \A i \in DOMAIN received : received'[i].ctx = i
    BY SMTT(30), <1>1 DEF InductiveInvariant, EachRequestOnceInOrder
  <2> QED BY SMTT(30), <1>1, <2>1 DEF EachRequestOnceInOrder, ResultIsOwn
<1>7. InflightWindow'
  BY SMTT(30), <1>1 DEF InductiveInvariant, InflightWindow
<1>8. SlotOwnership'
  BY Zenon, <1>1, <1>2 DEF InductiveInvariant, SlotOwnership, TimerMatchesSlot
<1>9. BufferOwnership'
  BY <1>1, <1>4, BufAssumption DEF BufferOwnership, NoBufferLost, EmptyCtx
<1> QED BY <1>5, <1>6, <1>7, <1>8, <1>9 DEF InductiveInvariant

\* Every step of the engine preserves the invariant.
LEMMA NextPreserves == InductiveInvariant /\ [Next]_vars => InductiveInvariant'
<1> SUFFICES ASSUME InductiveInvariant, [Next]_vars PROVE InductiveInvariant'
  BY Zenon
<1>1. CASE Next
  BY Zenon, <1>1, SlotAssumption, SubmitOkStep, PrepareFailsStep, SubmitFailsStep, CallbackStep,
     ControlSteps, PollFatalStep, InterceptSteps, PollPopsStep, ScanPoppedStep, ReinitStep,
     CloseSucceedsStep DEF Next
<1>2. CASE UNCHANGED vars
  <2> USE <1>2 DEF vars, reqVars, flagVars, poolVars, memVars, hwVars, haVars, pollVars
  <2>1. TypeOK'
    BY Zenon DEF InductiveInvariant, TypeOK, CtxAddrs
  <2>2. EachRequestOnceInOrder' /\ ResultIsOwn'
    BY Zenon DEF InductiveInvariant, EachRequestOnceInOrder, ResultIsOwn
  <2>3. InflightWindow'
    BY SMTT(30) DEF InductiveInvariant, InflightWindow
  <2>4. SlotOwnership'
    BY Zenon DEF InductiveInvariant, SlotOwnership, TimerMatchesSlot
  <2>5. BufferOwnership'
    <3>1. CtxAddrs' = CtxAddrs /\ HwContexts' = HwContexts
      BY DEF CtxAddrs, HwContexts, Range
    <3>2. /\ BufferOwnership
          /\ UNCHANGED <<cb_ctx, bufs, submitting, pc>>
      BY Zenon DEF InductiveInvariant
    <3> QED BY <3>1, <3>2 DEF BufferOwnership, NoBufferLost
  <2> QED BY Zenon, <2>1, <2>2, <2>3, <2>4, <2>5 DEF InductiveInvariant
<1> QED BY Zenon, <1>1, <1>2

\* The bookkeeping of QatCodecEngine (ids, slots, contexts, timers, buffers) is
\* consistent in every reachable state, for every ring size, pool size and number of
\* requests.
THEOREM Bookkeeping == Spec => []InductiveInvariant
<1>1. Init => InductiveInvariant
  BY InitEstablishes
<1>2. InductiveInvariant /\ [Next]_vars => InductiveInvariant'
  BY Zenon, NextPreserves
<1> QED BY <1>1, <1>2, PTL DEF Spec

\* Every field of QatCodecEngine keeps its type.
THEOREM TypeCorrect == Spec => []TypeOK
<1>1. InductiveInvariant => TypeOK
  BY DEF InductiveInvariant
<1> QED BY <1>1, Bookkeeping, PTL

\* Poll hands out every accepted request once, in the order of submission.
THEOREM OnceInOrder == Spec => []EachRequestOnceInOrder
<1>1. InductiveInvariant => EachRequestOnceInOrder
  BY DEF InductiveInvariant
<1> QED BY <1>1, Bookkeeping, PTL

\* No result carries the output of another request, however late callbacks are.
THEOREM OwnResult == Spec => []ResultIsOwn
<1>1. InductiveInvariant => ResultIsOwn
  BY DEF InductiveInvariant
<1> QED BY <1>1, Bookkeeping, PTL

\* Buffers a device may still access are never reused.
THEOREM BuffersUntouched == Spec => []HardwareBuffersUntouched
<1>1. InductiveInvariant => HardwareBuffersUntouched
  <2> SUFFICES ASSUME InductiveInvariant, ~closed, NEW c \in HwContexts
               PROVE  /\ cb_ctx[c].buf \in Bufs \ bufs
                      /\ \A d \in CtxAddrs \ {c} : cb_ctx[d].buf # cb_ctx[c].buf
    <3>1. InductiveInvariant /\ closed => Range(ring) = {}
      BY DEF InductiveInvariant, InflightWindow, Range
    <3> QED BY Zenon, <3>1 DEF HardwareBuffersUntouched
  <2>1. c \in CtxAddrs
    <3>1. ring \in Seq(CtxAddrs) /\ retired \subseteq CtxAddrs
      BY Zenon DEF InductiveInvariant, TypeOK
    <3> QED BY <3>1 DEF HwContexts, Range
  <2>2. cb_ctx[c].buf # NoBuf /\ cb_ctx[c].buf \notin bufs
    BY Zenon, <2>1 DEF InductiveInvariant, BufferOwnership
  <2>3. cb_ctx[c].buf \in Bufs
    <3>1. /\ cb_ctx \in Seq([req_id : Nat, buf : Bufs \cup {NoBuf}])
          /\ c \in 1 .. Len(cb_ctx)
      BY Zenon, <2>1 DEF InductiveInvariant, TypeOK, CtxAddrs
    <3>2. cb_ctx[c] \in [req_id : Nat, buf : Bufs \cup {NoBuf}]
      BY Zenon, <3>1, ElementOfSeq
    <3> QED BY Zenon, <2>2, <3>2
  <2>4. \A d \in CtxAddrs \ {c} : cb_ctx[d].buf # cb_ctx[c].buf
    BY Zenon, <2>1, <2>2 DEF InductiveInvariant, BufferOwnership
  <2> QED BY Zenon, <2>2, <2>3, <2>4
<1> QED BY <1>1, Bookkeeping, PTL

\* The instance never holds more than max_in_qat_size_ requests, and the uint64_t
\* subtraction of Poll does not wrap.
THEOREM WithinLimits == Spec => []InQatWithinLimits
<1>1. InductiveInvariant => InQatWithinLimits
  <2> SUFFICES ASSUME InductiveInvariant PROVE InQatWithinLimits
    OBVIOUS
  <2> QED BY Counters, SlotAssumption DEF InQatWithinLimits
<1> QED BY <1>1, Bookkeeping, PTL
(***************************************************************************)
(* Refinement                                                               *)
(***************************************************************************)
\* Only a submission that is accepted and the ends of Poll are visible to the user.
LEMMA VisibleSteps ==
    ASSUME InductiveInvariant, Next
    PROVE  \/ UNCHANGED <<next_req_id, received>>
           \/ next_req_id' = next_req_id + 1 /\ UNCHANGED received
           \/ /\ next_req_id' = next_req_id
              /\ Len(received) <= Len(received')
              /\ ~closed /\ ~closed'
<1> USE DEF reqVars
<1>1. CASE SubmitOk
  BY Zenon, <1>1 DEF SubmitOk
<1>2. ASSUME NEW n \in 1 .. MaxInQat, PollFatal(n) \/ PollPops(n)
      PROVE  /\ next_req_id' = next_req_id
             /\ Len(received) <= Len(received')
             /\ ~closed /\ ~closed'
  <2>1. /\ received' = received \o Pop(n).popped
        /\ next_req_id' = next_req_id /\ closed' = closed /\ ~closed
    BY Zenon, <1>2, Counters DEF PollFatal, PollPops, flagVars
  <2>2. n \in Nat /\ codec_results \in Results /\ received \in Results
    BY SlotAssumption DEF InductiveInvariant, TypeOK
  <2>3. Pop(n).popped \in Results /\ Len(Pop(n).popped) \in Nat
    BY Zenon, <2>2, PopSplits
  <2>4. Len(received') = Len(received) + Len(Pop(n).popped)
    BY Zenon, <2>1, <2>2, <2>3, ConcatProperties DEF Results
  <2> QED BY SMTT(30), <2>1, <2>3, <2>4, Counters
<1>3. ASSUME \/ PrepareFails
             \/ \E e \in SubmitErrors : SubmitFails(e)
             \/ \E st \in CallbackStatus : Callback(st)
             \/ PollStart
             \/ \E r \in PollStatus : PollInstanceReturns(r)
             \/ RequestTimeout \/ TimeoutsHandled \/ FreeMemTimeout
             \/ ScanPopped \/ DropInflightReq \/ Reinit
             \/ CloseStart \/ CloseSucceeds \/ CloseFails
      PROVE  UNCHANGED <<next_req_id, received>>
  BY Zenon, <1>3 DEF PrepareFails, SubmitFails, Callback, PollStart, PollInstanceReturns,
              RequestTimeout, TimeoutsHandled, FreeMemTimeout, ScanPopped, DropInflightReq,
              Reinit, CloseStart, CloseSucceeds, CloseFails
<1> QED BY Zenon, <1>1, <1>2, <1>3 DEF Next

\* What the user got so far is the sequence 1, 2, ... of request ids.
LEMMA DeliveredIsPrefix ==
    ASSUME TypeOK, EachRequestOnceInOrder
    PROVE  /\ [i \in DOMAIN received |-> received[i].ctx] = [i \in 1 .. Len(received) |-> i]
           /\ Len([i \in DOMAIN received |-> received[i].ctx]) = Len(received)
           /\ Len(received) \in Nat
<1>1. DOMAIN received = 1 .. Len(received) /\ Len(received) \in Nat
  BY Zenon, LenProperties DEF TypeOK, Results
<1>2. [i \in DOMAIN received |-> received[i].ctx] = [i \in 1 .. Len(received) |-> i]
  BY Zenon, <1>1 DEF EachRequestOnceInOrder
<1>3. Len([i \in 1 .. Len(received) |-> i]) = Len(received)
  BY <1>1
<1> QED BY Zenon, <1>1, <1>2, <1>3

\* The engine implements the abstract channel: it delivers what it accepted, once
\* and in the order of acceptance.
THEOREM ImplementsChannel == Spec => ChannelSpec
<1> DEFINE Del == [i \in DOMAIN received |-> received[i].ctx]
<1>1. Init => Channel!Init
  <2> SUFFICES ASSUME Init PROVE next_req_id - 1 = 0 /\ Del = <<>>
    BY Zenon DEF Channel!Init
  <2> QED BY DEF Init
<1>2. InductiveInvariant /\ InductiveInvariant' /\ [Next]_vars => [Channel!Next]_(Channel!vars)
  <2> SUFFICES ASSUME InductiveInvariant, InductiveInvariant', [Next]_vars
               PROVE  [Channel!Next]_(Channel!vars)
    BY Zenon
  <2>1. /\ Del = [i \in 1 .. Len(received) |-> i]
        /\ Len(Del) = Len(received) /\ Len(received) \in Nat
    BY Zenon, DeliveredIsPrefix DEF InductiveInvariant
  <2>2. /\ Del' = [i \in 1 .. Len(received') |-> i] /\ Len(received') \in Nat
    <3>1. TypeOK' /\ EachRequestOnceInOrder'
      BY Zenon DEF InductiveInvariant
    <3>2. DOMAIN received' = 1 .. Len(received') /\ Len(received') \in Nat
      BY Zenon, <3>1, LenProperties DEF TypeOK, Results
    <3> QED BY Zenon, <3>1, <3>2 DEF EachRequestOnceInOrder
  <2>3. next_req_id \in Nat
    BY Zenon, Counters
  <2>4. CASE UNCHANGED <<next_req_id, received>>
    BY Zenon, <2>4 DEF Channel!vars
  <2>5. CASE next_req_id' = next_req_id + 1 /\ UNCHANGED received
    <3>1. next_req_id' - 1 = (next_req_id - 1) + 1 /\ Del' = Del
      BY <2>3, <2>5
    <3> QED BY Zenon, <3>1 DEF Channel!Next, Channel!Submit
  <2>6. CASE /\ next_req_id' = next_req_id
             /\ Len(received) <= Len(received')
             /\ ~closed /\ ~closed'
    <3>1. CASE Len(received') = Len(received)
      <4>1. Del' = Del
        BY Zenon, <2>1, <2>2, <3>1
      <4> QED BY Zenon, <2>6, <4>1 DEF Channel!vars
    <3>2. CASE Len(received') # Len(received)
      <4> DEFINE n == Len(received')
      <4>1. n \in Len(received) + 1 .. next_req_id - 1
        <5>1. n + Len(codec_results') + 1 <= next_req_id'
          BY Zenon, <2>6 DEF InductiveInvariant, InflightWindow
        <5>2. Len(codec_results') \in Nat
          BY SMTT(30) DEF InductiveInvariant, TypeOK, Results
        <5>3. /\ n \in Nat /\ Len(received) \in Nat /\ next_req_id' = next_req_id
              /\ Len(received) <= n /\ n # Len(received)
          BY Zenon, <2>1, <2>2, <2>6, <3>2
        <5> HIDE DEF n
        <5>4. n <= next_req_id - 1
          BY <2>3, <5>1, <5>2, <5>3
        <5> QED BY SMTT(30), <2>3, <5>3, <5>4
      <4>2. Del' = [i \in 1 .. n |-> IF i <= Len(Del) THEN Del[i] ELSE i]
        BY <2>1, <2>2
      <4>3. n \in Len(Del) + 1 .. next_req_id - 1 /\ next_req_id' - 1 = next_req_id - 1
        BY Zenon, <2>1, <2>6, <4>1
      <4>4. Channel!Poll
        BY Zenon, <4>2, <4>3 DEF Channel!Poll
      <4> QED BY Zenon, <4>4 DEF Channel!Next
    <3> QED BY Zenon, <3>1, <3>2
  <2>7. CASE Next
    BY Zenon, <2>4, <2>5, <2>6, <2>7, VisibleSteps
  <2>8. CASE UNCHANGED vars
    BY Zenon, <2>4, <2>8 DEF vars, reqVars
  <2> QED BY Zenon, <2>7, <2>8
<1> QED BY <1>1, <1>2, Bookkeeping, PTL DEF Spec, ChannelSpec, Channel!Spec
=============================================================================
