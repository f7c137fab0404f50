----------------------------- MODULE MCChannels -----------------------------
(***************************************************************************)
(* The KAE codec channel, the QAT cypher channel and the listener for       *)
(* simulated errors side by side.  A behaviour is one of the three; part    *)
(* says which, and the variables of the others rest.                        *)
(*                                                                          *)
(* First what is proved of the KAE channel alone: the ring of results, for  *)
(* any number of contexts and requests.  The theorems about the channels    *)
(* side by side, at the end, rest on it and on CypherChannelProofs.         *)
(***************************************************************************)
EXTENDS KaeChannel, FiniteSetTheorems, SequenceTheorems, TLAPS

(***************************************************************************)
(* Places                                                                   *)
(***************************************************************************)
\* Euclidean division by the size of the ring.
LEMMA DivModN ==
    ASSUME NEW a \in Nat
    PROVE  a \div N \in Int /\ a % N \in Slots /\ a = N * (a \div N) + (a % N)
<1> USE SizeAssumption DEF Slots
<1>1. a \div N \in Int
  BY SMT
<1>2. a % N \in 0 .. N - 1
  BY SMT
<1>3. a = N * (a \div N) + (a % N)
  BY SMT
<1> QED BY <1>1, <1>2, <1>3

\* Two requests less than a round apart have different places.
LEMMA PlacesDistinct ==
    ASSUME NEW a \in Nat, NEW b \in Nat, a < b, b - a < N
    PROVE  a % N # b % N
<1> DEFINE n == N
<1>1. n \in Nat /\ n > 0 /\ b - a < n
  BY SizeAssumption
<1> DEFINE qa == a \div n  qb == b \div n  r == a % n
<1>2. SUFFICES ASSUME a % n = b % n PROVE FALSE
  OBVIOUS
<1>3. qa \in Int /\ r \in Int /\ a = n * qa + r
  BY DivModN DEF Slots
<1>4. qb \in Int /\ b = n * qb + r
  BY <1>2, DivModN
<1> HIDE DEF qa, qb, r, n
<1>5. b - a = n * (qb - qa)
  BY <1>1, <1>3, <1>4, SMT
<1>6. qb - qa \in Int /\ (qb - qa < 1 \/ qb - qa >= 1)
  BY <1>3, <1>4
<1>7. ASSUME NEW k \in Int, k >= 1 PROVE n * k >= n
  BY <1>1, <1>7, SMT
<1>8. ASSUME NEW k \in Int, k < 1 PROVE n * k <= 0
  BY <1>1, <1>8, SMT
<1> QED BY <1>1, <1>5, <1>6, <1>7, <1>8, SMT

\* Within a round the place determines the request.
LEMMA PlaceInjective ==
    ASSUME NEW lo \in Nat, NEW a \in Nat, NEW b \in Nat,
           lo <= a, a < lo + N, lo <= b, b < lo + N, a % N = b % N
    PROVE  a = b
<1>1. CASE a < b
  <2>1. b - a < N
    BY <1>1, SizeAssumption
  <2> QED BY <1>1, <2>1, PlacesDistinct, Zenon
<1>2. CASE b < a
  <2>1. a - b < N
    BY <1>2, SizeAssumption
  <2> QED BY <1>2, <2>1, PlacesDistinct, Zenon
<1> QED BY <1>1, <1>2

(***************************************************************************)
(* Counting                                                                 *)
(***************************************************************************)
\* What holds whatever became of the ring, and what holds until it is overrun.
Loose == TypeOK /\ DeviceCounted
InStep == Loose /\ RingExact /\ ContextsIntact /\ AnsweredInOrder

\* The numbers of the requests in the device.
Numbers(d) == {h.req : h \in d}

\* There are as many requests in the device as numbers: a number has one place.
LEMMA NumbersCount ==
    ASSUME InStep
    PROVE  /\ Numbers(hw) \subseteq head_id .. tail_id - 1
           /\ IsFiniteSet(Numbers(hw)) /\ Cardinality(Numbers(hw)) = Cardinality(hw)
           /\ Numbers(hw) = {n \in head_id .. tail_id - 1 : [slot |-> n % N, req |-> n] \in hw}
<1> USE DEF InStep, Loose, DeviceCounted, TypeOK, RingExact
<1>1. Numbers(hw) \subseteq head_id .. tail_id - 1
  BY DEF Numbers
<1>2. ASSUME NEW h \in hw PROVE h = [slot |-> h.req % N, req |-> h.req]
  OBVIOUS
<1>3. Numbers(hw) = {n \in head_id .. tail_id - 1 : [slot |-> n % N, req |-> n] \in hw}
  BY <1>2 DEF Numbers
<1> DEFINE f == [h \in hw |-> h.req]
<1>4. f \in Bijection(hw, Numbers(hw))
  <2>1. f \in [hw -> Numbers(hw)]
    BY DEF Numbers
  <2>2. \A g, h \in hw : f[g] = f[h] => g = h
    BY <1>2
  <2>3. \A n \in Numbers(hw) : \E h \in hw : f[h] = n
    BY DEF Numbers
  <2> HIDE DEF f
  <2> QED BY <2>1, <2>2, <2>3 DEF Bijection, Injection, Surjection, IsInjective
<1>5. ExistsBijection(hw, Numbers(hw))
  BY <1>4 DEF ExistsBijection
<1> QED BY <1>1, <1>3, <1>5, FS_Bijection

\* CountsExact follows: the ring spans the requests in the device and the others.
LEMMA CountsFollow == InStep => CountsExact
<1> SUFFICES ASSUME InStep PROVE CountsExact
  OBVIOUS
<1> DEFINE W == head_id .. tail_id - 1
           A == {n \in W : ring[n % N].id = n}
<1>1. head_id \in Int /\ tail_id \in Int /\ head_id <= tail_id
  BY SizeAssumption DEF InStep, Loose, DeviceCounted, TypeOK
<1>2. IsFiniteSet(W) /\ Cardinality(W) = tail_id - head_id
  <2>1. tail_id - 1 \in Int
    BY <1>1
  <2>2. IsFiniteSet(W) /\ Cardinality(W) = IF head_id > tail_id - 1 THEN 0 ELSE (tail_id - 1) - head_id + 1
    BY <1>1, <2>1, FS_Interval, Zenon
  <2> QED BY <1>1, <2>2
<1>3. A = W \ Numbers(hw)
  <2>1. ASSUME NEW n \in W
        PROVE  ring[n % N].id = n <=> [slot |-> n % N, req |-> n] \notin hw
    <3>1. n \in Nat /\ n % N \in Slots
      BY <1>1, DivModN DEF InStep, Loose, DeviceCounted, TypeOK
    <3>2. ring[n % N].id \in Int
      BY <3>1 DEF InStep, Loose, DeviceCounted, TypeOK, NoReq
    <3>3. IF [slot |-> n % N, req |-> n] \in hw THEN ring[n % N].id < n
          ELSE ring[n % N] = [result |-> Own(n), id |-> n]
      BY DEF InStep, RingExact
    <3>4. CASE [slot |-> n % N, req |-> n] \in hw
      BY <3>1, <3>2, <3>3, <3>4
    <3>5. CASE [slot |-> n % N, req |-> n] \notin hw
      BY <3>3, <3>5
    <3> QED BY <3>4, <3>5
  <2> QED BY <2>1, NumbersCount, ZenonT(40)
<1>4. W \cap Numbers(hw) = Numbers(hw)
  BY NumbersCount
<1>5. Cardinality(A) = Cardinality(W) - Cardinality(hw)
  <2>1. Cardinality(W \ Numbers(hw)) = Cardinality(W) - Cardinality(W \cap Numbers(hw))
    BY <1>2, FS_Difference, Zenon
  <2> QED BY <1>3, <1>4, <2>1, NumbersCount, Zenon
<1>6. Cardinality(hw) \in Nat
  BY FS_CardinalityType DEF InStep, Loose, DeviceCounted, RingExact
<1>8. tail_id - head_id = Cardinality(hw) + Cardinality(A)
  <2> HIDE DEF A, W
  <2> QED BY <1>1, <1>2, <1>5, <1>6
<1> QED BY <1>8, Zenon DEF CountsExact

(***************************************************************************)
(* The steps                                                                *)
(***************************************************************************)
LEMMA InitEstablishes == Init => InStep
<1> SUFFICES ASSUME Init PROVE InStep
  OBVIOUS
<1> USE SizeAssumption DEF Init
<1>1. TypeOK
  <2>1. /\ pool \in [Slots -> [usr_ctx : Nat \cup {NoReq}, req_ring_id : Nat \cup {NoReq}]]
        /\ ring \in [Slots -> [result : Results, id : Nat \cup {NoReq}]]
    BY DEF Results, NoResult
  <2>2. received \in Seq(Results)
    OBVIOUS
  <2>3. inflight_num \in 0 .. N /\ tail_id \in head_id .. head_id + N
    OBVIOUS
  <2> QED BY <2>1, <2>2, <2>3, ZenonT(40) DEF TypeOK
<1>2. RingExact
  BY DEF RingExact, NoReq
<1>3. ContextsIntact
  BY DEF ContextsIntact
<1>4. AnsweredInOrder
  BY DEF AnsweredInOrder
<1>5. DeviceCounted
  BY FS_EmptySet DEF DeviceCounted
<1> QED BY <1>1, <1>2, <1>3, <1>4, <1>5 DEF InStep, Loose

\* A submission takes the context of a place nobody in the device has.
LEMMA NextPlaceFree ==
    ASSUME InStep, ~IsFull
    PROVE  /\ tail_id < head_id + N /\ tail_id % N \in Slots
           /\ \A h \in hw : h.slot # tail_id % N /\ h.req # tail_id
<1> USE SizeAssumption
<1>1. tail_id < head_id + N /\ tail_id \in Nat /\ head_id \in Nat
  <2>1. head_id \in Nat /\ tail_id \in head_id .. head_id + N
    BY DEF InStep, Loose, TypeOK
  <2>2. tail_id - head_id # N
    BY DEF IsFull
  <2> QED BY <2>1, <2>2
<1>2. tail_id % N \in Slots
  BY <1>1, DivModN, ZenonT(40)
<1>3. ASSUME NEW h \in hw PROVE h.slot # tail_id % N /\ h.req # tail_id
  <2>1. h.req \in Nat /\ head_id <= h.req /\ h.req < tail_id /\ h.slot = h.req % N
    BY <1>1 DEF InStep, Loose, TypeOK, RingExact
  <2>2. tail_id - h.req < N
    BY <1>1, <2>1
  <2> QED BY <1>1, <2>1, <2>2, PlacesDistinct, SMTT(30)
<1> QED BY <1>1, <1>2, <1>3

LEMMA SubmitFailsCounts == Loose /\ SubmitFails => Loose'
<1> SUFFICES ASSUME Loose, SubmitFails PROVE Loose'
  OBVIOUS
<1>1. req_id % N \in Slots
  BY DivModN DEF Loose, TypeOK
<1>2. pool' \in [Slots -> [usr_ctx : Nat \cup {NoReq}, req_ring_id : Nat \cup {NoReq}]]
  BY <1>1 DEF SubmitFails, Loose, TypeOK
<1>3. overrun' \in BOOLEAN
  BY DEF SubmitFails
<1>4. UNCHANGED <<closed, req_id, inflight_num, ring, head_id, tail_id, hw, done, received>>
  BY DEF SubmitFails
<1> QED BY <1>2, <1>3, <1>4 DEF Loose, TypeOK, DeviceCounted

LEMMA SubmitFailsStep == InStep /\ SubmitFails /\ ~overrun' => InStep'
<1> SUFFICES ASSUME InStep, SubmitFails, ~overrun' PROVE InStep'
  OBVIOUS
<1>1. /\ ~IsFull /\ req_id = tail_id
      /\ pool' = [pool EXCEPT ![tail_id % N].usr_ctx = NoReq]
      /\ UNCHANGED <<closed, req_id, inflight_num, ring, head_id, tail_id, hw, done, received>>
  BY DEF SubmitFails, InStep, RingExact
<1>2. Loose'
  BY SubmitFailsCounts DEF InStep
<1>3. RingExact'
  BY <1>1 DEF InStep, RingExact
<1>4. ContextsIntact'
  BY <1>1, NextPlaceFree DEF InStep, Loose, TypeOK, ContextsIntact
<1>5. AnsweredInOrder'
  BY <1>1 DEF InStep, AnsweredInOrder
<1> QED BY <1>2, <1>3, <1>4, <1>5 DEF InStep

LEMMA SubmitOkCounts == Loose /\ SubmitOk => Loose'
<1> SUFFICES ASSUME Loose, SubmitOk PROVE Loose'
  OBVIOUS
<1> DEFINE s == req_id % N  e == [slot |-> s, req |-> req_id]
           id == IF IsFull THEN -1 ELSE tail_id
<1>1. /\ inflight_num # N
      /\ pool' = [pool EXCEPT ![s] = [usr_ctx |-> req_id, req_ring_id |-> id]]
      /\ hw' = hw \cup {e} /\ req_id' = req_id + 1
      /\ tail_id' = IF IsFull THEN tail_id ELSE tail_id + 1
      /\ inflight_num' = inflight_num + 1 /\ overrun' \in BOOLEAN
      /\ UNCHANGED <<closed, ring, head_id, done, received>>
  BY DEF SubmitOk, CanSubmit
<1>2. s \in Slots /\ req_id \in Nat
  BY DivModN DEF Loose, TypeOK
<1>3. tail_id \in Nat /\ head_id \in Nat /\ tail_id \in head_id .. head_id + N /\ N \in Nat \ {0}
  BY SizeAssumption DEF Loose, TypeOK
<1>4. e \notin hw
  BY <1>2 DEF Loose, DeviceCounted
<1>5. IsFiniteSet(hw') /\ Cardinality(hw') = Cardinality(hw) + 1
  BY <1>1, <1>4, FS_AddElement DEF Loose, DeviceCounted
<1>6. hw' \subseteq [slot : Slots, req : Nat] /\ done' \subseteq hw'
  BY <1>1, <1>2 DEF Loose, TypeOK
<1>7. pool' \in [Slots -> [usr_ctx : Nat \cup {NoReq}, req_ring_id : Nat \cup {NoReq}]]
  <2>1. id \in Nat \cup {NoReq}
    BY <1>3 DEF NoReq
  <2> HIDE DEF id
  <2> QED BY <1>1, <1>2, <2>1 DEF Loose, TypeOK
<1>8. inflight_num' \in 0 .. N
  BY <1>1, <1>3 DEF Loose, TypeOK
<1>9. tail_id' \in head_id' .. head_id' + N /\ head_id' \in Nat /\ req_id' \in Nat
  BY <1>1, <1>2, <1>3 DEF IsFull
<1>10. TypeOK'
  BY <1>1, <1>6, <1>7, <1>8, <1>9 DEF Loose, TypeOK
<1>11. \A h \in hw' : h.req < req_id'
  BY <1>1, <1>2 DEF Loose, TypeOK, DeviceCounted
<1> QED BY <1>1, <1>5, <1>10, <1>11 DEF Loose, DeviceCounted

LEMMA SubmitOkStep == InStep /\ SubmitOk /\ ~overrun' => InStep'
<1> SUFFICES ASSUME InStep, SubmitOk, ~overrun' PROVE InStep'
  OBVIOUS
<1> DEFINE s == tail_id % N  e == [slot |-> s, req |-> tail_id]
<1>1. /\ req_id = tail_id /\ ~IsFull
      /\ pool' = [pool EXCEPT ![s] = [usr_ctx |-> tail_id, req_ring_id |-> tail_id]]
      /\ hw' = hw \cup {e} /\ req_id' = req_id + 1 /\ tail_id' = tail_id + 1
      /\ UNCHANGED <<closed, ring, head_id, done, received>>
  BY DEF SubmitOk, InStep, RingExact
<1>2. /\ s \in Slots /\ e \notin hw /\ tail_id < head_id + N
      /\ \A h \in hw : h.slot # s
  BY <1>1, NextPlaceFree
<1>3. tail_id \in Nat /\ head_id \in Nat /\ head_id <= tail_id /\ N \in Nat \ {0}
  BY SizeAssumption DEF InStep, Loose, TypeOK
<1>4. Loose'
  BY SubmitOkCounts DEF InStep
<1>5. RingExact'
  <2>1. req_id' = tail_id'
    BY <1>1
  <2>2. \A h \in hw' : h.req \in head_id' .. tail_id' - 1 /\ h.slot = h.req % N
    BY <1>1, <1>3 DEF InStep, RingExact
  <2>3. \A p \in Slots : ring'[p].id < tail_id'
    BY <1>1, <1>3, SMTT(30) DEF InStep, Loose, RingExact, TypeOK, NoReq
  <2>4. ASSUME NEW n \in head_id' .. tail_id' - 1
        PROVE  IF [slot |-> n % N, req |-> n] \in hw' THEN ring'[n % N].id < n
               ELSE ring'[n % N] = [result |-> Own(n), id |-> n]
    <3>1. CASE n = tail_id
      BY <1>1, <1>2, <3>1 DEF InStep, RingExact
    <3>2. CASE n # tail_id
      <4>1. n \in head_id .. tail_id - 1
        BY <1>1, <1>3, <3>2
      <4>2. [slot |-> n % N, req |-> n] \in hw' <=> [slot |-> n % N, req |-> n] \in hw
        BY <1>1, <3>2
      <4> QED BY <1>1, <4>1, <4>2 DEF InStep, RingExact
    <3> QED BY <3>1, <3>2
  <2> QED BY <2>1, <2>2, <2>3, <2>4 DEF RingExact
<1>6. ContextsIntact'
  <2>1. pool'[s] = [usr_ctx |-> tail_id, req_ring_id |-> tail_id]
    BY <1>1, <1>2 DEF InStep, Loose, TypeOK
  <2>2. \A h \in hw : pool'[h.slot] = pool[h.slot]
    BY <1>1, <1>2 DEF InStep, Loose, TypeOK
  <2>3. \A h \in hw : pool[h.slot] = [usr_ctx |-> h.req, req_ring_id |-> h.req]
    BY DEF InStep, ContextsIntact
  <2>4. \A h \in hw : pool'[h.slot] = [usr_ctx |-> h.req, req_ring_id |-> h.req]
    BY <2>2, <2>3
  <2>5. pool'[e.slot] = [usr_ctx |-> e.req, req_ring_id |-> e.req]
    BY <2>1
  <2> QED BY <1>1, <2>4, <2>5 DEF ContextsIntact
<1> QED BY <1>1, <1>4, <1>5, <1>6 DEF InStep, AnsweredInOrder

LEMMA DeviceCompletesStep ==
    ASSUME NEW n, DeviceCompletes(n)
    PROVE  (Loose => Loose') /\ (InStep => InStep')
<1>1. /\ done \subseteq done' /\ (done \subseteq hw => done' \subseteq hw)
      /\ UNCHANGED <<closed, req_id, inflight_num, pool, ring, head_id, tail_id, hw, received, overrun>>
  BY DEF DeviceCompletes
<1>2. Loose => Loose'
  BY <1>1 DEF Loose, TypeOK, DeviceCounted
<1> QED BY <1>1, <1>2 DEF InStep, RingExact, ContextsIntact, AnsweredInOrder

\* Whatever a context says, the callbacks leave a ring of results.
LEMMA PushedType ==
    ASSUME TypeOK, NEW last \in SUBSET done
    PROVE  Pushed(last) \in [Slots -> [result : Results, id : Nat \cup {NoReq}]]
<1>1. ASSUME NEW h \in last PROVE Pushes(h) \in [result : Results, id : Nat \cup {NoReq}]
  <2>1. h.slot \in Slots /\ h.req \in Nat
    BY DEF TypeOK
  <2>2. pool[h.slot].usr_ctx \in Nat \cup {NoReq} /\ pool[h.slot].req_ring_id \in Nat \cup {NoReq}
    BY <2>1 DEF TypeOK
  <2> QED BY <2>1, <2>2 DEF Pushes, Results
<1>2. ASSUME NEW i \in Slots
      PROVE  Pushed(last)[i] \in [result : Results, id : Nat \cup {NoReq}]
  <2>1. CASE \E h \in last : WritesTo(h, i)
    <3>1. (CHOOSE h \in last : WritesTo(h, i)) \in last
      BY <2>1
    <3>2. Pushed(last)[i] = Pushes(CHOOSE h \in last : WritesTo(h, i))
      BY <2>1, Zenon DEF Pushed
    <3> QED BY <1>1, <3>1, <3>2, Zenon
  <2>2. CASE ~\E h \in last : WritesTo(h, i)
    <3>1. Pushed(last)[i] = ring[i]
      BY <2>2, Zenon DEF Pushed
    <3> QED BY <3>1 DEF TypeOK
  <2> QED BY <2>1, <2>2
<1>3. Pushed(last) = [i \in Slots |-> Pushed(last)[i]]
  BY Zenon DEF Pushed
<1> QED BY <1>2, <1>3, Zenon

\* What the callbacks write: the result of every completed request in its own place,
\* and nothing else.
LEMMA PushedIs ==
    ASSUME InStep, NEW last \in SUBSET done, LastWriters(last)
    PROVE  /\ \A h \in done : Pushed(last)[h.slot] = [result |-> Own(h.req), id |-> h.req]
           /\ \A i \in Slots : (\A h \in done : h.slot # i) => Pushed(last)[i] = ring[i]
<1>1. ASSUME NEW h \in done
      PROVE  /\ h \in [slot : Slots, req : Nat] /\ h.slot \in Slots /\ h.slot = h.req % N
             /\ h.req \in Nat /\ head_id <= h.req /\ h.req < head_id + N
             /\ pool[h.slot].usr_ctx = h.req /\ pool[h.slot].req_ring_id = h.req
  <2>1. h \in hw
    BY DEF InStep, Loose, TypeOK
  <2>2. h.slot \in Slots /\ h.slot = h.req % N /\ h \in [slot : Slots, req : Nat] /\ h.req \in Nat
    BY <2>1 DEF InStep, Loose, TypeOK, RingExact
  <2>3. head_id <= h.req /\ h.req < head_id + N
    BY <2>1, SizeAssumption DEF InStep, Loose, TypeOK, RingExact
  <2>4. pool[h.slot] = [usr_ctx |-> h.req, req_ring_id |-> h.req]
    BY <2>1 DEF InStep, ContextsIntact
  <2> QED BY <2>2, <2>3, <2>4
<1>2. ASSUME NEW h \in done, NEW i \in Slots PROVE WritesTo(h, i) <=> h.slot = i
  <2>1. pool[h.slot].req_ring_id = h.req /\ h.req \in Nat /\ h.slot = h.req % N
    BY <1>1
  <2>2. h.req # -1
    BY <2>1
  <2> QED BY <2>1, <2>2, Zenon DEF WritesTo
<1>3. ASSUME NEW g \in done, NEW h \in done, g.slot = h.slot PROVE g = h
  <2>1. g.req % N = h.req % N
    BY <1>1, <1>3, Zenon
  <2>2. head_id \in Nat
    BY DEF InStep, Loose, TypeOK
  <2>3. g.req = h.req
    BY <1>1, <2>1, <2>2, PlaceInjective, Zenon
  <2> QED BY <1>1, <1>3, <2>3
<1>4. ASSUME NEW h \in done PROVE Pushed(last)[h.slot] = [result |-> Own(h.req), id |-> h.req]
  <2>1. h.slot \in Slots
    BY <1>1
  <2>2. PICK w \in last : WritesTo(w, h.slot)
    BY <1>2, <2>1, Zenon DEF LastWriters
  <2>3. \A v \in last : WritesTo(v, h.slot) => v = h
    BY <1>2, <1>3, <2>1
  <2>4. (CHOOSE v \in last : WritesTo(v, h.slot)) = h
    BY <2>2, <2>3, Zenon
  <2>5. Pushed(last)[h.slot] = Pushes(h)
    BY <2>1, <2>2, <2>4, Zenon DEF Pushed
  <2> QED BY <1>1, <2>5 DEF Pushes, Own
<1>5. ASSUME NEW i \in Slots, \A h \in done : h.slot # i PROVE Pushed(last)[i] = ring[i]
  <2>1. ~\E h \in last : WritesTo(h, i)
    BY <1>2, <1>5
  <2> QED BY <2>1, Zenon DEF Pushed
<1> QED BY <1>4, <1>5

\* After the callbacks every request of the ring is in the device or has its result.
LEMMA PushedExact ==
    ASSUME InStep, NEW last \in SUBSET done, LastWriters(last), NEW n \in head_id .. tail_id - 1
    PROVE  IF [slot |-> n % N, req |-> n] \in hw \ done THEN Pushed(last)[n % N].id < n
           ELSE Pushed(last)[n % N] = [result |-> Own(n), id |-> n]
<1> DEFINE e == [slot |-> n % N, req |-> n]
           r == Pushed(last)
<1>1. head_id \in Nat /\ n \in Nat /\ head_id <= n /\ n < head_id + N /\ n % N \in Slots
  <2>1. head_id \in Nat /\ n \in Nat /\ head_id <= n /\ n < head_id + N
    BY SizeAssumption DEF InStep, Loose, TypeOK
  <2> QED BY <2>1, DivModN, Zenon
<1>2. IF e \in hw THEN ring[n % N].id < n ELSE ring[n % N] = [result |-> Own(n), id |-> n]
  BY DEF InStep, RingExact
<1>3. /\ \A h \in done : r[h.slot] = [result |-> Own(h.req), id |-> h.req]
      /\ \A i \in Slots : (\A h \in done : h.slot # i) => r[i] = ring[i]
  BY PushedIs
<1> HIDE DEF r
<1>4. CASE e \in done
  BY <1>3, <1>4 DEF r
<1>5. CASE e \notin done
  <2>1. ASSUME NEW h \in done, h.slot = n % N PROVE FALSE
    <3>1. /\ h \in [slot : Slots, req : Nat] /\ h.req \in Nat /\ h.req % N = n % N
          /\ head_id <= h.req /\ h.req < head_id + N
      BY <2>1, SizeAssumption DEF InStep, Loose, TypeOK, RingExact
    <3>2. h.req = n
      BY <1>1, <3>1, PlaceInjective, Zenon
    <3>3. h = e
      BY <2>1, <3>1, <3>2
    <3> QED BY <1>5, <3>3
  <2>2. r[n % N] = ring[n % N]
    BY <1>1, <1>3, <2>1
  <2> QED BY <1>2, <1>5, <2>2 DEF r
<1> QED BY <1>4, <1>5

\* The results a Poll hands out, whatever the callbacks left in the ring.
LEMMA Handed ==
    ASSUME TypeOK, NEW r \in [Slots -> [result : Results, id : Nat \cup {NoReq}]],
           NEW cnt \in Nat
    PROVE  [i \in 1 .. cnt |-> r[(head_id + i - 1) % N].result] \in Seq(Results)
<1> DEFINE new == [i \in 1 .. cnt |-> r[(head_id + i - 1) % N].result]
<1>1. ASSUME NEW i \in 1 .. cnt PROVE r[(head_id + i - 1) % N].result \in Results
  <2>1. head_id + i - 1 \in Nat
    BY DEF TypeOK
  <2>2. (head_id + i - 1) % N \in Slots
    BY <2>1, DivModN, Zenon
  <2> QED BY <2>2
<1>2. new \in [1 .. cnt -> Results]
  BY <1>1
<1> HIDE DEF new
<1>3. new \in Seq(Results)
  BY <1>2
<1> QED BY <1>3 DEF new

LEMMA PollCounts ==
    ASSUME Loose, NEW max_num \in 1 .. MaxPoll, Poll(max_num)
    PROVE  Loose'
<1>1. PICK last \in SUBSET done, cnt \in 0 .. max_num :
        /\ PopResults(Pushed(last), cnt, max_num)
        /\ ring' = Pushed(last)
        /\ inflight_num' = inflight_num - Cardinality(done)
        /\ hw' = hw \ done /\ done' = {}
        /\ received' = received \o [i \in 1 .. cnt |-> ring'[(head_id + i - 1) % N].result]
        /\ head_id' = head_id + cnt
        /\ UNCHANGED <<closed, req_id, pool, tail_id, overrun>>
  BY DEF Poll, CallbackCounts
<1>2. /\ cnt \in Nat /\ head_id \in Nat /\ tail_id \in Nat /\ N \in Nat \ {0}
      /\ head_id <= tail_id /\ tail_id <= head_id + N /\ TypeOK
  BY SizeAssumption DEF Loose, TypeOK
<1>3. head_id' <= tail_id
  BY <1>1, <1>2 DEF PopResults
<1>4. ring' \in [Slots -> [result : Results, id : Nat \cup {NoReq}]]
  BY <1>1, <1>2, PushedType
<1>5. received' \in Seq(Results)
  <2> DEFINE new == [i \in 1 .. cnt |-> ring'[(head_id + i - 1) % N].result]
  <2>1. new \in Seq(Results)
    BY <1>2, <1>4, Handed
  <2>2. received \in Seq(Results)
    BY <1>2 DEF TypeOK
  <2> HIDE DEF new
  <2> QED BY <1>1, <2>1, <2>2 DEF new
<1>6. /\ IsFiniteSet(hw') /\ inflight_num' = Cardinality(hw')
      /\ Cardinality(hw') \in Nat /\ Cardinality(hw') <= Cardinality(hw)
  <2>1. IsFiniteSet(hw) /\ hw \cap done = done
    BY DEF Loose, TypeOK, DeviceCounted
  <2>2. IsFiniteSet(hw \ done) /\ Cardinality(hw \ done) = Cardinality(hw) - Cardinality(hw \cap done)
    BY <2>1, FS_Difference
  <2>3. Cardinality(hw \ done) \in Nat /\ Cardinality(hw \ done) <= Cardinality(hw)
    BY <2>1, <2>2, FS_Subset, FS_CardinalityType
  <2> QED BY <1>1, <2>1, <2>2, <2>3, ZenonT(40) DEF Loose, DeviceCounted
<1>7. TypeOK'
  <2>1. hw' \subseteq [slot : Slots, req : Nat] /\ done' \subseteq hw'
    BY <1>1 DEF Loose, TypeOK
  <2>2. inflight_num' \in 0 .. N
    BY <1>2, <1>6 DEF Loose, TypeOK, DeviceCounted
  <2>3. head_id' \in Nat /\ tail_id' \in head_id' .. head_id' + N
    BY <1>1, <1>2, <1>3
  <2>4. /\ closed' \in BOOLEAN /\ overrun' \in BOOLEAN /\ req_id' \in Nat
        /\ pool' \in [Slots -> [usr_ctx : Nat \cup {NoReq}, req_ring_id : Nat \cup {NoReq}]]
    BY <1>1 DEF Loose, TypeOK
  <2> QED BY <1>4, <1>5, <2>1, <2>2, <2>3, <2>4 DEF TypeOK
<1>8. \A h \in hw' : h.req < req_id'
  BY <1>1 DEF Loose, DeviceCounted
<1> QED BY <1>6, <1>7, <1>8 DEF Loose, DeviceCounted

LEMMA PollStep ==
    ASSUME InStep, NEW max_num \in 1 .. MaxPoll, Poll(max_num)
    PROVE  InStep'
<1>1. PICK last \in SUBSET done, cnt \in 0 .. max_num :
        /\ LastWriters(last)
        /\ PopResults(Pushed(last), cnt, max_num)
        /\ ring' = Pushed(last)
        /\ hw' = hw \ done /\ done' = {}
        /\ received' = received \o [i \in 1 .. cnt |-> ring'[(head_id + i - 1) % N].result]
        /\ head_id' = head_id + cnt
        /\ UNCHANGED <<closed, req_id, pool, tail_id, overrun>>
  BY DEF Poll
<1>2. /\ cnt \in Nat /\ head_id \in Nat /\ tail_id \in Nat /\ N \in Nat \ {0}
      /\ head_id <= tail_id /\ tail_id <= head_id + N
  BY SizeAssumption DEF InStep, Loose, TypeOK
<1>3. head_id' <= tail_id
  BY <1>1, <1>2 DEF PopResults
<1>4. Loose'
  BY PollCounts DEF InStep
<1>5. /\ \A h \in done : ring'[h.slot] = [result |-> Own(h.req), id |-> h.req]
      /\ \A i \in Slots : (\A h \in done : h.slot # i) => ring'[i] = ring[i]
  BY <1>1, PushedIs
<1>6. ASSUME NEW n \in head_id .. tail_id - 1
      PROVE  IF [slot |-> n % N, req |-> n] \in hw' THEN ring'[n % N].id < n
             ELSE ring'[n % N] = [result |-> Own(n), id |-> n]
  BY <1>1, PushedExact
<1>7. ASSUME NEW n \in head_id .. head_id + cnt - 1
      PROVE  /\ n \in head_id .. tail_id - 1 /\ [slot |-> n % N, req |-> n] \notin hw'
             /\ ring'[n % N] = [result |-> Own(n), id |-> n]
  <2>1. n \in head_id .. tail_id - 1 /\ n \in Nat
    BY <1>1, <1>2, <1>3
  <2>2. ring'[n % N].id >= n
    BY <1>1 DEF PopResults, Ready
  <2>3. n % N \in Slots
    BY <2>1, DivModN
  <2>4. ring'[n % N].id \in Int
    BY <1>4, <2>3 DEF Loose, TypeOK, NoReq
  <2>5. [slot |-> n % N, req |-> n] \notin hw'
    <3> SUFFICES ASSUME [slot |-> n % N, req |-> n] \in hw' PROVE FALSE
      OBVIOUS
    <3>1. ring'[n % N].id < n
      BY <1>6, <2>1
    <3> QED BY <2>1, <2>2, <2>4, <3>1
  <2> QED BY <1>6, <2>1, <2>5
<1>8. AnsweredInOrder'
  <2> DEFINE new == [i \in 1 .. cnt |-> ring'[(head_id + i - 1) % N].result]
             want == [i \in 1 .. head_id + cnt |-> Own(i - 1)]
  <2>1. \A i \in 1 .. cnt : new[i] = Own(head_id + i - 1)
    <3> SUFFICES ASSUME NEW i \in 1 .. cnt PROVE new[i] = Own(head_id + i - 1)
      OBVIOUS
    <3>1. head_id + i - 1 \in head_id .. head_id + cnt - 1
      BY <1>2
    <3>2. ring'[(head_id + i - 1) % N] = [result |-> Own(head_id + i - 1), id |-> head_id + i - 1]
      BY <1>7, <3>1, Zenon
    <3> QED BY <3>2
  <2>2. new \in Seq(Results) /\ Len(new) = cnt
    <3>1. new \in Seq(Results)
      BY <1>2, <1>4, Handed DEF InStep, Loose, TypeOK
    <3>2. DOMAIN new = 1 .. cnt
      OBVIOUS
    <3> HIDE DEF new
    <3>3. Len(new) \in Nat /\ 1 .. Len(new) = 1 .. cnt
      BY <3>1, <3>2, LenProperties, Zenon
    <3>4. Len(new) = cnt
      BY <1>2, <3>3
    <3> QED BY <3>1, <3>4
  <2>3. /\ want \in Seq(Results) /\ Len(want) = head_id + cnt
        /\ \A i \in 1 .. head_id + cnt : want[i] = Own(i - 1)
    BY <1>2 DEF Own, Results
  <2>4. /\ received \in Seq(Results) /\ Len(received) = head_id
        /\ \A i \in 1 .. head_id : received[i] = Own(i - 1)
    BY <1>2 DEF InStep, Loose, TypeOK, AnsweredInOrder
  <2>5. received' = received \o new
    BY <1>1
  <2> HIDE DEF new, want
  <2>6. /\ received' \in Seq(Results) /\ Len(received') = head_id + cnt
        /\ \A i \in 1 .. head_id + cnt :
              received'[i] = IF i <= head_id THEN received[i] ELSE new[i - head_id]
    BY <2>2, <2>4, <2>5, ConcatProperties, ZenonT(40)
  <2>7. \A i \in 1 .. head_id + cnt : received'[i] = want[i]
    <3> SUFFICES ASSUME NEW i \in 1 .. head_id + cnt PROVE received'[i] = Own(i - 1)
      BY <2>3
    <3>1. CASE i <= head_id
      BY <1>2, <2>4, <2>6, <3>1
    <3>2. CASE i > head_id
      <4>1. i - head_id \in 1 .. cnt
        BY <1>2, <3>2
      <4>2. received'[i] = new[i - head_id]
        BY <1>2, <2>6, <3>2
      <4>3. head_id + (i - head_id) - 1 = i - 1
        BY <1>2
      <4> QED BY <2>1, <4>1, <4>2, <4>3
    <3> QED BY <1>2, <3>1, <3>2
  <2>8. received' = want
    BY <2>3, <2>6, <2>7, SeqEqual, ZenonT(40)
  <2> QED BY <1>1, <2>8, ZenonT(40) DEF AnsweredInOrder, want
<1>9. RingExact'
  <2>1. req_id' = tail_id'
    BY <1>1 DEF InStep, RingExact
  <2>2. ASSUME NEW h \in hw' PROVE h.req \in head_id' .. tail_id' - 1 /\ h.slot = h.req % N
    <3>1. /\ h \in [slot : Slots, req : Nat] /\ h.slot = h.req % N
          /\ h.req \in head_id .. tail_id - 1
      BY <1>1 DEF InStep, Loose, RingExact, TypeOK
    <3>2. h = [slot |-> h.req % N, req |-> h.req]
      BY <3>1
    <3>3. h.req \notin head_id .. head_id + cnt - 1
      BY <1>7, <3>2, ZenonT(40)
    <3> QED BY <1>1, <1>2, <3>1, <3>3
  <2>3. ASSUME NEW i \in Slots PROVE ring'[i].id < tail_id'
    <3>1. CASE \E h \in done : h.slot = i
      <4>1. PICK h \in done : h.slot = i
        BY <3>1
      <4>2. h.req < tail_id
        BY <1>2 DEF InStep, Loose, TypeOK, RingExact
      <4>3. ring'[i] = [result |-> Own(h.req), id |-> h.req]
        BY <1>5, <4>1
      <4> QED BY <1>1, <4>2, <4>3
    <3>2. CASE \A h \in done : h.slot # i
      BY <1>1, <1>5, <3>2 DEF InStep, RingExact
    <3> QED BY <3>1, <3>2
  <2>4. ASSUME NEW n \in head_id' .. tail_id' - 1
        PROVE  IF [slot |-> n % N, req |-> n] \in hw' THEN ring'[n % N].id < n
               ELSE ring'[n % N] = [result |-> Own(n), id |-> n]
    <3>1. n \in head_id .. tail_id - 1
      BY <1>1, <1>2
    <3> QED BY <1>6, <3>1
  <2> QED BY <2>1, <2>2, <2>3, <2>4 DEF RingExact
<1>10. ContextsIntact'
  BY <1>1 DEF InStep, ContextsIntact
<1> QED BY <1>4, <1>8, <1>9, <1>10 DEF InStep

\* Every step keeps the device's count; a history without overrun keeps the rest.
LEMMA NextPreserves == RingInvariant /\ [Next]_vars => RingInvariant'
<1> SUFFICES ASSUME RingInvariant, [Next]_vars PROVE RingInvariant'
  OBVIOUS
<1>1. Loose /\ (~overrun => InStep)
  BY DEF RingInvariant, Loose, InStep
<1>2. overrun => overrun'
  <2>1. CASE SubmitOk \/ SubmitFails \/ Close \/ UNCHANGED vars
    BY <2>1 DEF SubmitOk, SubmitFails, Close, vars
  <2>2. CASE \E n \in 0 .. MaxReq - 1 : DeviceCompletes(n)
    BY <2>2 DEF DeviceCompletes
  <2>3. CASE \E max_num \in 1 .. MaxPoll : Poll(max_num)
    BY <2>3 DEF Poll
  <2> QED BY <2>1, <2>2, <2>3 DEF Next
<1>3. Loose' /\ (InStep /\ ~overrun' => InStep')
  <2>1. CASE SubmitOk
    BY <1>1, <2>1, SubmitOkCounts, SubmitOkStep
  <2>2. CASE SubmitFails
    BY <1>1, <2>2, SubmitFailsCounts, SubmitFailsStep
  <2>3. CASE Close \/ UNCHANGED vars
    <3>1. /\ UNCHANGED <<req_id, inflight_num, pool, ring, head_id, tail_id, hw, done, received, overrun>>
          /\ closed' \in BOOLEAN
      BY <1>1, <2>3, ZenonT(40) DEF Close, vars, Loose, TypeOK
    <3>2. Loose'
      BY <1>1, <3>1 DEF Loose, TypeOK, DeviceCounted
    <3>3. InStep => RingExact' /\ ContextsIntact' /\ AnsweredInOrder'
      BY <3>1 DEF InStep, RingExact, ContextsIntact, AnsweredInOrder
    <3> QED BY <3>2, <3>3 DEF InStep
  <2>4. CASE \E n \in 0 .. MaxReq - 1 : DeviceCompletes(n)
    BY <1>1, <2>4, DeviceCompletesStep
  <2>5. CASE \E max_num \in 1 .. MaxPoll : Poll(max_num)
    <3>1. PICK max_num \in 1 .. MaxPoll : Poll(max_num)
      BY <2>5
    <3>2. Loose'
      BY <1>1, <3>1, PollCounts
    <3>3. InStep => InStep'
      BY <3>1, PollStep
    <3> QED BY <3>2, <3>3
  <2> QED BY <2>1, <2>2, <2>3, <2>4, <2>5 DEF Next
<1> QED BY <1>1, <1>2, <1>3 DEF RingInvariant, Loose, InStep

(***************************************************************************)
(* Theorems                                                                 *)
(***************************************************************************)
\* For every size of the ring and every order of completions: the device's count in a KAE
\* channel (inflight_num_) is exact always, and contexts, ring and counters stay exact until
\* a request is submitted while the ring is full, which kae_codec_channel.cc:274 does not
\* prevent (InSubmissionOrder shows what follows).
THEOREM RingBookkeeping == Spec => []RingInvariant
<1>1. Init => RingInvariant
  BY InitEstablishes DEF InStep, Loose, RingInvariant
<1> QED BY <1>1, NextPreserves, PTL DEF Spec

\* Until then the results come once each, in the order of submission, each with the context
\* and the outcome of its own request, and what the ring spans is counted: KaeCallback,
\* PushResult and PopResults lose and repeat nothing.
THEOREM ResultsInOrder == Spec => []KaeSafe
<1>1. RingInvariant => KaeSafe
  BY CountsFollow DEF KaeSafe, RingInvariant, InStep, Loose
<1> QED BY <1>1, RingBookkeeping, PTL

VARIABLES
    part,
    c_pc, c_unit_held, c_closed, c_in_qat_num, c_next_req_id, c_sessions, c_todo, c_meta,
    c_cb_pool, c_cb_ctx, c_discarded, c_in_cache_num, c_timers, c_free_mem_timers, c_ring,
    c_head_id, c_hw, c_received, c_undefined,
    l_phase, l_thread, l_events, l_reading, l_buf, l_woken, l_conn, l_gone, l_sent,
    l_taken, l_handled, l_replied

c_vars == <<c_pc, c_unit_held, c_closed, c_in_qat_num, c_next_req_id, c_sessions, c_todo,
            c_meta, c_cb_pool, c_cb_ctx, c_discarded, c_in_cache_num, c_timers,
            c_free_mem_timers, c_ring, c_head_id, c_hw, c_received, c_undefined>>
l_vars == <<l_phase, l_thread, l_events, l_reading, l_buf, l_woken, l_conn, l_gone, l_sent,
            l_taken, l_handled, l_replied>>
all == <<part, vars, c_vars, l_vars>>

\* Room for two requests in the hardware, and five requests of two sessions
Cypher == INSTANCE CypherChannelProofs WITH
    MaxInQat <- 2, SlotNum <- 2, RingSize <- 2, MaxSession <- 2, MaxReq <- 5, MaxPoll <- 2,
    pc <- c_pc, unit_held <- c_unit_held, closed <- c_closed, in_qat_num <- c_in_qat_num,
    next_req_id <- c_next_req_id, sessions <- c_sessions, todo <- c_todo, meta <- c_meta,
    cb_pool <- c_cb_pool, cb_ctx <- c_cb_ctx, discarded <- c_discarded,
    in_cache_num <- c_in_cache_num, timers <- c_timers,
    free_mem_timers <- c_free_mem_timers, ring <- c_ring, head_id <- c_head_id, hw <- c_hw,
    received <- c_received, undefined <- c_undefined

\* Two clients, one with a byte too many before the ending
Listener == INSTANCE UdsListener WITH
    Clients <- {"c1", "c2"}, Ending <- <<1, 2>>, ExpectedMsgLen <- 3,
    Text <- [c1 |-> <<0, 1, 2>>, c2 |-> <<1, 2, 0>>],
    phase <- l_phase, thread <- l_thread, events <- l_events, reading <- l_reading,
    buf <- l_buf, woken <- l_woken, conn <- l_conn, gone <- l_gone, sent <- l_sent,
    taken <- l_taken, handled <- l_handled, replied <- l_replied

ASSUME CypherAssumption == Cypher!ConstantsOK
ASSUME ListenerAssumption == Listener!ConstantsOK

ChannelsInit ==
    /\ part \in {"kae", "cypher", "listener"}
    /\ Init /\ Cypher!Init /\ Listener!Init

ChannelsNext ==
    \/ part = "kae" /\ Next /\ UNCHANGED <<part, c_vars, l_vars>>
    \/ part = "cypher" /\ Cypher!Next /\ UNCHANGED <<part, vars, l_vars>>
    \/ part = "listener" /\ Listener!Next /\ UNCHANGED <<part, vars, c_vars>>

\* Each with the fairness of its own specification
ChannelsFairness ==
    /\ WF_vars(part = "kae" /\ Poll(MaxPoll))
    /\ \A n \in 0 .. MaxReq - 1 : WF_vars(part = "kae" /\ DeviceCompletes(n))
    /\ SF_c_vars(part = "cypher" /\ Cypher!PollStart)
    /\ SF_c_vars(part = "cypher" /\ Cypher!PollInstanceReturns)
    /\ SF_c_vars(part = "cypher" /\ Cypher!RequestTimeout)
    /\ WF_c_vars(part = "cypher" /\ Cypher!TimeoutsHandled)
    /\ SF_c_vars(part = "cypher" /\ Cypher!Pop(2))
    /\ WF_c_vars(part = "cypher" /\ Cypher!ClosingStep)
    /\ WF_l_vars(part = "listener" /\ Listener!StopJoined)
    /\ WF_l_vars(part = "listener" /\ Listener!HandleEvent)
    /\ WF_l_vars(part = "listener" /\ (Listener!ReadSome \/ Listener!ReadEnd))
    /\ WF_l_vars(part = "listener" /\ Listener!EpollWait)
    /\ \A c \in {"c1", "c2"} : WF_l_vars(part = "listener" /\ Listener!Write(c))

ChannelsSpec == ChannelsInit /\ [][ChannelsNext]_all /\ ChannelsFairness

-----------------------------------------------------------------------------
\* What the cypher channel has in the hardware stays alive, no buffer is lost, and exactly
\* the requests that wait for an answer have a timer.
CypherSafe == Cypher!CypherSafe

\* The cypher channel is an asynchronous channel.
CypherIsChannel == Cypher!ChannelSpec

\* Its requests are answered, if only by timeout.
CypherAnswers == Cypher!EveryRequestAnswered

\* The listener's handler gets whole messages only.
MessagesIntact == Listener!MessagesIntact

\* Stop of the listener returns.
StopReturns == Listener!StopReturns

(***************************************************************************)
(* What is proved of the channels side by side                              *)
(***************************************************************************)
\* Side by side with the others, a KAE channel still answers in order.
THEOREM KaeStaysSafe == ChannelsSpec => []KaeSafe
<1>1. ChannelsInit => Init
  BY DEF ChannelsInit
<1>2. [ChannelsNext]_all => [Next]_vars
  BY DEF ChannelsNext, all
<1> QED BY <1>1, <1>2, ResultsInOrder, PTL DEF ChannelsSpec, Spec

\* What the cypher channel has in the hardware (QatCypherChannel) stays alive, its
\* buffers suffice, and exactly the requests that wait for an answer have a timer.
THEOREM CypherStaysSafe == ChannelsSpec => []CypherSafe
<1>1. ChannelsInit => Cypher!Init
  BY DEF ChannelsInit
<1>2. [ChannelsNext]_all => [Cypher!Next]_(Cypher!vars)
  <2>1. UNCHANGED c_vars => UNCHANGED Cypher!vars
    BY DEF c_vars, Cypher!vars, Cypher!reqVars, Cypher!sessVars, Cypher!poolVars, Cypher!ringVars
  <2> QED BY <2>1 DEF ChannelsNext, all
<1>3. Cypher!ConstantsOK
  BY CypherAssumption
<1>4. Cypher!Spec => []Cypher!CypherSafe
  BY <1>3, Cypher!CypherAlwaysSafe
<1> QED BY <1>1, <1>2, <1>4, PTL DEF ChannelsSpec, Cypher!Spec, CypherSafe

\* The cypher channel delivers each accepted request once, in the order of submission,
\* as include/vesal/codec.h promises of SubmitAsync and Poll.
THEOREM CypherKeepsPromise == ChannelsSpec => CypherIsChannel
<1>1. ChannelsInit => Cypher!Init
  BY DEF ChannelsInit
<1>2. [ChannelsNext]_all => [Cypher!Next]_(Cypher!vars)
  <2>1. UNCHANGED c_vars => UNCHANGED Cypher!vars
    BY DEF c_vars, Cypher!vars, Cypher!reqVars, Cypher!sessVars, Cypher!poolVars, Cypher!ringVars
  <2> QED BY <2>1 DEF ChannelsNext, all
<1>3. Cypher!ConstantsOK
  BY CypherAssumption
<1>4. Cypher!Spec => Cypher!ChannelSpec
  BY <1>3, Cypher!CypherImplementsChannel
<1> QED BY <1>1, <1>2, <1>4, PTL DEF ChannelsSpec, Cypher!Spec, CypherIsChannel
=============================================================================
