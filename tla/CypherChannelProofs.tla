------------------------ MODULE CypherChannelProofs ------------------------
(***************************************************************************)
(* The bookkeeping of a QAT cypher channel, for any number of slots,        *)
(* places of the ring, sessions and requests: CypherChannel's invariant is  *)
(* inductive, its properties follow, and it implements AsyncChannel.        *)
(***************************************************************************)
EXTENDS CypherChannel, FiniteSetTheorems, SequenceTheorems, TLAPS

(***************************************************************************)
(* Slots and places                                                         *)
(***************************************************************************)
\* Euclidean division.
LEMMA DivMod ==
    ASSUME NEW a \in Nat, NEW n \in Nat \ {0}
    PROVE  a \div n \in Int /\ a % n \in 0 .. n - 1 /\ a = n * (a \div n) + (a % n)
<1>1. a \div n \in Int
  BY SMT
<1>2. a % n \in 0 .. n - 1
  BY SMT
<1>3. a = n * (a \div n) + (a % n)
  BY SMT
<1> QED BY Zenon, <1>1, <1>2, <1>3

\* Numbers less than n apart have different remainders.
LEMMA RemaindersDiffer ==
    ASSUME NEW n \in Nat \ {0}, NEW a \in Nat, NEW b \in Nat, a < b, b - a < n
    PROVE  a % n # b % n
<1> DEFINE qa == a \div n  qb == b \div n  r == a % n
<1>1. SUFFICES ASSUME a % n = b % n PROVE FALSE
  OBVIOUS
<1>2. qa \in Int /\ r \in Int /\ a = n * qa + r
  BY DivMod
<1>3. qb \in Int /\ b = n * qb + r
  BY <1>1, DivMod
<1> HIDE DEF qa, qb, r
<1>4. b - a = n * (qb - qa)
  BY <1>2, <1>3, SMT
<1>5. qb - qa \in Int /\ (qb - qa < 1 \/ qb - qa >= 1)
  BY <1>2, <1>3
<1>6. ASSUME NEW k \in Int, k >= 1 PROVE n * k >= n
  BY <1>6, SMT
<1>7. ASSUME NEW k \in Int, k < 1 PROVE n * k <= 0
  BY <1>7, SMT
<1> QED BY <1>4, <1>5, <1>6, <1>7, SMT

\* So within a window of n numbers a remainder determines the number.
LEMMA WindowInjective ==
    ASSUME NEW n \in Nat \ {0}, NEW lo \in Nat, NEW a \in Nat, NEW b \in Nat,
           lo <= a, a < lo + n, lo <= b, b < lo + n, a % n = b % n
    PROVE  a = b
<1>1. CASE a < b
  <2>1. b - a < n
    BY <1>1
  <2> QED BY <1>1, <2>1, RemaindersDiffer, Zenon
<1>2. CASE b < a
  <2>1. a - b < n
    BY <1>2
  <2> QED BY <1>2, <2>1, RemaindersDiffer, Zenon
<1> QED BY <1>1, <1>2

\* DedicatedPool::Get stays within the pool.
LEMMA SlotInRange ==
    ASSUME ConstantsOK, NEW id \in Nat
    PROVE  Slot(id) \in Slots
  BY DivMod DEF Slot, Slots, ConstantsOK

\* InflightReqRingQueue stays within its ring.
LEMMA PlaceInRange ==
    ASSUME ConstantsOK, NEW id \in Nat
    PROVE  id % RingSize \in 0 .. RingSize - 1
  BY DivMod DEF ConstantsOK

\* The requests in the instance, and the one submitted next if it is not full, have
\* different slots.
LEMMA SlotsDistinct ==
    ASSUME ConstantsOK, CypherInvariant, NEW a \in InQat,
           NEW b \in InQat \cup (IF in_qat_num < MaxInQat THEN {next_req_id} ELSE {}),
           Slot(a) = Slot(b)
    PROVE  a = b
<1>1. /\ next_req_id \in Nat /\ in_qat_num \in Nat /\ in_qat_num <= MaxInQat
      /\ in_qat_num <= next_req_id
  BY DEF CypherInvariant, TypeOK, HardwareInOrder, ConstantsOK
<1>2. /\ SlotNum \in Nat \ {0} /\ MaxInQat \in Nat /\ MaxInQat <= SlotNum
  BY DEF ConstantsOK
<1>3. /\ Oldest \in Nat /\ a \in Nat /\ b \in Nat /\ Oldest <= a /\ a < Oldest + SlotNum
      /\ Oldest <= b /\ b < Oldest + SlotNum
  BY <1>1, <1>2 DEF Oldest, InQat
<1> QED BY <1>2, <1>3, WindowInjective, Zenon DEF Slot

\* The requests not polled have different places.
LEMMA PlacesDistinct ==
    ASSUME ConstantsOK, CypherInvariant,
           NEW a \in head_id .. next_req_id - 1, NEW b \in head_id .. next_req_id - 1,
           a % RingSize = b % RingSize
    PROVE  a = b
<1>1. /\ head_id \in Nat /\ next_req_id \in Nat /\ next_req_id - head_id <= RingSize
  BY DEF CypherInvariant, TypeOK
<1>2. RingSize \in Nat \ {0}
  BY DEF ConstantsOK
<1>3. /\ a \in Nat /\ b \in Nat /\ head_id <= a /\ a < head_id + RingSize
      /\ head_id <= b /\ b < head_id + RingSize
  BY <1>1, <1>2
<1> QED BY <1>1, <1>2, <1>3, WindowInjective, Zenon

\* A function on 1 .. n is a sequence.
LEMMA FunctionIsSeq ==
    ASSUME NEW S, NEW n \in Nat, NEW f \in [1 .. n -> S]
    PROVE  f \in Seq(S)
  BY SeqDef, Zenon

(***************************************************************************)
(* The initial state, and the steps that only concern sessions              *)
(***************************************************************************)
LEMMA InitEstablishes == ConstantsOK /\ Init => CypherInvariant
<1> SUFFICES ASSUME ConstantsOK, Init PROVE CypherInvariant
  OBVIOUS
<1> USE DEF Init, ConstantsOK
<1>1. BufNum \in Nat
  BY DEF BufNum
<1>2. None \in NumOrNone /\ NewCtx(FALSE) \in Ctxs /\ NoResult \in Results
  BY Zenon DEF NumOrNone, None, NewCtx, Ctxs, NoResult, Results
<1>3. cb_ctx \in Seq(Ctxs) /\ DOMAIN cb_ctx = 1 .. SlotNum
  <2>1. cb_ctx \in [1 .. SlotNum -> Ctxs]
    BY <1>2, ZenonT(40)
  <2>2. SlotNum \in Nat
    BY Zenon
  <2>3. cb_ctx \in Seq(Ctxs)
    BY <2>1, <2>2, FunctionIsSeq, ZenonT(40)
  <2> QED BY <2>1, <2>3, ZenonT(40)
<1>4. TypeOK
  <2>1. cb_pool \in [Slots -> DOMAIN cb_ctx]
    BY <1>3 DEF Slots
  <2>2. hw \in Seq(DOMAIN cb_ctx) /\ sessions \in Seq(Pairs) /\ todo \in Seq(DOMAIN sessions)
        /\ received \in Seq(Results)
    OBVIOUS
  <2>3. meta \in [Slots -> [req_id : NumOrNone, valid : BOOLEAN]]
    BY Zenon, <1>2
  <2>4. ring \in [0 .. RingSize - 1 -> [result : Results, id : NumOrNone]]
    BY Zenon, <1>2
  <2>5. /\ next_req_id \in Nat /\ in_qat_num \in 0 .. MaxInQat /\ in_cache_num \in 0 .. BufNum
        /\ head_id \in 0 .. next_req_id /\ next_req_id - head_id <= RingSize
    BY <1>1
  <2>6. unit_held \in BOOLEAN /\ closed \in BOOLEAN /\ timers \subseteq Nat
    BY ZenonT(40)
  <2> QED BY <1>3, <2>1, <2>2, <2>3, <2>4, <2>5, <2>6, Zenon DEF TypeOK
<1>5. InQat = {} /\ Len(hw) = 0 /\ DOMAIN hw = {}
  BY DEF InQat, Oldest
<1>6. HardwareInOrder
  BY <1>3, <1>5 DEF HardwareInOrder, NewCtx
<1>7. SlotsExact
  BY <1>5 DEF SlotsExact, Slots
<1>8. RingExact /\ PendingExactlyTimed /\ ReceivedExact /\ PhasesFit
  BY DEF RingExact, PendingExactlyTimed, ReceivedExact, PhasesFit
<1> QED BY Zenon, <1>4, <1>6, <1>7, <1>8 DEF CypherInvariant

\* The part of the state that requests change.
DataRests ==
    UNCHANGED <<reqVars, meta, cb_pool, cb_ctx, in_cache_num, timers, ringVars, hw>>

\* A step that leaves it alone preserves the invariant if the sessions of the requests in
\* the instance stay open.
LEMMA SessionsStep ==
    ASSUME CypherInvariant, DataRests,
           pc' \in {"idle", "close", "remove", "poll", "timeout", "pop"},
           unit_held' \in BOOLEAN, closed' \in BOOLEAN,
           sessions' \in Seq(Pairs), todo' \in Seq(DOMAIN sessions'), PhasesFit',
           \A s \in DOMAIN sessions : \A dir \in {"enc", "dec"} :
              (\E i \in DOMAIN hw : cb_ctx[hw[i]].sess = <<s, dir>>)
                 /\ SessionOf(sessions[s], dir) = "open"
              => s \in DOMAIN sessions' /\ SessionOf(sessions'[s], dir) = "open"
    PROVE  CypherInvariant'
<1> USE DEF DataRests, reqVars, ringVars
<1>1. TypeOK'
  BY Zenon DEF CypherInvariant, TypeOK
<1>2. Oldest' = Oldest /\ InQat' = InQat
  BY Zenon DEF Oldest, InQat
<1>3. HardwareInOrder'
  <2>1. ASSUME NEW i \in DOMAIN hw
        PROVE  LET c == cb_ctx[hw[i]]
               IN  /\ c.req_id = Oldest + i - 1
                   /\ c.sess[1] \in DOMAIN sessions'
                   /\ SessionOf(sessions'[c.sess[1]], c.sess[2]) = "open"
    <3> DEFINE c == cb_ctx[hw[i]]
    <3>1. /\ c.req_id = Oldest + i - 1 /\ c.sess[1] \in DOMAIN sessions
          /\ SessionOf(sessions[c.sess[1]], c.sess[2]) = "open"
      BY Zenon DEF CypherInvariant, HardwareInOrder
    <3>2. c \in Ctxs
      BY DEF CypherInvariant, TypeOK
    <3>3. c.sess = <<c.sess[1], c.sess[2]>> /\ c.sess[2] \in {"enc", "dec"}
      BY <3>2 DEF Ctxs
    <3> QED BY <3>1, <3>3, Zenon
  <2> QED BY Zenon, <1>2, <2>1 DEF CypherInvariant, HardwareInOrder
<1>4. SlotsExact'
  BY Zenon, <1>2 DEF CypherInvariant, SlotsExact, CtxOf
<1>5. RingExact' /\ PendingExactlyTimed' /\ ReceivedExact'
  BY Zenon DEF CypherInvariant, RingExact, PendingExactlyTimed, ReceivedExact
<1> QED BY Zenon, <1>1, <1>3, <1>4, <1>5 DEF CypherInvariant

\* The fields that a step of SessionsStep needs to look at.
LEMMA PhasesNow ==
    ASSUME CypherInvariant
    PROVE  /\ pc \in {"idle", "close", "remove", "poll", "timeout", "pop"}
           /\ unit_held \in BOOLEAN /\ closed \in BOOLEAN
           /\ sessions \in Seq(Pairs) /\ todo \in Seq(DOMAIN sessions)
           /\ ~closed => unit_held /\ sessions # <<>>
           /\ closed => pc = "idle" /\ in_qat_num = 0
           /\ pc = "close" => \A s \in DOMAIN sessions :
                 "open" \in {sessions[s].enc, sessions[s].dec}
                    => \E i \in DOMAIN todo : todo[i] = s
           /\ in_cache_num + 2 * in_qat_num = IF sessions = <<>> THEN 0 ELSE BufNum
  BY ZenonT(40) DEF CypherInvariant, TypeOK, PhasesFit

\* Poll's way through the timers, and the ends of calls: only pc changes, or what no
\* conjunct speaks of.
LEMMA PcStep ==
    ASSUME CypherInvariant, DataRests, UNCHANGED <<unit_held, closed, sessions>>,
           ~closed, todo' \in Seq(DOMAIN sessions),
           pc' \in {"idle", "remove", "poll", "timeout", "pop"}
    PROVE  CypherInvariant'
<1>1. PhasesFit'
  BY Zenon, PhasesNow DEF PhasesFit, DataRests, reqVars
<1>2. todo' \in Seq(DOMAIN sessions') /\ sessions' \in Seq(Pairs)
  BY Zenon, PhasesNow
<1>3. unit_held' \in BOOLEAN /\ closed' \in BOOLEAN
  BY Zenon, PhasesNow
<1> QED BY Zenon, <1>1, <1>2, <1>3, SessionsStep

\* All that is not about requests.
SessionStep ==
    \/ InitFails \/ CloseStart \/ SessionClosed \/ PairUninited \/ UninitFails \/ SessionRemoved
    \/ \E hash \in BOOLEAN : AddSession(hash)
    \/ \E s \in DOMAIN sessions : \/ RemoveSession(s)
                                  \/ \E op \in {"enc", "dec"} : SubmitUndefined(s, op)
    \/ PollStart \/ PollInstanceReturns \/ PollInstanceFails \/ TimeoutsHandled \/ FreeMemTimeout

LEMMA OpenBusy ==
    ASSUME CypherInvariant
    PROVE  pc # "idle" \/ Open => ~closed
  BY Zenon, PhasesNow DEF Open

LEMMA SessionStepsPreserve ==
    ASSUME CypherInvariant, SessionStep
    PROVE  CypherInvariant'
<1> USE DEF DataRests, reqVars, sessVars, poolVars, ringVars
<1>1. CASE PollStart \/ PollInstanceReturns \/ PollInstanceFails \/ TimeoutsHandled \/ FreeMemTimeout
  <2>1. ~closed
    BY Zenon, <1>1, OpenBusy DEF PollStart, PollInstanceReturns, PollInstanceFails, TimeoutsHandled,
                          FreeMemTimeout
  <2>2. /\ DataRests /\ UNCHANGED <<unit_held, closed, sessions, todo>>
        /\ pc' \in {"idle", "remove", "poll", "timeout", "pop"}
    BY Zenon, <1>1 DEF PollStart, PollInstanceReturns, PollInstanceFails, TimeoutsHandled,
                FreeMemTimeout
  <2> QED BY Zenon, <2>1, <2>2, PcStep, PhasesNow
<1>2. CASE UninitFails \/ SessionRemoved
  <2>1. ~closed
    BY Zenon, <1>2, OpenBusy DEF UninitFails, SessionRemoved
  <2>2. /\ DataRests /\ UNCHANGED <<unit_held, closed, sessions>>
        /\ pc' = "idle" /\ todo' = <<>>
    BY Zenon, <1>2 DEF UninitFails, SessionRemoved
  <2> QED BY <2>1, <2>2, PcStep
<1>3. ASSUME NEW s \in DOMAIN sessions, RemoveSession(s) PROVE CypherInvariant'
  <2>1. ~closed
    BY Zenon, <1>3, OpenBusy DEF RemoveSession
  <2>2. /\ DataRests /\ UNCHANGED <<unit_held, closed, sessions>>
        /\ pc' = "remove" /\ todo' = <<s>>
    BY Zenon, <1>3 DEF RemoveSession
  <2> QED BY <2>1, <2>2, PcStep
<1>4. ASSUME NEW s \in DOMAIN sessions, NEW op \in {"enc", "dec"}, SubmitUndefined(s, op)
      PROVE  CypherInvariant'
  <2>1. ~closed /\ pc = "idle"
    BY Zenon, <1>4, OpenBusy DEF SubmitUndefined, CanSubmit, Open, Idle
  <2>2. DataRests /\ UNCHANGED <<unit_held, closed, sessions, todo, pc>>
    BY Zenon, <1>4 DEF SubmitUndefined
  <2> QED BY Zenon, <2>1, <2>2, PcStep, PhasesNow
<1>5. CASE InitFails
  <2>1. /\ DataRests /\ UNCHANGED <<closed, sessions, todo, pc>> /\ unit_held' \in BOOLEAN
        /\ closed
    BY Zenon, <1>5 DEF InitFails
  <2>2. PhasesFit'
    BY Zenon, <2>1, PhasesNow DEF PhasesFit
  <2> QED BY Zenon, <2>1, <2>2, SessionsStep, PhasesNow
<1>6. ASSUME NEW hash \in BOOLEAN, AddSession(hash) PROVE CypherInvariant'
  <2>1. /\ DataRests /\ UNCHANGED <<pc, unit_held, closed, todo>> /\ pc = "idle" /\ ~closed
        /\ sessions' = Append(sessions, OpenPair(hash))
    BY Zenon, <1>6 DEF AddSession, Open, Idle
  <2>2. OpenPair(hash) \in Pairs
    BY Zenon DEF OpenPair, Pairs
  <2>3. /\ sessions' \in Seq(Pairs) /\ sessions' # <<>>
        /\ \A s \in DOMAIN sessions : s \in DOMAIN sessions' /\ sessions'[s] = sessions[s]
    BY <2>1, <2>2, PhasesNow, AppendProperties
  <2>4. todo' \in Seq(DOMAIN sessions')
    BY Zenon, <2>1, <2>3, PhasesNow, SeqMonotonic
  <2>5. PhasesFit'
    BY Zenon, <2>1, <2>3, PhasesNow DEF PhasesFit
  <2> QED BY Zenon, <2>1, <2>3, <2>4, <2>5, SessionsStep, PhasesNow
<1>7. CASE CloseStart
  <2>1. /\ DataRests /\ UNCHANGED <<unit_held, closed, sessions>> /\ ~closed
        /\ pc' = "close" /\ todo' = [s \in 1 .. Len(sessions) |-> s]
    BY Zenon, <1>7 DEF CloseStart, Open
  <2>2. DOMAIN sessions = 1 .. Len(sessions) /\ Len(sessions) \in Nat
    BY PhasesNow
  <2>3. todo' \in Seq(DOMAIN sessions)
    <3>1. todo' \in [1 .. Len(sessions) -> DOMAIN sessions]
      BY Zenon, <2>1, <2>2
    <3> QED BY Zenon, <3>1, <2>2, FunctionIsSeq
  <2>4. PhasesFit'
    <3>1. ASSUME NEW s \in DOMAIN sessions PROVE \E i \in DOMAIN todo' : todo'[i] = s
      BY Zenon, <2>1, <2>2
    <3> QED BY Zenon, <2>1, <3>1, PhasesNow DEF PhasesFit
  <2> QED BY Zenon, <2>1, <2>3, <2>4, SessionsStep, PhasesNow
<1>8. CASE SessionClosed
  <2> DEFINE s == Head(todo)
             dir == IF sessions[s].enc = "open" THEN "enc" ELSE "dec"
             p == IF dir = "enc" THEN [sessions[s] EXCEPT !.enc = "closed"]
                                 ELSE [sessions[s] EXCEPT !.dec = "closed"]
  <2>1. /\ DataRests /\ UNCHANGED <<pc, unit_held, closed, todo>> /\ ~closed
        /\ pc \in {"close", "remove"} /\ todo # <<>> /\ Removable(s, dir)
        /\ sessions' = [sessions EXCEPT ![s] = p]
    BY Zenon, <1>8, OpenBusy DEF SessionClosed
  <2>2. s \in DOMAIN sessions /\ sessions[s] \in Pairs
    BY <2>1, PhasesNow, HeadTailProperties
  <2>3. /\ p \in Pairs /\ SessionOf(p, dir) = "closed"
        /\ \A d \in {"enc", "dec"} : d # dir => SessionOf(p, d) = SessionOf(sessions[s], d)
    BY Zenon, <2>2 DEF Pairs, SessionOf
  <2>4. /\ sessions' \in Seq(Pairs) /\ DOMAIN sessions' = DOMAIN sessions /\ sessions' # <<>>
        /\ \A r \in DOMAIN sessions : sessions'[r] = IF r = s THEN p ELSE sessions[r]
    <3> HIDE DEF p, s
    <3> QED BY <2>1, <2>2, <2>3, PhasesNow
  <2>5. PhasesFit'
    <3>1. ASSUME NEW r \in DOMAIN sessions', "open" \in {sessions'[r].enc, sessions'[r].dec}
          PROVE  "open" \in {sessions[r].enc, sessions[r].dec}
      BY Zenon, <2>2, <2>4, <3>1 DEF Pairs
    <3> QED BY Zenon, <2>1, <2>4, <3>1, PhasesNow DEF PhasesFit
  <2>6. ASSUME NEW r \in DOMAIN sessions, NEW d \in {"enc", "dec"},
               \E i \in DOMAIN hw : cb_ctx[hw[i]].sess = <<r, d>>,
               SessionOf(sessions[r], d) = "open"
        PROVE  r \in DOMAIN sessions' /\ SessionOf(sessions'[r], d) = "open"
    <3>1. ~(r = s /\ d = dir)
      BY Zenon, <2>1, <2>6 DEF Removable
    <3> HIDE DEF p, s, dir
    <3> QED BY Zenon, <2>3, <2>4, <2>6, <3>1
  <2>7. todo' \in Seq(DOMAIN sessions')
    BY Zenon, <2>1, <2>4, PhasesNow
  <2> QED BY <2>1, <2>4, <2>5, <2>6, <2>7, SessionsStep, PhasesNow, ZenonT(40)
<1>9. CASE PairUninited
  <2> DEFINE s == Head(todo)
             p == [sessions[s] EXCEPT !.enc = "null", !.dec = "null"]
  <2>1. /\ DataRests /\ UNCHANGED <<pc, unit_held, closed>> /\ ~closed
        /\ pc \in {"close", "remove"} /\ todo # <<>> /\ todo' = Tail(todo)
        /\ "open" \notin {sessions[s].enc, sessions[s].dec}
    BY Zenon, <1>9, OpenBusy DEF PairUninited
  <2>2. s \in DOMAIN sessions /\ sessions[s] \in Pairs
    BY <2>1, PhasesNow, HeadTailProperties
  <2>3. /\ p \in Pairs /\ p.enc = "null" /\ p.dec = "null"
    BY <2>2, ZenonT(40) DEF Pairs
  <2>4. sessions' = [sessions EXCEPT ![s] = p]
    BY <1>9, <2>2, ZenonT(40) DEF PairUninited, Pairs
  <2>5. /\ sessions' \in Seq(Pairs) /\ DOMAIN sessions' = DOMAIN sessions /\ sessions' # <<>>
        /\ \A r \in DOMAIN sessions : sessions'[r] = IF r = s THEN p ELSE sessions[r]
    <3> HIDE DEF p, s
    <3> QED BY <2>1, <2>2, <2>3, <2>4, PhasesNow
  <2>6. todo' \in Seq(DOMAIN sessions')
    BY Zenon, <2>1, <2>5, PhasesNow, HeadTailProperties
  <2>7. PhasesFit'
    <3>1. ASSUME NEW r \in DOMAIN sessions', pc = "close",
                 "open" \in {sessions'[r].enc, sessions'[r].dec}
          PROVE  \E i \in DOMAIN todo' : todo'[i] = r
      <4>1. r # s /\ "open" \in {sessions[r].enc, sessions[r].dec}
        BY <2>2, <2>3, <2>5, <3>1, ZenonT(40)
      <4>2. PICK i \in DOMAIN todo : todo[i] = r
        BY Zenon, <2>5, <3>1, <4>1, PhasesNow
      <4>3. i # 1 /\ Len(todo) \in Nat /\ DOMAIN todo = 1 .. Len(todo)
        BY <4>1, <4>2, PhasesNow
      <4>4. i - 1 \in DOMAIN todo' /\ todo'[i - 1] = todo[i]
        BY <2>1, <4>2, <4>3, PhasesNow, HeadTailProperties
      <4> QED BY Zenon, <4>2, <4>4
    <3> QED BY Zenon, <2>1, <2>5, <3>1, PhasesNow DEF PhasesFit
  <2>8. ASSUME NEW r \in DOMAIN sessions, NEW d \in {"enc", "dec"},
               SessionOf(sessions[r], d) = "open"
        PROVE  r \in DOMAIN sessions' /\ SessionOf(sessions'[r], d) = "open"
    <3>1. r # s
      BY Zenon, <2>1, <2>8 DEF SessionOf
    <3> HIDE DEF p, s
    <3> QED BY Zenon, <2>5, <2>8, <3>1
  <2> QED BY Zenon, <2>1, <2>5, <2>6, <2>7, <2>8, SessionsStep, PhasesNow
<1> QED BY Zenon, <1>1, <1>2, <1>3, <1>4, <1>5, <1>6, <1>7, <1>8, <1>9 DEF SessionStep

(***************************************************************************)
(* Init and Close                                                           *)
(***************************************************************************)
\* With nothing in the instance no context holds buffers, no slot is valid and nobody
\* waits.
LEMMA EmptyInstance ==
    ASSUME ConstantsOK, CypherInvariant, in_qat_num = 0
    PROVE  /\ hw = <<>> /\ InQat = {} /\ timers = {}
           /\ \A s \in Slots : ~meta[s].valid
           /\ \A c \in DOMAIN cb_ctx : ~cb_ctx[c].bufs
<1>1. next_req_id \in Nat /\ hw \in Seq(DOMAIN cb_ctx)
  BY Zenon DEF CypherInvariant, TypeOK
<1>2. InQat = {}
  BY <1>1 DEF InQat, Oldest
<1>3. hw = <<>> /\ DOMAIN hw = {}
  BY <1>1 DEF CypherInvariant, HardwareInOrder
<1>4. timers = {} /\ \A s \in Slots : ~meta[s].valid
  BY Zenon, <1>2 DEF CypherInvariant, SlotsExact
<1>5. \A c \in DOMAIN cb_ctx : ~cb_ctx[c].bufs
  BY Zenon, <1>3 DEF CypherInvariant, HardwareInOrder
<1> QED BY Zenon, <1>2, <1>3, <1>4, <1>5

\* The pools can then get new contexts.
LEMMA ContextsRenewed ==
    ASSUME ConstantsOK, CypherInvariant, in_qat_num = 0, NEW iv \in BOOLEAN,
           cb_ctx' = [i \in DOMAIN cb_ctx |-> NewCtx(iv)],
           UNCHANGED <<reqVars, meta, cb_pool, timers, ringVars, hw>>,
           pc' \in {"idle", "close", "remove", "poll", "timeout", "pop"},
           unit_held' \in BOOLEAN, closed' \in BOOLEAN, in_cache_num' \in 0 .. BufNum,
           sessions' \in Seq(Pairs), todo' \in Seq(DOMAIN sessions'), PhasesFit'
    PROVE  CypherInvariant'
<1> USE DEF reqVars, ringVars
<1>1. /\ hw = <<>> /\ InQat = {} /\ timers = {} /\ InQat' = {}
      /\ \A s \in Slots : ~meta[s].valid
  BY Zenon, EmptyInstance DEF InQat, Oldest
<1>2. cb_ctx' \in Seq(Ctxs) /\ DOMAIN cb_ctx' = DOMAIN cb_ctx
  <2>1. NewCtx(iv) \in Ctxs
    BY Zenon DEF NewCtx, Ctxs, NumOrNone, None
  <2>2. Len(cb_ctx) \in Nat /\ DOMAIN cb_ctx = 1 .. Len(cb_ctx)
    BY DEF CypherInvariant, TypeOK
  <2>3. cb_ctx' \in [1 .. Len(cb_ctx) -> Ctxs]
    BY Zenon, <2>1, <2>2
  <2> QED BY Zenon, <2>2, <2>3, FunctionIsSeq
<1>3. TypeOK'
  BY Zenon, <1>2 DEF CypherInvariant, TypeOK
<1>4. HardwareInOrder'
  <2>1. DOMAIN hw' = {} /\ \A c \in DOMAIN cb_ctx' : cb_ctx'[c].bufs = FALSE
    BY <1>1 DEF NewCtx
  <2> QED BY Zenon, <1>1, <2>1 DEF CypherInvariant, HardwareInOrder
<1>5. SlotsExact'
  BY Zenon, <1>1 DEF CypherInvariant, SlotsExact
<1>6. RingExact' /\ PendingExactlyTimed' /\ ReceivedExact'
  BY Zenon DEF CypherInvariant, RingExact, PendingExactlyTimed, ReceivedExact
<1> QED BY Zenon, <1>3, <1>4, <1>5, <1>6 DEF CypherInvariant

\* QatCypherChannel::Init succeeds.
LEMMA InitOkPreserves ==
    ASSUME ConstantsOK, CypherInvariant, NEW hash \in BOOLEAN, InitOk(hash)
    PROVE  CypherInvariant'
<1>1. /\ pc = "idle" /\ closed /\ sessions = <<>> /\ unit_held' = TRUE /\ closed' = FALSE
      /\ sessions' = <<OpenPair(hash)>> /\ in_cache_num' = BufNum
      /\ cb_ctx' = [i \in DOMAIN cb_ctx |-> NewCtx(TRUE)]
      /\ UNCHANGED <<reqVars, meta, cb_pool, timers, ringVars, hw>>
      /\ pc' = pc /\ todo' = todo
  BY Zenon DEF InitOk, Idle
<1>2. in_qat_num = 0 /\ todo \in Seq(DOMAIN sessions) /\ UNCHANGED in_qat_num
  BY Zenon, <1>1, PhasesNow DEF reqVars
<1>3. BufNum \in Nat
  BY DEF BufNum, ConstantsOK
<1>4. OpenPair(hash) \in Pairs
  BY Zenon DEF OpenPair, Pairs
<1>5. sessions' \in Seq(Pairs) /\ sessions' # <<>>
  BY <1>1, <1>4
<1>6. todo' \in Seq(DOMAIN sessions')
  BY <1>1, <1>2
<1>7. PhasesFit'
  BY <1>1, <1>2, <1>3, <1>5 DEF PhasesFit
<1>8. in_cache_num' \in 0 .. BufNum
  BY <1>1, <1>3
<1>9. pc' = "idle" /\ unit_held' \in BOOLEAN /\ closed' \in BOOLEAN
  BY <1>1, Zenon
<1> QED BY <1>1, <1>2, <1>5, <1>6, <1>7, <1>8, <1>9, ContextsRenewed, ZenonT(40)

\* Close has closed every session: nothing is left in the instance.
LEMMA AllSessionsClosed ==
    ASSUME CypherInvariant, pc = "close", todo = <<>>
    PROVE  in_qat_num = 0
<1>1. \A s \in DOMAIN sessions : "open" \notin {sessions[s].enc, sessions[s].dec}
  BY PhasesNow
<1>2. \A s \in DOMAIN sessions : \A d : SessionOf(sessions[s], d) # "open"
  BY Zenon, <1>1 DEF SessionOf
<1>3. DOMAIN hw = {}
  BY <1>2 DEF CypherInvariant, HardwareInOrder
<1>4. hw \in Seq(DOMAIN cb_ctx) /\ Len(hw) = in_qat_num
  BY Zenon DEF CypherInvariant, TypeOK, HardwareInOrder
<1> QED BY <1>3, <1>4

\* The end of QatCypherChannel::Close.
LEMMA CloseDonePreserves ==
    ASSUME ConstantsOK, CypherInvariant, CloseDone
    PROVE  CypherInvariant'
<1>1. /\ pc = "close" /\ todo = <<>> /\ pc' = "idle" /\ closed' = TRUE /\ unit_held' = FALSE
      /\ timers' = {} /\ cb_ctx' = [i \in DOMAIN cb_ctx |-> NewCtx(FALSE)]
      /\ in_cache_num' = in_cache_num + 2 * Cardinality({i \in DOMAIN cb_ctx : cb_ctx[i].bufs})
      /\ UNCHANGED <<reqVars, meta, cb_pool, ringVars, hw, sessions, todo>>
  BY Zenon DEF CloseDone
<1>2. in_qat_num = 0 /\ UNCHANGED in_qat_num
  BY Zenon, <1>1, AllSessionsClosed DEF reqVars
<1>3. {i \in DOMAIN cb_ctx : cb_ctx[i].bufs} = {} /\ UNCHANGED timers
  BY Zenon, <1>1, <1>2, EmptyInstance
<1>4. in_cache_num \in 0 .. BufNum /\ BufNum \in Nat
  BY DEF CypherInvariant, TypeOK, BufNum, ConstantsOK
<1>5. UNCHANGED in_cache_num
  BY <1>1, <1>3, <1>4, FS_EmptySet
<1>6. /\ sessions' \in Seq(Pairs) /\ todo' \in Seq(DOMAIN sessions')
  BY Zenon, <1>1, PhasesNow
<1>7. PhasesFit'
  BY Zenon, <1>1, <1>2, <1>5, PhasesNow DEF PhasesFit
<1>8. in_cache_num' \in 0 .. BufNum /\ pc' = "idle" /\ unit_held' \in BOOLEAN /\ closed' \in BOOLEAN
  BY <1>1, <1>4, <1>5, ZenonT(40)
<1> QED BY <1>1, <1>2, <1>3, <1>6, <1>7, <1>8, ContextsRenewed, ZenonT(40)

(***************************************************************************)
(* PopResults                                                               *)
(***************************************************************************)
\* A result is there exactly if its request has no timer.
LEMMA ReadyMeansAnswered ==
    ASSUME ConstantsOK, CypherInvariant, NEW id \in head_id .. next_req_id - 1, Ready(id)
    PROVE  id \notin timers /\ ring[id % RingSize].result = [ctx |-> id, of |-> id]
<1> DEFINE k == id % RingSize
           r == ring[k].id
<1>1. /\ head_id \in Nat /\ next_req_id \in Nat /\ next_req_id - head_id <= RingSize
      /\ RingSize \in Nat \ {0} /\ id \in Nat
  BY DEF CypherInvariant, TypeOK, ConstantsOK
<1>2. k \in 0 .. RingSize - 1
  BY Zenon, <1>1, PlaceInRange
<1>3. r \in NumOrNone /\ r >= id
  BY Zenon, <1>2 DEF CypherInvariant, TypeOK, Ready
<1>4. r # None /\ r \in Nat
  BY <1>1, <1>3 DEF NumOrNone, None
<1>5. r < next_req_id /\ r % RingSize = k /\ ring[k].result = [ctx |-> r, of |-> r]
  BY Zenon, <1>2, <1>4 DEF CypherInvariant, RingExact
<1>6. r = id
  <2>1. r \in head_id .. next_req_id - 1
    BY <1>1, <1>3, <1>4, <1>5
  <2> QED BY <2>1, <1>5, PlacesDistinct, Zenon
<1> QED BY Zenon, <1>5, <1>6 DEF CypherInvariant, PendingExactlyTimed

LEMMA PopPreserves ==
    ASSUME ConstantsOK, CypherInvariant, NEW max_num \in 0 .. MaxPoll, Pop(max_num)
    PROVE  CypherInvariant'
<1> USE DEF reqVars, sessVars, poolVars
<1>1. PICK cnt \in 0 .. max_num :
        /\ pc = "pop" /\ pc' = "idle" /\ PopCount(cnt, max_num)
        /\ received' = received \o [i \in 1 .. cnt |-> ring[(head_id + i - 1) % RingSize].result]
        /\ head_id' = head_id + cnt
        /\ UNCHANGED <<reqVars, sessVars, todo, poolVars, timers, free_mem_timers, ring, hw>>
  BY Zenon DEF Pop
<1> DEFINE new == [i \in 1 .. cnt |-> ring[(head_id + i - 1) % RingSize].result]
<1>2. /\ head_id \in Nat /\ next_req_id \in Nat /\ next_req_id - head_id <= RingSize
      /\ RingSize \in Nat /\ cnt \in Nat /\ received \in Seq(Results) /\ Len(received) = head_id
      /\ head_id + cnt <= next_req_id
  BY <1>1 DEF CypherInvariant, TypeOK, ConstantsOK, ReceivedExact, PopCount
<1>3. ASSUME NEW id \in head_id .. head_id + cnt - 1
      PROVE  id \notin timers /\ ring[id % RingSize].result = [ctx |-> id, of |-> id]
  <2>1. Ready(id) /\ id \in head_id .. next_req_id - 1
    BY <1>1, <1>2 DEF PopCount
  <2> QED BY Zenon, <2>1, ReadyMeansAnswered
<1>4. \A i \in 1 .. cnt : new[i] = [ctx |-> head_id + i - 1, of |-> head_id + i - 1]
  <2> TAKE i \in 1 .. cnt
  <2>1. head_id + i - 1 \in head_id .. head_id + cnt - 1
    BY <1>2
  <2> QED BY Zenon, <2>1, <1>3
<1>5. new \in Seq(Results) /\ Len(new) = cnt
  <2>1. \A i \in 1 .. cnt : new[i] \in Results
    <3> HIDE DEF new
    <3> TAKE i \in 1 .. cnt
    <3>1. head_id + i - 1 \in NumOrNone
      BY <1>2 DEF NumOrNone
    <3>2. new[i] = [ctx |-> head_id + i - 1, of |-> head_id + i - 1]
      BY <1>4, Zenon
    <3>3. ASSUME NEW v \in NumOrNone PROVE [ctx |-> v, of |-> v] \in Results
      BY Zenon DEF Results
    <3> QED BY <3>1, <3>2, <3>3, Zenon
  <2>2. new \in [1 .. cnt -> Results]
    BY Zenon, <2>1
  <2>3. new \in Seq(Results)
    BY <1>2, <2>2, FunctionIsSeq, ZenonT(40)
  <2> QED BY <1>2, <2>3
<1>6. received' = received \o new
  BY Zenon, <1>1
<1> HIDE DEF new
<1>7. /\ received' \in Seq(Results) /\ Len(received') = head_id + cnt
      /\ \A i \in 1 .. head_id + cnt :
            received'[i] = IF i <= head_id THEN received[i] ELSE new[i - head_id]
  BY <1>2, <1>5, <1>6, ConcatProperties, ZenonT(40)
<1>8. ReceivedExact'
  <2>1. ASSUME NEW i \in 1 .. head_id + cnt PROVE received'[i] = [ctx |-> i - 1, of |-> i - 1]
    <3>1. CASE i <= head_id
      BY <1>2, <1>7, <3>1 DEF CypherInvariant, ReceivedExact
    <3>2. CASE i > head_id
      <4>1. i - head_id \in 1 .. cnt /\ head_id + (i - head_id) - 1 = i - 1
        BY <1>2, <3>2
      <4>2. received'[i] = new[i - head_id]
        BY <1>2, <1>7, <3>2
      <4> QED BY Zenon, <1>4, <4>1, <4>2
    <3> QED BY <1>2, <3>1, <3>2
  <2> QED BY Zenon, <1>1, <1>7, <2>1 DEF ReceivedExact
<1>9. PendingExactlyTimed'
  <2>1. ASSUME NEW id \in head_id .. head_id + cnt - 1 PROVE ring[id % RingSize].id = id
    <3>1. id \in head_id .. next_req_id - 1
      BY <1>2
    <3> QED BY <1>3, <3>1, Zenon DEF CypherInvariant, PendingExactlyTimed
  <2> QED BY <1>1, <1>2, <1>3, <2>1 DEF CypherInvariant, PendingExactlyTimed
<1>10. TypeOK'
  BY <1>1, <1>2, <1>7, SMTT(30) DEF CypherInvariant, TypeOK
<1>11. HardwareInOrder' /\ SlotsExact' /\ RingExact' /\ PhasesFit'
  BY <1>1 DEF CypherInvariant, HardwareInOrder, SlotsExact, RingExact, PhasesFit, InQat, Oldest,
              CtxOf
<1> QED BY Zenon, <1>8, <1>9, <1>10, <1>11 DEF CypherInvariant

(***************************************************************************)
(* SubmitAsync                                                              *)
(***************************************************************************)
\* The counters and the requests in the instance.
CountersFit ==
    /\ next_req_id \in Nat /\ in_qat_num \in Nat /\ in_qat_num <= MaxInQat
    /\ in_qat_num <= next_req_id /\ Oldest \in Nat /\ Oldest = next_req_id - in_qat_num
    /\ head_id \in Nat /\ head_id <= next_req_id /\ next_req_id - head_id <= RingSize
    /\ Len(hw) = in_qat_num /\ DOMAIN hw = 1 .. in_qat_num
    /\ hw \in Seq(DOMAIN cb_ctx) /\ DOMAIN cb_ctx = 1 .. Len(cb_ctx) /\ Len(cb_ctx) \in Nat
    /\ BufNum \in Nat /\ in_cache_num \in Nat
    /\ MaxInQat \in Nat /\ RingSize \in Nat \ {0}

LEMMA Counters ==
    ASSUME ConstantsOK, CypherInvariant
    PROVE  CountersFit
<1>1. BufNum \in Nat
  BY DEF BufNum, ConstantsOK
<1> QED BY <1>1 DEF CountersFit, CypherInvariant, TypeOK, HardwareInOrder, ConstantsOK, Oldest

\* A request in the instance has its own context there.
LEMMA ContextOfRequest ==
    ASSUME ConstantsOK, CypherInvariant, NEW id \in InQat
    PROVE  /\ id \in Nat /\ id - Oldest + 1 \in DOMAIN hw /\ CtxOf(id) \in DOMAIN cb_ctx
           /\ cb_ctx[CtxOf(id)].req_id = id /\ Slot(id) \in Slots
<1>0. CountersFit
  BY Zenon, Counters
<1>1. id \in Nat /\ id - Oldest + 1 \in DOMAIN hw
  BY <1>0 DEF CountersFit, InQat, Oldest
<1>2. CtxOf(id) \in DOMAIN cb_ctx
  BY <1>0, <1>1 DEF CountersFit, CtxOf
<1>3. cb_ctx[CtxOf(id)].req_id = Oldest + (id - Oldest + 1) - 1
  BY Zenon, <1>1 DEF CypherInvariant, HardwareInOrder, CtxOf
<1>4. Slot(id) \in Slots
  BY Zenon, <1>1, SlotInRange
<1> QED BY <1>0, <1>1, <1>2, <1>3, <1>4 DEF CountersFit

\* No two requests in the instance have the same one.
LEMMA ContextsDistinct ==
    ASSUME ConstantsOK, CypherInvariant, NEW i \in DOMAIN hw, NEW j \in DOMAIN hw, hw[i] = hw[j]
    PROVE  i = j
<1>0. CountersFit
  BY Zenon, Counters
<1>1. cb_ctx[hw[i]].req_id = Oldest + i - 1 /\ cb_ctx[hw[j]].req_id = Oldest + j - 1
  BY Zenon DEF CypherInvariant, HardwareInOrder
<1>2. Oldest + i - 1 = Oldest + j - 1
  BY <1>1, Zenon
<1> QED BY <1>0, <1>2 DEF CountersFit

\* The context of the next slot is in no use.
LEMMA NextContextFree ==
    ASSUME ConstantsOK, CypherInvariant, in_qat_num < MaxInQat
    PROVE  LET c == cb_pool[Slot(next_req_id)]
           IN  /\ Slot(next_req_id) \in Slots /\ c \in DOMAIN cb_ctx
               /\ \A i \in DOMAIN hw : hw[i] # c
               /\ ~cb_ctx[c].bufs
<1>0. CountersFit
  BY Zenon, Counters
<1> DEFINE s == Slot(next_req_id)
           c == cb_pool[s]
<1>1. s \in Slots /\ c \in DOMAIN cb_ctx
  BY <1>0, SlotInRange, ZenonT(40) DEF CountersFit, CypherInvariant, TypeOK
<1>2. ASSUME NEW i \in DOMAIN hw, hw[i] = c PROVE FALSE
  <2> DEFINE id == Oldest + i - 1
  <2>0. id \in InQat /\ id - Oldest + 1 = i
    BY <1>0, <1>2 DEF CountersFit, InQat
  <2> HIDE DEF id
  <2>1. id \in InQat /\ CtxOf(id) = c
    BY <1>2, <2>0, Zenon DEF CtxOf
  <2>2. s = Slot(id)
    BY Zenon, <1>1, <2>1 DEF CypherInvariant, SlotsExact
  <2>3. id = next_req_id
    BY Zenon, <2>1, <2>2, SlotsDistinct
  <2> QED BY <1>0, <2>1, <2>3 DEF CountersFit, InQat
<1>3. ~cb_ctx[c].bufs
  BY Zenon, <1>1, <1>2 DEF CypherInvariant, HardwareInOrder
<1> QED BY Zenon, <1>1, <1>2, <1>3

\* The driver refuses: the context, which nobody uses, is reset.
LEMMA SubmitFailsPreserves ==
    ASSUME ConstantsOK, CypherInvariant, NEW s \in DOMAIN sessions, NEW op \in {"enc", "dec"},
           SubmitFails(s, op)
    PROVE  CypherInvariant'
<1>0. CountersFit
  BY Zenon, Counters
<1> USE DEF reqVars, sessVars, ringVars
<1> DEFINE c == cb_pool[Slot(next_req_id)]
           new == NewCtx(cb_ctx[c].iv)
<1>1. /\ in_qat_num # MaxInQat /\ cb_ctx' = [cb_ctx EXCEPT ![c] = new]
      /\ UNCHANGED <<pc, reqVars, sessVars, todo, meta, cb_pool, in_cache_num, timers, ringVars, hw>>
  BY Zenon DEF SubmitFails, CanSubmit, IsChannelFull
<1>2. /\ c \in DOMAIN cb_ctx /\ ~cb_ctx[c].bufs /\ \A i \in DOMAIN hw : hw[i] # c
  BY <1>0, <1>1, NextContextFree DEF CountersFit
<1>3. new \in Ctxs /\ new.bufs = FALSE
  <2>1. cb_ctx[c] \in Ctxs
    BY <1>2 DEF CypherInvariant, TypeOK
  <2>2. cb_ctx[c].iv \in BOOLEAN
    BY Zenon, <2>1 DEF Ctxs
  <2> QED BY Zenon, <2>2 DEF NewCtx, Ctxs, NumOrNone, None
<1> HIDE DEF new, c
<1>4. /\ cb_ctx' \in Seq(Ctxs) /\ DOMAIN cb_ctx' = DOMAIN cb_ctx
      /\ cb_ctx'[c] = new /\ \A d \in DOMAIN cb_ctx : d # c => cb_ctx'[d] = cb_ctx[d]
  BY <1>1, <1>2, <1>3 DEF CypherInvariant, TypeOK
<1>5. TypeOK'
  BY Zenon, <1>1, <1>4 DEF CypherInvariant, TypeOK
<1>6. Oldest' = Oldest /\ InQat' = InQat
  BY Zenon, <1>1 DEF Oldest, InQat
<1>7. HardwareInOrder'
  <2>1. ASSUME NEW i \in DOMAIN hw PROVE cb_ctx'[hw[i]] = cb_ctx[hw[i]]
    BY <1>0, <1>2, <1>4 DEF CountersFit
  <2>2. ASSUME NEW d \in DOMAIN cb_ctx PROVE cb_ctx'[d].bufs <=> \E i \in DOMAIN hw : hw[i] = d
    <3>1. CASE d = c
      BY Zenon, <1>2, <1>3, <1>4, <3>1
    <3>2. CASE d # c
      BY Zenon, <1>4, <3>2 DEF CypherInvariant, HardwareInOrder
    <3> QED BY Zenon, <3>1, <3>2
  <2> QED BY <1>1, <1>4, <1>6, <2>1, <2>2 DEF CypherInvariant, HardwareInOrder
<1>8. SlotsExact'
  BY Zenon, <1>1, <1>6 DEF CypherInvariant, SlotsExact, CtxOf
<1>9. RingExact' /\ PendingExactlyTimed' /\ ReceivedExact' /\ PhasesFit'
  BY Zenon, <1>1 DEF CypherInvariant, RingExact, PendingExactlyTimed, ReceivedExact, PhasesFit
<1> QED BY Zenon, <1>5, <1>7, <1>8, <1>9 DEF CypherInvariant

\* The request is in the instance.
LEMMA SubmitOkPreserves ==
    ASSUME ConstantsOK, CypherInvariant, NEW s \in DOMAIN sessions, NEW op \in {"enc", "dec"},
           SubmitOk(s, op)
    PROVE  CypherInvariant'
<1>0. CountersFit
  BY Counters
<1> USE DEF reqVars, sessVars, ringVars
<1> DEFINE id == next_req_id
           slot == Slot(id)
           c == cb_pool[slot]
           new == [cb_ctx[c] EXCEPT !.req_id = id, !.bufs = TRUE, !.sess = Target(s, op)]
           n == in_qat_num
<1>1. /\ ~closed /\ n # MaxInQat /\ id - head_id # RingSize /\ in_cache_num >= 2
      /\ pc = "idle" /\ SessionOf(sessions[s], Target(s, op)[2]) = "open"
      /\ in_cache_num' = in_cache_num - 2
      /\ meta' = [meta EXCEPT ![slot] = [req_id |-> id, valid |-> TRUE]]
      /\ timers' = timers \cup {id} /\ hw' = Append(hw, c)
      /\ next_req_id' = id + 1 /\ in_qat_num' = n + 1
      /\ UNCHANGED <<pc, sessVars, todo, cb_pool, ringVars>>
  BY Zenon DEF SubmitOk, CanSubmit, IsChannelFull, RingFull, Open, Idle, Submittable
<1>2. /\ slot \in Slots /\ c \in DOMAIN cb_ctx /\ ~cb_ctx[c].bufs /\ \A i \in DOMAIN hw : hw[i] # c
  BY <1>0, <1>1, NextContextFree DEF CountersFit
<1>3. cb_ctx[c] \in Ctxs
  BY <1>2 DEF CypherInvariant, TypeOK
<1>4. Target(s, op)[1] = s /\ Target(s, op)[2] \in {"enc", "dec"} /\ s \in Nat
      /\ Target(s, op) \in NumOrNone \X {"enc", "dec"}
  BY PhasesNow DEF Target, NumOrNone
<1>5. /\ new \in Ctxs /\ new.req_id = id /\ new.bufs = TRUE /\ new.sess = Target(s, op)
  BY <1>0, <1>3, <1>4, ZenonT(40) DEF CountersFit, Ctxs, NumOrNone
<1>6. cb_ctx' = [cb_ctx EXCEPT ![c] = new]
  BY <1>2, <1>3, ZenonT(40) DEF SubmitOk, Ctxs
<1> HIDE DEF new, c
<1>7. /\ cb_ctx' \in Seq(Ctxs) /\ DOMAIN cb_ctx' = DOMAIN cb_ctx
      /\ cb_ctx'[c] = new /\ \A d \in DOMAIN cb_ctx : d # c => cb_ctx'[d] = cb_ctx[d]
  BY SMTT(30), <1>2, <1>5, <1>6 DEF CypherInvariant, TypeOK
<1>8. /\ hw' \in Seq(DOMAIN cb_ctx) /\ Len(hw') = n + 1 /\ DOMAIN hw' = 1 .. n + 1
      /\ hw'[n + 1] = c /\ \A i \in DOMAIN hw : hw'[i] = hw[i]
  BY <1>0, <1>1, <1>2, AppendProperties DEF CountersFit
<1>9. /\ Oldest' = Oldest /\ InQat' = InQat \cup {id} /\ id \notin InQat
      /\ id - Oldest + 1 = n + 1
  BY <1>0, <1>1 DEF CountersFit, Oldest, InQat
<1>10. TypeOK'
  <2>1. meta' \in [Slots -> [req_id : NumOrNone, valid : BOOLEAN]]
    BY <1>0, <1>1, ZenonT(40) DEF CountersFit, CypherInvariant, TypeOK, NumOrNone
  <2>2. in_cache_num' \in 0 .. BufNum /\ in_qat_num' \in 0 .. MaxInQat
    BY <1>0, <1>1 DEF CountersFit, CypherInvariant, TypeOK
  <2>3. next_req_id' \in Nat /\ head_id' \in 0 .. next_req_id' /\ next_req_id' - head_id' <= RingSize
    BY <1>0, <1>1 DEF CountersFit
  <2>4. timers' \subseteq Nat
    BY Zenon, <1>0, <1>1 DEF CountersFit, CypherInvariant, TypeOK
  <2> QED BY Zenon, <1>1, <1>7, <1>8, <2>1, <2>2, <2>3, <2>4 DEF CypherInvariant, TypeOK
<1>11. HardwareInOrder'
  <2>1. ASSUME NEW i \in DOMAIN hw'
        PROVE  LET d == cb_ctx'[hw'[i]]
               IN  /\ d.req_id = Oldest + i - 1 /\ d.sess[1] \in DOMAIN sessions
                   /\ SessionOf(sessions[d.sess[1]], d.sess[2]) = "open"
    <3>1. CASE i \in DOMAIN hw
      <4>1. cb_ctx'[hw'[i]] = cb_ctx[hw[i]]
        BY <1>0, <1>2, <1>7, <1>8, <3>1 DEF CountersFit
      <4> QED BY Zenon, <3>1, <4>1 DEF CypherInvariant, HardwareInOrder
    <3>2. CASE i = n + 1
      <4>1. cb_ctx'[hw'[i]] = new
        BY <1>7, <1>8, <3>2, Zenon
      <4>2. Oldest + i - 1 = id
        BY <1>0, <3>2 DEF CountersFit
      <4> QED BY <1>1, <1>4, <1>5, <4>1, <4>2, Zenon
    <3> QED BY <1>0, <1>8, <3>1, <3>2 DEF CountersFit
  <2>2. ASSUME NEW d \in DOMAIN cb_ctx
        PROVE  cb_ctx'[d].bufs <=> \E i \in DOMAIN hw' : hw'[i] = d
    <3>1. CASE d = c
      <4>1. n + 1 \in DOMAIN hw'
        BY <1>0, <1>8 DEF CountersFit
      <4> QED BY <1>5, <1>7, <1>8, <3>1, <4>1, Zenon
    <3>2. CASE d # c
      <4>1. cb_ctx'[d].bufs <=> \E i \in DOMAIN hw : hw[i] = d
        BY <1>7, <3>2 DEF CypherInvariant, HardwareInOrder
      <4>2. DOMAIN hw' = DOMAIN hw \cup {n + 1}
        BY <1>0, <1>8, SMTT(30) DEF CountersFit
      <4> QED BY <1>8, <3>2, <4>1, <4>2, Zenon
    <3> QED BY Zenon, <3>1, <3>2
  <2>3. in_qat_num' <= next_req_id' /\ Len(hw') = in_qat_num'
    BY <1>0, <1>1, <1>8 DEF CountersFit
  <2> QED BY Zenon, <1>1, <1>7, <1>9, <2>1, <2>2, <2>3 DEF HardwareInOrder
<1>12. ASSUME NEW a \in InQat PROVE Slot(a) # slot /\ Slot(a) \in Slots /\ CtxOf(a)' = CtxOf(a)
  <2>1. Slot(a) # slot
    BY <1>0, <1>1, <1>9, SlotsDistinct DEF CountersFit
  <2>2. CtxOf(a)' = CtxOf(a)
    BY Zenon, <1>8, <1>9, ContextOfRequest DEF CtxOf
  <2> QED BY Zenon, <2>1, <2>2, ContextOfRequest
<1>13. SlotsExact'
  <2>1. ASSUME NEW r \in Slots
        PROVE  meta'[r] = IF r = slot THEN [req_id |-> id, valid |-> TRUE] ELSE meta[r]
    BY Zenon, <1>1 DEF CypherInvariant, TypeOK
  <2>2. meta'[slot].req_id = id /\ meta'[slot].valid = TRUE
    BY <1>2, <2>1
  <2>3. \A a \in InQat' : meta'[Slot(a)].req_id = a
    BY Zenon, <1>9, <1>12, <2>1, <2>2 DEF CypherInvariant, SlotsExact
  <2>4. \A r \in Slots : meta'[r].valid => \E a \in InQat' : Slot(a) = r
    BY Zenon, <1>9, <2>1 DEF CypherInvariant, SlotsExact
  <2>5. ASSUME NEW a \in InQat', NEW r \in Slots
        PROVE  cb_pool[r] = CtxOf(a)' <=> r = Slot(a) /\ meta'[r].valid
    <3>1. CASE a \in InQat
      <4>1. CtxOf(a) # c
        BY Zenon, <1>2, <3>1, ContextOfRequest DEF CtxOf
      <4>2. cb_pool[r] = CtxOf(a) <=> r = Slot(a) /\ meta[r].valid
        BY Zenon, <3>1 DEF CypherInvariant, SlotsExact
      <4> QED BY Zenon, <1>12, <2>1, <3>1, <4>1, <4>2 DEF c
    <3>2. CASE a = id
      <4>1. CtxOf(a)' = c
        BY Zenon, <1>8, <1>9, <3>2 DEF CtxOf
      <4>2. cb_pool[r] = c <=> r = slot
        BY Zenon, <1>2 DEF CypherInvariant, SlotsExact, c
      <4> QED BY Zenon, <2>2, <3>2, <4>1, <4>2
    <3> QED BY Zenon, <1>9, <3>1, <3>2
  <2>6. timers' = {a \in InQat' : meta'[Slot(a)].valid}
    <3>1. timers = {a \in InQat : meta[Slot(a)].valid}
      BY Zenon DEF CypherInvariant, SlotsExact
    <3>2. ASSUME NEW a \in InQat PROVE meta'[Slot(a)] = meta[Slot(a)]
      BY Zenon, <1>12, <2>1
    <3> QED BY Zenon, <1>1, <1>9, <2>2, <3>1, <3>2
  <2> QED BY <1>1, <2>3, <2>4, <2>5, <2>6 DEF CypherInvariant, SlotsExact
<1>14. RingExact'
  BY <1>0, <1>1, SMTT(30) DEF CountersFit, CypherInvariant, RingExact, TypeOK, NumOrNone, None
<1>15. PendingExactlyTimed'
  <2>1. head_id .. next_req_id' - 1 = (head_id .. id - 1) \cup {id}
    BY <1>0, <1>1 DEF CountersFit
  <2>2. ring[id % RingSize].id # id
    <3>1. id \in Nat /\ id # None /\ ~(id < id)
      BY <1>0 DEF CountersFit, None
    <3>2. id % RingSize \in 0 .. RingSize - 1
      BY <3>1, PlaceInRange, Zenon
    <3> QED BY <3>1, <3>2, Zenon DEF CypherInvariant, RingExact
  <2>3. timers = {a \in head_id .. id - 1 : ring[a % RingSize].id # a}
    BY Zenon DEF CypherInvariant, PendingExactlyTimed
  <2> QED BY Zenon, <1>1, <2>1, <2>2, <2>3 DEF PendingExactlyTimed
<1>16. ReceivedExact'
  BY Zenon, <1>1 DEF CypherInvariant, ReceivedExact
<1>17. PhasesFit'
  <2>1. in_cache_num' + 2 * in_qat_num' = in_cache_num + 2 * in_qat_num
    BY <1>0, <1>1 DEF CountersFit
  <2>2. UNCHANGED <<pc, unit_held, closed, sessions>> /\ ~closed /\ pc # "close"
    BY <1>1
  <2> QED BY Zenon, <2>1, <2>2, PhasesNow DEF PhasesFit
<1> QED BY Zenon, <1>10, <1>11, <1>13, <1>14, <1>15, <1>16, <1>17 DEF CypherInvariant

(***************************************************************************)
(* Answers                                                                  *)
(***************************************************************************)
\* A result in the place of a request not polled makes it answered, and no other.
LEMMA ResultPushed ==
    ASSUME ConstantsOK, CypherInvariant, NEW id \in InQat, id \in timers,
           UNCHANGED <<next_req_id, head_id>>, timers' = timers \ {id},
           PushResult(id, [ctx |-> id, of |-> id])
    PROVE  /\ ring' \in [0 .. RingSize - 1 -> [result : Results, id : NumOrNone]]
           /\ RingExact' /\ PendingExactlyTimed'
<1>0. CountersFit
  BY Zenon, Counters
<1> DEFINE k == id % RingSize
           place == [result |-> [ctx |-> id, of |-> id], id |-> id]
<1>1. id \in Nat /\ id < next_req_id /\ id # None /\ id \in head_id .. next_req_id - 1
      /\ k \in 0 .. RingSize - 1
  <2>1. id \in head_id .. next_req_id - 1
    BY Zenon DEF CypherInvariant, PendingExactlyTimed
  <2> QED BY <1>0, <2>1, PlaceInRange DEF CountersFit, None
<1>2. ring \in [0 .. RingSize - 1 -> [result : Results, id : NumOrNone]]
  BY Zenon DEF CypherInvariant, TypeOK
<1>3. place \in [result : Results, id : NumOrNone] /\ place.id = id
      /\ place.result = [ctx |-> id, of |-> id]
  BY Zenon, <1>1 DEF Results, NumOrNone
<1>4. ring' = [ring EXCEPT ![k] = place]
  BY Zenon DEF PushResult
<1> HIDE DEF place, k
<1>5. ring' \in [0 .. RingSize - 1 -> [result : Results, id : NumOrNone]]
      /\ \A j \in 0 .. RingSize - 1 : ring'[j] = IF j = k THEN place ELSE ring[j]
  BY Zenon, <1>1, <1>2, <1>3, <1>4
<1>6. RingExact'
  <2>1. ASSUME NEW j \in 0 .. RingSize - 1, ring'[j].id # None
        PROVE  /\ ring'[j].id < next_req_id /\ ring'[j].id % RingSize = j
               /\ ring'[j].result = [ctx |-> ring'[j].id, of |-> ring'[j].id]
    <3>1. CASE j = k
      BY <1>1, <1>3, <1>5, <3>1, Zenon DEF k
    <3>2. CASE j # k
      BY <1>5, <2>1, <3>2, Zenon DEF CypherInvariant, RingExact
    <3> QED BY Zenon, <3>1, <3>2
  <2> QED BY <2>1, Zenon DEF RingExact
<1>7. PendingExactlyTimed'
  <2>1. ASSUME NEW a \in head_id .. next_req_id - 1
        PROVE  ring'[a % RingSize].id # a <=> ring[a % RingSize].id # a /\ a # id
    <3>0. a \in Nat
      BY <1>0 DEF CountersFit
    <3>1. a % RingSize \in 0 .. RingSize - 1
      BY <3>0, PlaceInRange, Zenon
    <3>2. CASE a % RingSize = k
      <4>1. a = id
        BY <1>1, <3>2, PlacesDistinct, Zenon DEF k
      <4> QED BY <1>3, <1>5, <3>1, <3>2, <4>1, Zenon
    <3>3. CASE a % RingSize # k
      BY <1>5, <3>1, <3>3, Zenon DEF k
    <3> QED BY Zenon, <3>2, <3>3
  <2>2. timers = {a \in head_id .. next_req_id - 1 : ring[a % RingSize].id # a}
    BY Zenon DEF CypherInvariant, PendingExactlyTimed
  <2> QED BY <2>1, <2>2, Zenon DEF PendingExactlyTimed
<1> QED BY Zenon, <1>5, <1>6, <1>7

\* A request that times out gets a result, and its slot a new context; the old one stays
\* with the hardware, and so do its buffers.
LEMMA RequestTimeoutPreserves ==
    ASSUME ConstantsOK, CypherInvariant, RequestTimeout
    PROVE  CypherInvariant'
<1>0. CountersFit
  BY Zenon, Counters
<1> USE DEF reqVars, sessVars
<1>1. PICK id \in timers :
        /\ pc = "timeout" /\ timers' = timers \ {id}
        /\ meta' = [meta EXCEPT ![Slot(id)].valid = FALSE]
        /\ PushResult(meta[Slot(id)].req_id,
                      [ctx |-> meta[Slot(id)].req_id, of |-> meta[Slot(id)].req_id])
        /\ ReplaceNewRequestCbContext(Slot(id))
        /\ UNCHANGED <<pc, reqVars, sessVars, todo, in_cache_num, head_id, received, hw>>
  BY ZenonT(40) DEF RequestTimeout
<1> DEFINE s == Slot(id)
           n == Len(cb_ctx) + 1
<1>2. id \in InQat /\ meta[s].valid /\ meta[s].req_id = id
  BY Zenon, <1>1 DEF CypherInvariant, SlotsExact
<1>3. s \in Slots /\ id \in Nat
  BY Zenon, <1>2, ContextOfRequest
<1>4. /\ ring' \in [0 .. RingSize - 1 -> [result : Results, id : NumOrNone]]
      /\ RingExact' /\ PendingExactlyTimed'
  BY Zenon, <1>1, <1>2, ResultPushed
<1>5. /\ cb_ctx' = Append(cb_ctx, NewCtx(FALSE)) /\ cb_pool' = [cb_pool EXCEPT ![s] = n]
  BY Zenon, <1>1 DEF ReplaceNewRequestCbContext
<1>6. NewCtx(FALSE) \in Ctxs /\ NewCtx(FALSE).bufs = FALSE
  BY Zenon DEF NewCtx, Ctxs, NumOrNone, None
<1>7. /\ cb_ctx' \in Seq(Ctxs) /\ DOMAIN cb_ctx' = DOMAIN cb_ctx \cup {n} /\ n \notin DOMAIN cb_ctx
      /\ cb_ctx'[n] = NewCtx(FALSE) /\ \A d \in DOMAIN cb_ctx : cb_ctx'[d] = cb_ctx[d]
  <2>1. cb_ctx \in Seq(Ctxs)
    BY Zenon DEF CypherInvariant, TypeOK
  <2>2. /\ cb_ctx' \in Seq(Ctxs) /\ Len(cb_ctx') = n /\ cb_ctx'[n] = NewCtx(FALSE)
        /\ \A i \in 1 .. Len(cb_ctx) : cb_ctx'[i] = cb_ctx[i]
    <3>1. \A e \in Ctxs :
            /\ Append(cb_ctx, e) \in Seq(Ctxs) /\ Len(Append(cb_ctx, e)) = Len(cb_ctx) + 1
            /\ Append(cb_ctx, e)[Len(cb_ctx) + 1] = e
            /\ \A i \in 1 .. Len(cb_ctx) : Append(cb_ctx, e)[i] = cb_ctx[i]
      BY <2>1, AppendProperties
    <3> QED BY <1>5, <1>6, <3>1, Zenon
  <2>3. DOMAIN cb_ctx' = 1 .. Len(cb_ctx')
    BY <2>2
  <2> QED BY <1>0, <2>2, <2>3 DEF CountersFit
<1> HIDE DEF n, s
<1>8. /\ cb_pool \in [Slots -> DOMAIN cb_ctx]
      /\ cb_pool' \in [Slots -> DOMAIN cb_ctx']
      /\ \A r \in Slots : cb_pool'[r] = IF r = s THEN n ELSE cb_pool[r]
  <2>1. cb_pool \in [Slots -> DOMAIN cb_ctx]
    BY Zenon DEF CypherInvariant, TypeOK
  <2> QED BY Zenon, <1>3, <1>5, <1>7, <2>1
<1>9. /\ meta' \in [Slots -> [req_id : NumOrNone, valid : BOOLEAN]]
      /\ meta'[s].valid = FALSE /\ meta'[s].req_id = id
      /\ \A r \in Slots : r # s => meta'[r] = meta[r]
  <2>1. meta \in [Slots -> [req_id : NumOrNone, valid : BOOLEAN]]
    BY Zenon DEF CypherInvariant, TypeOK
  <2> QED BY <1>1, <1>2, <1>3, <2>1, ZenonT(40) DEF s
<1>10. Oldest' = Oldest /\ InQat' = InQat
  BY Zenon, <1>1 DEF Oldest, InQat
<1>11. ASSUME NEW a \in InQat
       PROVE  /\ CtxOf(a)' = CtxOf(a) /\ CtxOf(a) \in DOMAIN cb_ctx /\ Slot(a) \in Slots
              /\ meta'[Slot(a)].req_id = a
              /\ meta'[Slot(a)].valid <=> meta[Slot(a)].valid /\ a # id
  <2>1. CtxOf(a)' = CtxOf(a)
    BY Zenon, <1>1, <1>10 DEF CtxOf
  <2>2. CtxOf(a) \in DOMAIN cb_ctx /\ Slot(a) \in Slots
    BY Zenon, ContextOfRequest
  <2>3. meta[Slot(a)].req_id = a
    BY Zenon DEF CypherInvariant, SlotsExact
  <2>4. CASE Slot(a) = s
    <3>1. a = id
      BY Zenon, <1>2, <2>3, <2>4
    <3> QED BY <1>9, <2>1, <2>2, <2>4, <3>1, Zenon
  <2>5. CASE Slot(a) # s
    BY <1>9, <2>1, <2>2, <2>3, <2>5, Zenon DEF s
  <2> QED BY Zenon, <2>4, <2>5
<1>12. TypeOK'
  <2>1. hw \in Seq(DOMAIN cb_ctx')
    BY <1>0, <1>7 DEF CountersFit
  <2>2. timers' \subseteq Nat
    BY Zenon, <1>1 DEF CypherInvariant, TypeOK
  <2> QED BY Zenon, <1>1, <1>4, <1>7, <1>8, <1>9, <2>1, <2>2 DEF CypherInvariant, TypeOK
<1>13. HardwareInOrder'
  <2>1. ASSUME NEW i \in DOMAIN hw PROVE hw[i] \in DOMAIN cb_ctx /\ cb_ctx'[hw[i]] = cb_ctx[hw[i]]
    BY <1>0, <1>7 DEF CountersFit
  <2>2. ASSUME NEW d \in DOMAIN cb_ctx' PROVE cb_ctx'[d].bufs <=> \E i \in DOMAIN hw : hw[i] = d
    <3>1. CASE d = n
      BY <1>6, <1>7, <2>1, <3>1, Zenon
    <3>2. CASE d \in DOMAIN cb_ctx
      BY <1>7, <3>2, Zenon DEF CypherInvariant, HardwareInOrder
    <3> QED BY Zenon, <1>7, <3>1, <3>2
  <2> QED BY Zenon, <1>1, <1>10, <2>1, <2>2 DEF CypherInvariant, HardwareInOrder
<1>14. SlotsExact'
  <2>1. \A r, q \in Slots : cb_pool'[r] = cb_pool'[q] => r = q
    <3>1. \A r \in Slots : cb_pool[r] # n
      BY <1>7, <1>8
    <3> QED BY ZenonT(40), <1>8, <3>1 DEF CypherInvariant, SlotsExact
  <2>2. ASSUME NEW r \in Slots, meta'[r].valid PROVE \E a \in InQat : Slot(a) = r
    BY Zenon, <1>9, <2>2 DEF CypherInvariant, SlotsExact
  <2>3. ASSUME NEW a \in InQat, NEW r \in Slots
        PROVE  cb_pool'[r] = CtxOf(a) <=> r = Slot(a) /\ meta'[r].valid
    <3>1. cb_pool[r] = CtxOf(a) <=> r = Slot(a) /\ meta[r].valid
      BY Zenon DEF CypherInvariant, SlotsExact
    <3>2. CASE r = s
      <4>1. cb_pool'[r] = n /\ n # CtxOf(a) /\ ~meta'[r].valid
        BY Zenon, <1>7, <1>8, <1>9, <1>11, <3>2
      <4> QED BY Zenon, <4>1
    <3>3. CASE r # s
      BY Zenon, <1>8, <1>9, <3>1, <3>3
    <3> QED BY Zenon, <3>2, <3>3
  <2>4. timers' = {a \in InQat : meta'[Slot(a)].valid}
    <3>1. timers = {a \in InQat : meta[Slot(a)].valid}
      BY Zenon DEF CypherInvariant, SlotsExact
    <3> QED BY <1>1, <1>11, <3>1, Zenon
  <2> QED BY <1>10, <1>11, <2>1, <2>2, <2>3, <2>4 DEF SlotsExact
<1>15. ReceivedExact' /\ PhasesFit'
  BY Zenon, <1>1 DEF CypherInvariant, ReceivedExact, PhasesFit
<1> QED BY Zenon, <1>4, <1>12, <1>13, <1>14, <1>15 DEF CypherInvariant

\* The oldest context leaves the instance and is reset, its buffers go back to the cache.
LEMMA CyCallbackPreserves ==
    ASSUME ConstantsOK, CypherInvariant, CyCallback
    PROVE  CypherInvariant'
<1>0. CountersFit
  BY Counters
<1> USE DEF sessVars
<1> DEFINE id == Oldest
           c == CtxOf(id)
           s == Slot(id)
           n == in_qat_num
           new == NewCtx(cb_ctx[c].iv)
<1>1. hw # <<>> /\ hw' = Tail(hw) /\ in_qat_num' = n - 1 /\ pc \in {"poll", "close", "remove"}
      /\ UNCHANGED <<pc, next_req_id, sessVars, todo, cb_pool, head_id, received>>
  BY Zenon DEF CyCallback
<1>2. n >= 1 /\ id \in InQat /\ id \in Nat /\ Head(hw) = hw[1] /\ id - Oldest + 1 = 1
  BY <1>0, <1>1 DEF CountersFit, InQat
<1>3. c = Head(hw) /\ c = hw[1] /\ c \in DOMAIN cb_ctx /\ cb_ctx[c].req_id = id /\ s \in Slots
      /\ meta[s].req_id = id
  <2>1. c = hw[1]
    BY <1>2, Zenon DEF CtxOf
  <2> QED BY Zenon, <1>2, <2>1, ContextOfRequest DEF CypherInvariant, SlotsExact
<1>4. cb_ctx[c].bufs /\ cb_ctx[c] \in Ctxs
  <2>1. 1 \in DOMAIN hw
    BY <1>0, <1>2 DEF CountersFit
  <2>2. cb_ctx[c].bufs
    BY <1>3, <2>1, Zenon DEF CypherInvariant, HardwareInOrder
  <2>3. cb_ctx \in Seq(Ctxs)
    BY Zenon DEF CypherInvariant, TypeOK
  <2> QED BY <1>3, <2>2, <2>3
<1>5. /\ cb_ctx' = [cb_ctx EXCEPT ![c] = new] /\ in_cache_num' = in_cache_num + 2
      /\ \/ /\ meta[s].valid /\ PushResult(id, [ctx |-> id, of |-> id])
            /\ meta' = [meta EXCEPT ![s].valid = FALSE] /\ timers' = timers \ {id}
         \/ ~meta[s].valid /\ UNCHANGED <<ring, meta, timers>>
  BY Zenon, <1>3, <1>4 DEF CyCallback, ResetCtx
<1>6. new \in Ctxs /\ new.bufs = FALSE
  <2>1. cb_ctx[c].iv \in BOOLEAN
    BY Zenon, <1>4 DEF Ctxs
  <2> QED BY Zenon, <2>1 DEF NewCtx, Ctxs, NumOrNone, None
<1> HIDE DEF new, c, s
<1>7. /\ cb_ctx' \in Seq(Ctxs) /\ DOMAIN cb_ctx' = DOMAIN cb_ctx
      /\ cb_ctx'[c] = new /\ \A d \in DOMAIN cb_ctx : d # c => cb_ctx'[d] = cb_ctx[d]
  BY SMTT(30), <1>3, <1>5, <1>6 DEF CypherInvariant, TypeOK
<1>8. /\ hw' \in Seq(DOMAIN cb_ctx) /\ Len(hw') = n - 1 /\ DOMAIN hw' = 1 .. n - 1
      /\ \A i \in 1 .. n - 1 : hw'[i] = hw[i + 1]
  BY <1>0, <1>1, <1>2 DEF CountersFit
<1>9. /\ Oldest' = id + 1 /\ InQat = InQat' \cup {id} /\ id \notin InQat'
  <2>1. Oldest' = id + 1
    BY <1>0, <1>1 DEF CountersFit, Oldest
  <2>2. InQat = id .. next_req_id - 1
    BY Zenon DEF InQat
  <2>3. InQat' = id + 1 .. next_req_id - 1
    BY Zenon, <1>1, <2>1 DEF InQat
  <2> QED BY <1>0, <1>2, <2>1, <2>2, <2>3 DEF CountersFit
<1>10. \A i, j \in DOMAIN hw : hw[i] = hw[j] => i = j
  BY ContextsDistinct, Zenon
<1>11. ASSUME NEW i \in DOMAIN hw'
       PROVE  /\ i + 1 \in DOMAIN hw /\ hw'[i] = hw[i + 1] /\ hw'[i] # c
              /\ hw'[i] \in DOMAIN cb_ctx /\ cb_ctx'[hw'[i]] = cb_ctx[hw[i + 1]]
              /\ Oldest' + i - 1 = Oldest + (i + 1) - 1
  <2>1. i + 1 \in DOMAIN hw /\ hw'[i] = hw[i + 1] /\ 1 \in DOMAIN hw /\ i + 1 # 1
        /\ Oldest' + i - 1 = Oldest + (i + 1) - 1
    <3>1. i \in 1 .. n - 1 /\ n \in Nat
      BY Zenon, <1>0, <1>8 DEF CountersFit
    <3>2. hw'[i] = hw[i + 1]
      BY <1>8, <3>1, Zenon
    <3>3. i + 1 \in DOMAIN hw /\ 1 \in DOMAIN hw /\ i + 1 # 1
      BY <1>0, <3>1 DEF CountersFit
    <3>4. Oldest' + i - 1 = Oldest + (i + 1) - 1
      BY <1>0, <1>9, <3>1 DEF CountersFit
    <3> QED BY Zenon, <3>2, <3>3, <3>4
  <2>2. hw'[i] # c
    BY <1>3, <1>10, <2>1, Zenon
  <2>3. hw'[i] \in DOMAIN cb_ctx
    BY <1>8
  <2>4. cb_ctx'[hw'[i]] = cb_ctx[hw[i + 1]]
    BY Zenon, <1>7, <2>1, <2>2, <2>3
  <2> QED BY <2>1, <2>2, <2>3, <2>4, Zenon
<1>12. meta' \in [Slots -> [req_id : NumOrNone, valid : BOOLEAN]]
       /\ meta'[s].valid = FALSE /\ meta'[s].req_id = id
       /\ \A r \in Slots : r # s => meta'[r] = meta[r]
  <2>1. meta \in [Slots -> [req_id : NumOrNone, valid : BOOLEAN]]
    BY Zenon DEF CypherInvariant, TypeOK
  <2>2. CASE meta' = [meta EXCEPT ![s].valid = FALSE]
    BY <1>3, <2>1, <2>2, ZenonT(40)
  <2>3. CASE ~meta[s].valid /\ meta' = meta
    <3>1. meta[s].valid \in BOOLEAN
      BY Zenon, <1>3, <2>1
    <3> QED BY Zenon, <1>3, <2>1, <2>3, <3>1
  <2> QED BY <1>5, <2>2, <2>3, ZenonT(40)
<1>13. timers' = timers \ {id}
  <2>1. CASE ~meta[s].valid
    <3>1. id \notin timers
      BY Zenon, <2>1 DEF CypherInvariant, SlotsExact, s
    <3> QED BY Zenon, <1>5, <2>1, <3>1
  <2> QED BY Zenon, <1>5, <2>1
<1>14. /\ ring' \in [0 .. RingSize - 1 -> [result : Results, id : NumOrNone]]
       /\ RingExact' /\ PendingExactlyTimed'
  <2>1. CASE meta[s].valid
    <3>1. id \in timers
      BY Zenon, <1>2, <2>1 DEF CypherInvariant, SlotsExact, s
    <3> QED BY <1>1, <1>2, <1>5, <2>1, <3>1, ResultPushed, Zenon
  <2>2. CASE ~meta[s].valid
    <3>1. UNCHANGED <<ring, timers, next_req_id, head_id>>
      BY Zenon, <1>1, <1>5, <2>2
    <3> QED BY Zenon, <3>1 DEF CypherInvariant, TypeOK, RingExact, PendingExactlyTimed
  <2> QED BY Zenon, <2>1, <2>2
<1>15. TypeOK'
  <2>1. timers' \subseteq Nat
    BY <1>13, ZenonT(40) DEF CypherInvariant, TypeOK
  <2>2. in_qat_num' \in 0 .. MaxInQat
    BY <1>0, <1>1, <1>2 DEF CountersFit
  <2>3. in_cache_num' \in 0 .. BufNum
    <3>1. in_cache_num + 2 * n \in {0, BufNum}
      BY Zenon DEF CypherInvariant, PhasesFit
    <3>2. in_cache_num' = in_cache_num + 2 /\ n \in Nat /\ n >= 1 /\ in_cache_num \in Nat /\ BufNum \in Nat
      BY Zenon, <1>0, <1>2, <1>5 DEF CountersFit
    <3> HIDE DEF n
    <3> QED BY <3>1, <3>2
  <2> QED BY Zenon, <1>1, <1>7, <1>8, <1>12, <1>14, <2>1, <2>2, <2>3 DEF CypherInvariant, TypeOK
<1>16. HardwareInOrder'
  <2>1. ASSUME NEW i \in DOMAIN hw'
        PROVE  LET d == cb_ctx'[hw'[i]]
               IN  /\ d.req_id = Oldest' + i - 1 /\ d.sess[1] \in DOMAIN sessions
                   /\ SessionOf(sessions[d.sess[1]], d.sess[2]) = "open"
    <3>1. /\ cb_ctx'[hw'[i]] = cb_ctx[hw[i + 1]] /\ i + 1 \in DOMAIN hw
          /\ Oldest' + i - 1 = Oldest + (i + 1) - 1
      BY Zenon, <1>11
    <3> HIDE DEF id
    <3>2. LET d == cb_ctx[hw[i + 1]]
          IN  /\ d.req_id = Oldest + (i + 1) - 1 /\ d.sess[1] \in DOMAIN sessions
              /\ SessionOf(sessions[d.sess[1]], d.sess[2]) = "open"
      BY <3>1, Zenon DEF CypherInvariant, HardwareInOrder
    <3> QED BY <3>1, <3>2, Zenon
  <2>2. ASSUME NEW d \in DOMAIN cb_ctx PROVE cb_ctx'[d].bufs <=> \E i \in DOMAIN hw' : hw'[i] = d
    <3>1. CASE d = c
      BY <1>6, <1>7, <1>11, <3>1, Zenon
    <3>2. CASE d # c
      <4>1. cb_ctx'[d].bufs <=> \E i \in DOMAIN hw : hw[i] = d
        BY <1>7, <3>2, Zenon DEF CypherInvariant, HardwareInOrder
      <4>2. ASSUME NEW i \in DOMAIN hw, hw[i] = d PROVE \E j \in DOMAIN hw' : hw'[j] = d
        <5>1. i # 1
          BY Zenon, <1>3, <3>2, <4>2
        <5>2. i - 1 \in DOMAIN hw' /\ hw'[i - 1] = hw[i]
          BY <1>0, <1>8, <5>1, SMTT(30) DEF CountersFit
        <5> QED BY <4>2, <5>2, Zenon
      <4> QED BY <1>11, <4>1, <4>2, Zenon
    <3> QED BY Zenon, <3>1, <3>2
  <2>3. in_qat_num' <= next_req_id' /\ Len(hw') = in_qat_num'
    BY <1>0, <1>1, <1>2, <1>8 DEF CountersFit
  <2> QED BY Zenon, <1>1, <1>7, <2>1, <2>2, <2>3 DEF HardwareInOrder
<1>17. ASSUME NEW a \in InQat'
       PROVE  a \in InQat /\ a # id /\ Slot(a) \in Slots /\ Slot(a) # s /\ CtxOf(a)' = CtxOf(a)
              /\ CtxOf(a) # c
  <2>1. a \in InQat /\ a # id
    BY Zenon, <1>9
  <2>2. Slot(a) \in Slots /\ Slot(a) # s
    BY <1>2, <2>1, SlotsDistinct, ContextOfRequest, Zenon DEF s
  <2>3. a - Oldest' + 1 \in DOMAIN hw' /\ (a - Oldest' + 1) + 1 = a - Oldest + 1
    BY <1>0, <1>1, <1>2, <1>8, <1>9 DEF CountersFit, InQat
  <2>4. CtxOf(a)' = CtxOf(a) /\ CtxOf(a) # c
    <3> DEFINE j == a - Oldest' + 1
    <3>1. j \in DOMAIN hw' /\ j + 1 = a - Oldest + 1 /\ CtxOf(a)' = hw'[j]
      BY Zenon, <2>3 DEF CtxOf
    <3> HIDE DEF j
    <3>2. hw'[j] = hw[j + 1] /\ hw'[j] # c
      BY <1>11, <3>1, Zenon
    <3> QED BY <3>1, <3>2, Zenon DEF CtxOf
  <2> QED BY Zenon, <2>1, <2>2, <2>4
<1>18. SlotsExact'
  <2>1. ASSUME NEW a \in InQat' PROVE meta'[Slot(a)].req_id = a
    BY <1>12, <1>17, Zenon DEF CypherInvariant, SlotsExact
  <2>2. ASSUME NEW r \in Slots, meta'[r].valid PROVE \E a \in InQat' : Slot(a) = r
    <3>1. r # s /\ meta[r].valid
      BY <1>12, <2>2, Zenon
    <3>2. PICK a \in InQat : Slot(a) = r
      BY Zenon, <3>1 DEF CypherInvariant, SlotsExact
    <3> QED BY Zenon, <1>9, <3>1, <3>2 DEF s
  <2>3. ASSUME NEW a \in InQat', NEW r \in Slots
        PROVE  cb_pool[r] = CtxOf(a)' <=> r = Slot(a) /\ meta'[r].valid
    <3>1. cb_pool[r] = CtxOf(a) <=> r = Slot(a) /\ meta[r].valid
      BY Zenon, <1>17 DEF CypherInvariant, SlotsExact
    <3>2. CASE r = s
      BY Zenon, <1>12, <1>17, <3>1, <3>2
    <3>3. CASE r # s
      BY Zenon, <1>12, <1>17, <3>1, <3>3
    <3> QED BY Zenon, <3>2, <3>3
  <2>4. timers' = {a \in InQat' : meta'[Slot(a)].valid}
    <3>1. timers = {a \in InQat : meta[Slot(a)].valid}
      BY Zenon DEF CypherInvariant, SlotsExact
    <3>2. \A a \in InQat' : meta'[Slot(a)] = meta[Slot(a)]
      BY Zenon, <1>12, <1>17
    <3> QED BY Zenon, <1>9, <1>13, <3>1, <3>2
  <2> QED BY Zenon, <1>1, <2>1, <2>2, <2>3, <2>4 DEF CypherInvariant, SlotsExact
<1>19. ReceivedExact'
  BY Zenon, <1>1 DEF CypherInvariant, ReceivedExact
<1>20. PhasesFit'
  <2>1. in_cache_num' + 2 * in_qat_num' = in_cache_num + 2 * n
    BY <1>0, <1>1, <1>5, SMTT(30) DEF CountersFit
  <2> QED BY Zenon, <1>1, <2>1 DEF CypherInvariant, PhasesFit
<1> QED BY Zenon, <1>14, <1>15, <1>16, <1>18, <1>19, <1>20 DEF CypherInvariant

(***************************************************************************)
(* All steps                                                                *)
(***************************************************************************)
LEMMA NextPreserves ==
    ASSUME ConstantsOK, CypherInvariant, [Next]_vars
    PROVE  CypherInvariant'
<1>1. CASE UNCHANGED vars
  <2>1. UNCHANGED <<pc, unit_held, closed, in_qat_num, next_req_id, sessions, todo, meta, cb_pool,
                    cb_ctx, in_cache_num, timers, ring, head_id, received, hw>>
    BY Zenon, <1>1 DEF vars, reqVars, sessVars, poolVars, ringVars
  <2>2. TypeOK'
    BY Zenon, <2>1 DEF CypherInvariant, TypeOK
  <2>3. HardwareInOrder'
    BY Zenon, <2>1 DEF CypherInvariant, HardwareInOrder, Oldest
  <2>4. SlotsExact'
    BY SMTT(30), <2>1 DEF CypherInvariant, SlotsExact, InQat, Oldest, CtxOf
  <2>5. RingExact' /\ PendingExactlyTimed' /\ ReceivedExact' /\ PhasesFit'
    BY <2>1 DEF CypherInvariant, RingExact, PendingExactlyTimed, ReceivedExact, PhasesFit
  <2> QED BY Zenon, <2>2, <2>3, <2>4, <2>5 DEF CypherInvariant
<1>2. CASE \E hash \in BOOLEAN : InitOk(hash)
  BY Zenon, <1>2, InitOkPreserves
<1>3. CASE CloseDone
  BY Zenon, <1>3, CloseDonePreserves
<1>4. CASE \E s \in DOMAIN sessions : \E op \in {"enc", "dec"} : SubmitOk(s, op)
  BY Zenon, <1>4, SubmitOkPreserves
<1>5. CASE \E s \in DOMAIN sessions : \E op \in {"enc", "dec"} : SubmitFails(s, op)
  BY <1>5, SubmitFailsPreserves
<1>6. CASE CyCallback
  BY <1>6, CyCallbackPreserves
<1>7. CASE RequestTimeout
  BY <1>7, RequestTimeoutPreserves
<1>8. CASE \E max_num \in 0 .. MaxPoll : Pop(max_num)
  BY Zenon, <1>8, PopPreserves
<1>9. CASE SessionStep
  BY Zenon, <1>9, SessionStepsPreserve
<1> QED BY <1>1, <1>2, <1>3, <1>4, <1>5, <1>6, <1>7, <1>8, <1>9, Zenon DEF Next, SessionStep

\* The pools, the ring, the timers and the buffers of a cypher channel stay consistent
\* whatever requests are submitted, answered by the hardware, timed out, polled, and
\* whatever sessions are added, removed or closed.
THEOREM CypherBookkeeping ==
    ASSUME ConstantsOK
    PROVE  Spec => []CypherInvariant
<1>1. Init => CypherInvariant
  BY Zenon, InitEstablishes
<1>2. CypherInvariant /\ [Next]_vars => CypherInvariant'
  BY Zenon, NextPreserves
<1> QED BY <1>1, <1>2, PTL DEF Spec

\* The contexts that hold buffers are as many as the requests in the instance.
LEMMA BuffersCounted ==
    ASSUME ConstantsOK, CypherInvariant
    PROVE  Cardinality({c \in DOMAIN cb_ctx : cb_ctx[c].bufs}) = in_qat_num
<1>0. CountersFit
  BY Zenon, Counters
<1> DEFINE S == {c \in DOMAIN cb_ctx : cb_ctx[c].bufs}
<1>1. \A c : c \in S <=> \E i \in 1 .. in_qat_num : hw[i] = c
  <2>1. \A i \in 1 .. in_qat_num : hw[i] \in DOMAIN cb_ctx
    BY <1>0 DEF CountersFit
  <2>2. \A c \in DOMAIN cb_ctx : cb_ctx[c].bufs <=> \E i \in 1 .. in_qat_num : hw[i] = c
    BY <1>0 DEF CypherInvariant, HardwareInOrder, CountersFit
  <2> QED BY Zenon, <2>1, <2>2
<1> HIDE DEF S
<1>2. hw = [i \in 1 .. in_qat_num |-> hw[i]]
  BY <1>0 DEF CountersFit
<1>3. hw \in [1 .. in_qat_num -> S]
  BY Zenon, <1>1, <1>2
<1>4. \A i, j \in 1 .. in_qat_num : hw[i] = hw[j] => i = j
  BY Zenon, <1>0, ContextsDistinct DEF CountersFit
<1>5. hw \in Bijection(1 .. in_qat_num, S)
  <2>1. hw \in Injection(1 .. in_qat_num, S)
    BY Zenon, <1>0, <1>3, <1>4 DEF Injection, IsInjective, CountersFit
  <2>2. hw \in Surjection(1 .. in_qat_num, S)
    BY Zenon, <1>1, <1>3 DEF Surjection
  <2> QED BY Zenon, <2>1, <2>2 DEF Bijection
<1>6. ExistsBijection(1 .. in_qat_num, S)
  BY Zenon, <1>5 DEF ExistsBijection
<1>7. in_qat_num \in Nat
  BY Zenon, <1>0 DEF CountersFit
<1>8. Cardinality(S) = in_qat_num
  BY Zenon, <1>6, <1>7, FS_CountingElements
<1> QED BY Zenon, <1>8 DEF S

LEMMA SafetyFollows ==
    ASSUME ConstantsOK, CypherInvariant
    PROVE  CypherSafe
<1>0. CountersFit
  BY Counters
<1>1. HardwareWorksOnLiveData
  <2>1. ASSUME NEW i \in DOMAIN hw
        PROVE  /\ unit_held /\ ~closed /\ cb_ctx[hw[i]].bufs
               /\ SessionOf(sessions[cb_ctx[hw[i]].sess[1]], cb_ctx[hw[i]].sess[2]) = "open"
    <3>1. in_qat_num # 0 /\ hw[i] \in DOMAIN cb_ctx
      BY <1>0 DEF CountersFit
    <3>2. unit_held /\ ~closed
      BY <3>1, Zenon DEF CypherInvariant, PhasesFit
    <3> QED BY <3>1, <3>2, Zenon DEF CypherInvariant, HardwareInOrder
  <2> QED BY <2>1, ContextsDistinct, Zenon DEF HardwareWorksOnLiveData
<1>2. BuffersSuffice
  <2>1. in_cache_num + 2 * in_qat_num = IF sessions = <<>> THEN 0 ELSE BufNum
    BY Zenon DEF CypherInvariant, PhasesFit
  <2>2. ~closed => sessions # <<>>
    BY Zenon DEF CypherInvariant, PhasesFit
  <2>3. BufNum >= 2 * MaxInQat
    BY <1>0 DEF CountersFit, BufNum
  <2>4. ~closed /\ in_qat_num # MaxInQat => in_cache_num >= 2
    BY <1>0, <2>1, <2>2, <2>3 DEF CountersFit
  <2> QED BY Zenon, <2>1, <2>4, BuffersCounted DEF BuffersSuffice, IsChannelFull
<1> QED BY Zenon, <1>1, <1>2 DEF CypherSafe

\* What a cypher channel has in the hardware stays alive: every request there has its
\* own context with its buffers, and its session is open, although sessions are removed
\* and requests time out; no buffer is lost and a channel that is not full always finds
\* two (QatBufCache, InterceptInflightReq, TryCloseSession).
THEOREM CypherAlwaysSafe ==
    ASSUME ConstantsOK
    PROVE  Spec => []CypherSafe
<1>1. Spec => []CypherInvariant
  BY Zenon, CypherBookkeeping
<1>2. CypherInvariant => CypherSafe
  BY Zenon, SafetyFollows
<1> QED BY <1>1, <1>2, PTL

(***************************************************************************)
(* The channel's promise                                                    *)
(***************************************************************************)
Handed == [i \in DOMAIN received |->
              IF received[i].of = received[i].ctx THEN received[i].ctx + 1 ELSE None]

HandedExactly == Handed = [i \in 1 .. head_id |-> i]

LEMMA HandedInOrder ==
    ASSUME ConstantsOK, CypherInvariant
    PROVE  HandedExactly
<1>0. CountersFit
  BY Counters
<1>1. DOMAIN received = 1 .. head_id
  <2>1. received \in Seq(Results) /\ Len(received) = head_id
    BY Zenon DEF CypherInvariant, TypeOK, ReceivedExact
  <2> QED BY <2>1
<1>2. ASSUME NEW i \in 1 .. head_id
      PROVE  (IF received[i].of = received[i].ctx THEN received[i].ctx + 1 ELSE None) = i
  <2>1. received[i] = [ctx |-> i - 1, of |-> i - 1]
    BY Zenon DEF CypherInvariant, ReceivedExact
  <2> QED BY <1>0, <2>1 DEF CountersFit
<1> QED BY <1>1, <1>2, Zenon DEF Handed, HandedExactly

\* A step accepts a request, hands out the next ones, or does neither.
LEMMA StepsOfTheChannel ==
    ASSUME ConstantsOK, CypherInvariant, [Next]_vars
    PROVE  \/ UNCHANGED <<next_req_id, head_id>>
           \/ next_req_id' = next_req_id + 1 /\ head_id' = head_id
           \/ head_id' \in head_id + 1 .. next_req_id /\ next_req_id' = next_req_id
<1>0. CountersFit
  BY Zenon, Counters
<1> USE DEF reqVars, ringVars, sessVars, poolVars
<1>1. CASE UNCHANGED vars
  BY Zenon, <1>1 DEF vars
<1>2. CASE \E s \in DOMAIN sessions : \E op \in {"enc", "dec"} : SubmitOk(s, op)
  BY Zenon, <1>2 DEF SubmitOk
<1>3. CASE \E s \in DOMAIN sessions : \E op \in {"enc", "dec"} : SubmitFails(s, op)
  BY Zenon, <1>3 DEF SubmitFails
<1>4. CASE (\E hash \in BOOLEAN : InitOk(hash)) \/ CloseDone \/ CyCallback \/ RequestTimeout
  BY Zenon, <1>4 DEF InitOk, CloseDone, CyCallback, RequestTimeout
<1>5. CASE \E max_num \in 0 .. MaxPoll : Pop(max_num)
  <2>1. PICK max_num \in 0 .. MaxPoll : Pop(max_num)
    BY Zenon, <1>5
  <2>2. PICK cnt \in 0 .. max_num : /\ head_id' = head_id + cnt /\ head_id + cnt <= next_req_id
                                    /\ next_req_id' = next_req_id
    BY Zenon, <2>1 DEF Pop, PopCount
  <2>3. cnt \in Nat
    BY <2>2 DEF ConstantsOK
  <2> QED BY <1>0, <2>2, <2>3 DEF CountersFit
<1>6. CASE SessionStep
  BY Zenon, <1>6 DEF SessionStep, InitFails, CloseStart, SessionClosed, PairUninited, UninitFails,
              SessionRemoved, AddSession, RemoveSession, SubmitUndefined, PollStart,
              PollInstanceReturns, PollInstanceFails, TimeoutsHandled, FreeMemTimeout
<1> QED BY <1>1, <1>2, <1>3, <1>4, <1>5, <1>6, Zenon DEF Next, SessionStep

\* A cypher channel implements what an asynchronous channel promises: its results come
\* once each, in the order of submission, and each is of the request whose context it
\* carries (SubmitAsync and Poll of QatCypherChannel).
THEOREM CypherImplementsChannel ==
    ASSUME ConstantsOK
    PROVE  Spec => ChannelSpec
<1>1. Init => Channel!Init
  BY DEF Init, Channel!Init
<1>2. CypherInvariant /\ HandedExactly /\ HandedExactly' /\ [Next]_vars
        => [Channel!Next]_(Channel!vars)
  <2> SUFFICES ASSUME CypherInvariant, HandedExactly, HandedExactly', [Next]_vars
               PROVE  Channel!Next \/ UNCHANGED <<next_req_id, Handed>>
    BY Zenon DEF Channel!vars, Handed
  <2>0. CountersFit
    BY Zenon, Counters
  <2>1. Handed = [i \in 1 .. head_id |-> i] /\ Handed' = [i \in 1 .. head_id' |-> i]
    BY Zenon DEF HandedExactly
  <2>2. CASE UNCHANGED <<next_req_id, head_id>>
    BY Zenon, <2>1, <2>2
  <2>3. CASE next_req_id' = next_req_id + 1 /\ head_id' = head_id
    BY <2>1, <2>3, Zenon DEF Channel!Next, Channel!Submit, Handed
  <2>4. CASE head_id' \in head_id + 1 .. next_req_id /\ next_req_id' = next_req_id
    <3>1. Len(Handed) = head_id /\ head_id' \in Nat /\ head_id < head_id'
      BY <2>0, <2>1, <2>4 DEF CountersFit
    <3>2. \A i \in 1 .. head_id' : (IF i <= head_id THEN Handed[i] ELSE i) = i
      BY <2>0, <2>1, <3>1 DEF CountersFit
    <3>3. Handed' = [i \in 1 .. head_id' |-> IF i <= Len(Handed) THEN Handed[i] ELSE i]
      BY <2>1, <3>1, <3>2, Zenon
    <3>4. head_id' \in Len(Handed) + 1 .. next_req_id
      BY Zenon, <2>4, <3>1
    <3>5. Channel!Poll
      BY <2>4, <3>3, <3>4, Zenon DEF Channel!Poll, Handed
    <3> QED BY Zenon, <3>5 DEF Channel!Next
  <2> QED BY Zenon, <2>2, <2>3, <2>4, StepsOfTheChannel
<1>3. Spec => []CypherInvariant
  BY CypherBookkeeping
<1>4. CypherInvariant => HandedExactly
  BY HandedInOrder
<1> QED BY <1>1, <1>2, <1>3, <1>4, PTL DEF Spec, ChannelSpec, Channel!Spec
=============================================================================
