--------------------------- MODULE DataFlowProofs ---------------------------
(***************************************************************************)
(* The data flow service keeps its request objects, timers and quotas, and  *)
(* answers every request once and in order, for any number of channels,     *)
(* work queues, requests and any quotas and strategies.                     *)
(***************************************************************************)
EXTENDS DataFlow, FiniteSetTheorems, TLAPS

\* What the invariants say of one channel
ListsOf(c) ==
    /\ cached_resource[c] \cup queue[c] \cup expired_queue[c] \cup InSubmit(c) = Objs
    /\ cached_resource[c] \cap queue[c] = {} /\ cached_resource[c] \cap expired_queue[c] = {}
    /\ queue[c] \cap expired_queue[c] = {}
    /\ InSubmit(c) \cap (cached_resource[c] \cup queue[c] \cup expired_queue[c]) = {}
SubmitOf(c) ==
    pc[c] = "submit" => /\ opts[c].engine_type = "kDsa" /\ chosen[c].wq \in WorkQueues
                        /\ hw[c][chosen[c].obj] = "none"
                        /\ obj[c][chosen[c].obj].req = accepted[c] + 1
                        /\ ~obj[c][chosen[c].obj].expired
IdleOf(c) == \A o \in cached_resource[c] : hw[c][o] = "none"
TimersOf(c) == pc[c] # "undefined" => timers[c] = {o \in queue[c] : ~obj[c][o].expired}
SharedOut(c) ==
    /\ 1 .. accepted[c] = Range(received[c]) \cup discarded[c] \cup Waiting(c)
    /\ Range(received[c]) \cap discarded[c] = {} /\ Range(received[c]) \cap Waiting(c) = {}
    /\ discarded[c] \cap Waiting(c) = {}
OneEach(c) == /\ \A o, p \in queue[c] : obj[c][o].req = obj[c][p].req => o = p
              /\ \A i, j \in DOMAIN received[c] : received[c][i] = received[c][j] => i = j
InOrder(c) ==
    opts[c].order_type = "kOrdered" =>
        /\ \A i, j \in DOMAIN received[c] : i < j => received[c][i] < received[c][j]
        /\ \A i \in DOMAIN received[c] : \A o \in queue[c] : received[c][i] < obj[c][o].req

ChannelOf(c) == /\ ListsOf(c) /\ SubmitOf(c) /\ IdleOf(c) /\ TimersOf(c)
                /\ SharedOut(c) /\ OneEach(c) /\ InOrder(c)

Invariant == TypeOK /\ (\A c \in Channels : ChannelOf(c)) /\ QuotaExact

LEMMA InvariantIs == Invariant <=> ObjectsExact /\ AnsweredOnce
<1>1. ObjectsOwnedOnce <=> \A c \in Channels : ListsOf(c) /\ SubmitOf(c)
  BY Zenon DEF ObjectsOwnedOnce, ListsOf, SubmitOf
<1>2. CachedIsIdle <=> \A c \in Channels : IdleOf(c)
  BY Zenon DEF CachedIsIdle, IdleOf
<1>3. TimersExact <=> \A c \in Channels : TimersOf(c)
  BY Zenon DEF TimersExact, TimersOf
<1>4. AnsweredOnce <=> \A c \in Channels : SharedOut(c) /\ OneEach(c) /\ InOrder(c)
  BY Zenon DEF AnsweredOnce, SharedOut, OneEach, InOrder
<1> QED BY Zenon, <1>1, <1>2, <1>3, <1>4 DEF Invariant, ChannelOf, ObjectsExact, ListsConsistent

\* What is counted is finite.
LEMMA Finite ==
    ASSUME NEW w \in WorkQueues
    PROVE  /\ IsFiniteSet(InQueue(w)) /\ IsFiniteSet(Submitting(w)) /\ IsFiniteSet(Granted(w))
           /\ Cardinality(InQueue(w)) \in Nat /\ Cardinality(Submitting(w)) \in Nat
           /\ Cardinality(Granted(w)) \in Nat /\ Cardinality(Granted(w)) <= Cardinality(Submitting(w))
<1>1. IsFiniteSet(Objs)
  BY SizeAssumption, FS_Interval DEF Objs
<1>2. IsFiniteSet(Channels \X Objs)
  BY <1>1, SizeAssumption, FS_Product
<1>3. InQueue(w) \in SUBSET (Channels \X Objs) /\ Submitting(w) \in SUBSET Channels
      /\ Granted(w) \in SUBSET Submitting(w)
  BY DEF InQueue, Submitting, Granted
<1>4. IsFiniteSet(InQueue(w)) /\ IsFiniteSet(Submitting(w))
  BY <1>2, <1>3, SizeAssumption, FS_Subset
<1>5. IsFiniteSet(Granted(w)) /\ Cardinality(Granted(w)) <= Cardinality(Submitting(w))
  BY <1>3, <1>4, FS_Subset
<1> QED BY <1>4, <1>5, FS_CardinalityType

LEMMA ConstantTypes ==
    /\ WorkQueues \subseteq Nat \ {0} /\ IsFiniteSet(WorkQueues)
    /\ \A w \in WorkQueues : Capacity[w] \in Nat
    /\ Objs \subseteq Nat \ {0} /\ IsFiniteSet(Objs)
<1>1. PICK n \in Nat : WorkQueues = 1 .. n
  BY QuotaAssumption DEF WorkQueues
<1>2. \A w \in WorkQueues : Capacity[w] \in Nat
  BY QuotaAssumption DEF WorkQueues
<1>3. IsFiniteSet(WorkQueues) /\ IsFiniteSet(Objs)
  BY <1>1, SizeAssumption, FS_Interval DEF Objs
<1> QED BY <1>1, <1>2, <1>3, SizeAssumption DEF Objs

\* A step of one channel leaves what belongs to the others alone.
Same(d) ==
    /\ opts'[d] = opts[d] /\ pc'[d] = pc[d] /\ cached_resource'[d] = cached_resource[d]
    /\ queue'[d] = queue[d] /\ expired_queue'[d] = expired_queue[d] /\ obj'[d] = obj[d]
    /\ hw'[d] = hw[d] /\ timers'[d] = timers[d] /\ chosen'[d] = chosen[d]
    /\ accepted'[d] = accepted[d] /\ received'[d] = received[d] /\ discarded'[d] = discarded[d]

LEMMA OthersKept == ASSUME NEW d \in Channels, ChannelOf(d), Same(d) PROVE ChannelOf(d)'
<1>1. InSubmit(d)' = InSubmit(d) /\ Waiting(d)' = Waiting(d)
  BY Zenon DEF Same, InSubmit, Waiting
<1>2. ListsOf(d)'
  BY Zenon, <1>1 DEF Same, ChannelOf, ListsOf
<1>3. SubmitOf(d)'
  BY Zenon DEF Same, ChannelOf, SubmitOf
<1>4. IdleOf(d)' /\ TimersOf(d)'
  BY Zenon DEF Same, ChannelOf, IdleOf, TimersOf
<1>5. SharedOut(d)'
  BY Zenon, <1>1 DEF Same, ChannelOf, SharedOut
<1>6. OneEach(d)' /\ InOrder(d)'
  BY Zenon DEF Same, ChannelOf, OneEach, InOrder
<1> QED BY Zenon, <1>2, <1>3, <1>4, <1>5, <1>6 DEF ChannelOf

LEMMA InitEstablishes == Init => Invariant
<1> SUFFICES ASSUME Init PROVE Invariant
  OBVIOUS
<1>1. TypeOK
  BY DEF Init, TypeOK, NotChosen, NoQueue
<1>2. ASSUME NEW c \in Channels PROVE ChannelOf(c)
  <2>1. InSubmit(c) = {} /\ Waiting(c) = {} /\ Range(received[c]) = {}
    BY DEF Init, InSubmit, Waiting, Range
  <2>2. ListsOf(c) /\ SubmitOf(c) /\ IdleOf(c) /\ TimersOf(c)
    BY <2>1 DEF Init, ListsOf, SubmitOf, IdleOf, TimersOf
  <2>3. SharedOut(c) /\ OneEach(c) /\ InOrder(c)
    BY <2>1 DEF Init, SharedOut, OneEach, InOrder
  <2> QED BY <2>2, <2>3 DEF ChannelOf
<1>3. QuotaExact
  <2> SUFFICES ASSUME NEW w \in WorkQueues
               PROVE  /\ size[w] = Cardinality(InQueue(w)) + Cardinality(Submitting(w))
                      /\ Cardinality(InQueue(w)) + Cardinality(Granted(w)) <= Capacity[w]
    BY DEF QuotaExact
  <2>1. InQueue(w) = {} /\ Submitting(w) = {} /\ Granted(w) = {}
    BY DEF Init, InQueue, Submitting, Granted
  <2> QED BY <2>1, FS_EmptySet, ConstantTypes DEF Init
<1> QED BY <1>1, <1>2, <1>3 DEF Invariant

Objects == [req : Nat, expired : BOOLEAN, work_queue : WorkQueues \cup {NoQueue}]

\* A step of channel c that changes no object but o
Touches(c, o) ==
    /\ obj' \in [Channels -> [Objs -> Objects]]
    /\ \A d \in Channels : d # c => obj'[d] = obj[d]
    /\ \A p \in Objs : p # o => obj'[c][p] = obj[c][p]

\* The object that SubmitRequest holds: popped now, or before DsaDispatcher::Submit
Holds(c, o) == \/ pc[c] = "idle" /\ o \in cached_resource[c]
               \/ pc[c] = "submit" /\ o = chosen[c].obj

LEMMA HeldObject ==
    ASSUME Invariant, NEW c \in Channels, NEW o, Holds(c, o)
    PROVE  /\ o \in Objs /\ hw[c][o] = "none"
           /\ o \notin queue[c] /\ o \notin expired_queue[c]
           /\ (cached_resource[c] \ {o}) \cup queue[c] \cup expired_queue[c] = Objs \ {o}
<1>1. ChannelOf(c)
  BY DEF Invariant
<1>2. CASE pc[c] = "idle" /\ o \in cached_resource[c]
  BY <1>1, <1>2 DEF ChannelOf, ListsOf, IdleOf, InSubmit
<1>3. CASE pc[c] = "submit" /\ o = chosen[c].obj
  BY <1>1, <1>3 DEF ChannelOf, ListsOf, SubmitOf, InSubmit
<1> QED BY <1>2, <1>3 DEF Holds

\* The request joins the queue as the last one.
LEMMA SubmittedKeeps ==
    ASSUME Invariant, NEW c \in Channels, NEW o, Holds(c, o),
           NEW st \in {"wip", "done"}, Submitted(c, o, st), Touches(c, o),
           obj'[c][o].req = accepted[c] + 1, ~obj'[c][o].expired
    PROVE  TypeOK' /\ \A d \in Channels : ChannelOf(d)'
<1>1. TypeOK /\ ChannelOf(c)
  BY DEF Invariant
<1>2. /\ o \in Objs /\ o \notin queue[c] /\ o \notin expired_queue[c]
      /\ (cached_resource[c] \ {o}) \cup queue[c] \cup expired_queue[c] = Objs \ {o}
  BY HeldObject
<1>3. /\ hw'[c] = [hw[c] EXCEPT ![o] = st] /\ cached_resource'[c] = cached_resource[c] \ {o}
      /\ timers'[c] = timers[c] \cup {o} /\ queue'[c] = queue[c] \cup {o}
      /\ accepted'[c] = accepted[c] + 1 /\ pc'[c] = "idle"
      /\ opts' = opts /\ expired_queue' = expired_queue
      /\ received' = received /\ discarded' = discarded
  BY <1>1 DEF Submitted, TypeOK
<1>4. TypeOK'
  <2>1. /\ opts' = opts /\ strategy' = strategy /\ expired_queue' = expired_queue
        /\ tls_counter' = tls_counter /\ size' = size /\ received' = received
        /\ discarded' = discarded
    BY DEF Submitted
  <2>2. hw' \in [Channels -> [Objs -> {"none", "wip", "done"}]]
    BY <1>1, <1>2 DEF Submitted, TypeOK
  <2>3. /\ cached_resource' \in [Channels -> SUBSET Objs] /\ queue' \in [Channels -> SUBSET Objs]
        /\ timers' \in [Channels -> SUBSET Objs] /\ accepted' \in [Channels -> Nat]
    BY <1>1, <1>2 DEF Submitted, TypeOK
  <2>4. /\ pc' \in [Channels -> {"idle", "submit", "closed", "undefined"}]
        /\ chosen' \in [Channels -> [obj : Objs \cup {0}, wq : WorkQueues \cup {NoQueue}, result : Nat]]
    BY <1>1 DEF Submitted, TypeOK, NotChosen
  <2> QED BY Zenon, <1>1, <2>1, <2>2, <2>3, <2>4 DEF TypeOK, Touches, Objects
<1>5. ASSUME NEW d \in Channels, d # c PROVE ChannelOf(d)'
  <2>1. Same(d)
    BY <1>1, <1>5 DEF Submitted, Touches, Same, TypeOK
  <2> QED BY Zenon, <2>1, OthersKept DEF Invariant
<1>6. ChannelOf(c)'
  <2>1. ListsOf(c)' /\ SubmitOf(c)'
    BY <1>2, <1>3, <1>1 DEF ListsOf, SubmitOf, InSubmit, ChannelOf
  <2>2. IdleOf(c)'
    BY <1>1, <1>2, <1>3 DEF IdleOf, ChannelOf, TypeOK
  <2>3. \A p \in queue[c] : p \in Objs /\ p # o /\ obj'[c][p] = obj[c][p]
    BY <1>1, <1>2 DEF Touches, TypeOK
  <2>4. TimersOf(c)'
    <3>1. pc[c] # "undefined"
      BY DEF Holds
    <3> QED BY <1>1, <1>3, <2>3, <3>1 DEF TimersOf, ChannelOf
  <2>5. Waiting(c)' = Waiting(c) \cup {accepted[c] + 1}
    BY <1>3, <2>3 DEF Waiting
  <2>6. accepted[c] \in Nat
    BY <1>1 DEF TypeOK
  <2>7. SharedOut(c)'
    <3>1. SharedOut(c)
      BY <1>1 DEF ChannelOf
    <3>2. 1 .. accepted[c] + 1 = (1 .. accepted[c]) \cup {accepted[c] + 1}
      BY <2>6
    <3>3. accepted[c] + 1 \notin 1 .. accepted[c]
      BY <2>6
    <3>4. /\ 1 .. accepted'[c] = (1 .. accepted[c]) \cup {accepted[c] + 1}
          /\ Range(received'[c]) = Range(received[c]) /\ discarded'[c] = discarded[c]
      BY Zenon, <1>3, <3>2
    <3>5. /\ 1 .. accepted'[c] = Range(received'[c]) \cup discarded'[c] \cup Waiting(c)'
          /\ Range(received'[c]) \cap discarded'[c] = {}
      BY <2>5, <3>1, <3>4 DEF SharedOut
    <3>6. accepted[c] + 1 \notin Range(received[c]) \cup discarded[c]
      BY <3>1, <3>3 DEF SharedOut
    <3>7. /\ Range(received'[c]) \cap Waiting(c)' = {}
          /\ discarded'[c] \cap Waiting(c)' = {}
      BY <2>5, <3>1, <3>4, <3>6 DEF SharedOut
    <3> QED BY Zenon, <3>5, <3>7 DEF SharedOut
  <2>8. \A p \in queue[c] : obj[c][p].req \in 1 .. accepted[c]
    BY <1>1 DEF ChannelOf, SharedOut, Waiting
  <2>9. OneEach(c)'
    BY <1>1, <1>3, <2>3, <2>6, <2>8 DEF OneEach, ChannelOf
  <2>10. \A i \in DOMAIN received[c] : received[c][i] \in 1 .. accepted[c]
    BY <1>1 DEF ChannelOf, SharedOut, Range
  <2>11. InOrder(c)'
    BY <1>1, <1>3, <2>3, <2>6, <2>10 DEF InOrder, ChannelOf
  <2> QED BY <2>1, <2>2, <2>4, <2>7, <2>9, <2>11 DEF ChannelOf
<1> QED BY Zenon, <1>4, <1>5, <1>6

\* The object is cached again.
LEMMA RefusedKeeps ==
    ASSUME Invariant, NEW c \in Channels, NEW o, Holds(c, o), Refused(c, o), Touches(c, o)
    PROVE  /\ \A d \in Channels : ChannelOf(d)'
           /\ size' \in [WorkQueues -> Nat] => TypeOK'
<1>1. TypeOK /\ ChannelOf(c)
  BY DEF Invariant
<1>2. /\ o \in Objs /\ o \notin queue[c] /\ o \notin expired_queue[c] /\ hw[c][o] = "none"
      /\ (cached_resource[c] \ {o}) \cup queue[c] \cup expired_queue[c] = Objs \ {o}
  BY HeldObject
<1>3. /\ cached_resource'[c] = cached_resource[c] \cup {o} /\ pc'[c] = "idle"
      /\ UNCHANGED <<opts, strategy, queue, expired_queue, hw, timers, tls_counter, accepted,
                     received, discarded>>
  BY <1>1 DEF Refused, TypeOK, histVars
<1>4. ASSUME size' \in [WorkQueues -> Nat] PROVE TypeOK'
  <2>1. /\ cached_resource' \in [Channels -> SUBSET Objs]
        /\ pc' \in [Channels -> {"idle", "submit", "closed", "undefined"}]
        /\ chosen' \in [Channels -> [obj : Objs \cup {0}, wq : WorkQueues \cup {NoQueue}, result : Nat]]
    BY <1>1, <1>2 DEF Refused, TypeOK, NotChosen
  <2> QED BY Zenon, <1>1, <1>3, <1>4, <2>1 DEF TypeOK, Touches, Objects
<1>5. ASSUME NEW d \in Channels, d # c PROVE ChannelOf(d)'
  <2>1. Same(d)
    BY <1>1, <1>5 DEF Refused, histVars, Touches, Same, TypeOK
  <2> QED BY Zenon, <2>1, OthersKept DEF Invariant
<1>6. ChannelOf(c)'
  <2>1. ListsOf(c)' /\ SubmitOf(c)' /\ IdleOf(c)'
    BY SMTT(30), <1>2, <1>3, <1>1 DEF ListsOf, SubmitOf, InSubmit, IdleOf, ChannelOf
  <2>2. \A p \in queue[c] : p \in Objs /\ p # o /\ obj'[c][p] = obj[c][p]
    BY <1>1, <1>2 DEF Touches, TypeOK
  <2>3. TimersOf(c)'
    <3>1. pc[c] # "undefined"
      BY DEF Holds
    <3> QED BY <1>1, <1>3, <2>2, <3>1 DEF TimersOf, ChannelOf
  <2>4. Waiting(c)' = Waiting(c)
    BY <1>3, <2>2 DEF Waiting
  <2>5. SharedOut(c)'
    BY Zenon, <1>1, <1>3, <2>4 DEF SharedOut, ChannelOf
  <2>6. OneEach(c)' /\ InOrder(c)'
    BY Zenon, <1>1, <1>3, <2>2 DEF OneEach, InOrder, ChannelOf
  <2> QED BY <2>1, <2>3, <2>5, <2>6 DEF ChannelOf
<1> QED BY Zenon, <1>4, <1>5, <1>6

LEMMA QuotaKept ==
    ASSUME QuotaExact, size' = size,
           \A w \in WorkQueues : /\ InQueue(w)' = InQueue(w) /\ Submitting(w)' = Submitting(w)
                                 /\ Granted(w)' = Granted(w)
    PROVE  QuotaExact'
  BY Zenon DEF QuotaExact

\* Only channel c may change whether and where it submits.
LEMMA OthersSubmit ==
    ASSUME NEW c \in Channels, NEW w \in WorkQueues,
           \A d \in Channels \ {c} : pc'[d] = pc[d] /\ chosen'[d] = chosen[d]
    PROVE  /\ Submitting(w)' \ {c} = Submitting(w) \ {c}
           /\ Granted(w)' \ {c} = Granted(w) \ {c}
<1>1. Submitting(w)' \ {c} = Submitting(w) \ {c}
  BY DEF Submitting
<1>2. Granted(w)' \ {c} = Granted(w) \ {c}
  BY <1>1 DEF Granted, Submitting
<1> QED BY <1>1, <1>2

\* A step that begins and ends no Submit
LEMMA NoneSubmits ==
    ASSUME NEW c \in Channels, NEW w \in WorkQueues,
           \A d \in Channels \ {c} : pc'[d] = pc[d] /\ chosen'[d] = chosen[d],
           pc[c] # "submit", pc'[c] # "submit"
    PROVE  Submitting(w)' = Submitting(w) /\ Granted(w)' = Granted(w)
<1>1. c \notin Submitting(w) /\ c \notin Submitting(w)'
  BY DEF Submitting
<1>2. c \notin Granted(w) /\ c \notin Granted(w)'
  BY <1>1 DEF Granted
<1>3. /\ Submitting(w)' \ {c} = Submitting(w) \ {c}
      /\ Granted(w)' \ {c} = Granted(w) \ {c}
  BY Zenon, OthersSubmit
<1> QED BY <1>1, <1>2, <1>3

\* DataFlowRequest::Build
LEMMA Built ==
    ASSUME TypeOK, NEW c \in Channels, NEW o \in Objs, obj' = [obj EXCEPT ![c][o] = Build(c, o)]
    PROVE  /\ Touches(c, o) /\ obj'[c][o].req = accepted[c] + 1 /\ ~obj'[c][o].expired
           /\ obj'[c][o].work_queue = obj[c][o].work_queue
<1>1. /\ obj \in [Channels -> [Objs -> Objects]] /\ accepted[c] + 1 \in Nat
      /\ obj[c][o] \in Objects
  BY DEF TypeOK, Objects
<1>2. /\ Build(c, o) \in Objects /\ Build(c, o).req = accepted[c] + 1 /\ ~Build(c, o).expired
      /\ Build(c, o).work_queue = obj[c][o].work_queue
  BY Zenon, <1>1 DEF Build, Objects
<1>3. /\ obj' \in [Channels -> [Objs -> Objects]] /\ obj'[c][o] = Build(c, o)
      /\ \A d \in Channels : d # c => obj'[d] = obj[d]
      /\ \A p \in Objs : p # o => obj'[c][p] = obj[c][p]
  BY <1>1, <1>2
<1> QED BY Zenon, <1>2, <1>3 DEF Touches

\* The software engine uses no work queue.
LEMMA SubmitSwKeeps ==
    ASSUME Invariant, NEW c \in Channels, NEW o \in Objs, SubmitSw(c, o)
    PROVE  Invariant'
<1>1. TypeOK /\ ChannelOf(c) /\ QuotaExact
  BY DEF Invariant
<1>2. Holds(c, o) /\ pc[c] = "idle" /\ opts[c].engine_type = "kSoftware" /\ Submitted(c, o, "done")
  BY DEF SubmitSw, CanSubmit, Holds
<1>3. Touches(c, o) /\ obj'[c][o].req = accepted[c] + 1 /\ ~obj'[c][o].expired
  BY Zenon, <1>1, Built DEF SubmitSw
<1>4. TypeOK' /\ \A d \in Channels : ChannelOf(d)'
  BY <1>2, <1>3, SubmittedKeeps
<1>5. QuotaExact'
  <2>1. /\ pc' = [pc EXCEPT ![c] = "idle"] /\ chosen' = [chosen EXCEPT ![c] = NotChosen]
        /\ hw' = [hw EXCEPT ![c][o] = "done"] /\ opts' = opts /\ size' = size
    BY <1>2 DEF Submitted
  <2>2. ASSUME NEW w \in WorkQueues PROVE InQueue(w)' = InQueue(w)
    <3>1. ASSUME NEW x \in Channels \X Objs, x[1] # c
          PROVE obj'[x[1]] = obj[x[1]] /\ hw'[x[1]] = hw[x[1]]
      BY <1>1, <1>3, <2>1, <3>1 DEF Touches, TypeOK
    <3> QED BY Zenon, <1>2, <2>1, <3>1 DEF InQueue
  <2>3. ASSUME NEW w \in WorkQueues
        PROVE  Submitting(w)' = Submitting(w) /\ Granted(w)' = Granted(w)
    <3>1. /\ pc[c] # "submit" /\ pc'[c] # "submit"
          /\ \A d \in Channels \ {c} : pc'[d] = pc[d] /\ chosen'[d] = chosen[d]
      BY <1>1, <1>2, <2>1 DEF TypeOK
    <3> QED BY Zenon, <3>1, NoneSubmits
  <2> QED BY Zenon, <1>1, <2>1, <2>2, <2>3, QuotaKept
<1> QED BY Zenon, <1>4, <1>5 DEF Invariant

LEMMA SubmitDsaFailsKeeps ==
    ASSUME Invariant, NEW c \in Channels, NEW o \in Objs, SubmitDsaFails(c, o)
    PROVE  Invariant'
<1>1. TypeOK /\ ChannelOf(c) /\ QuotaExact
  BY DEF Invariant
<1>2. Holds(c, o) /\ pc[c] = "idle" /\ Refused(c, o) /\ size' = size
  BY DEF SubmitDsaFails, CanSubmit, Holds
<1>3. Touches(c, o) /\ obj'[c][o].work_queue = obj[c][o].work_queue
  BY Zenon, <1>1, Built DEF SubmitDsaFails
<1>4. TypeOK' /\ \A d \in Channels : ChannelOf(d)'
  BY Zenon, <1>1, <1>2, <1>3, RefusedKeeps DEF TypeOK
<1>5. QuotaExact'
  <2>1. /\ pc' = [pc EXCEPT ![c] = "idle"] /\ chosen' = [chosen EXCEPT ![c] = NotChosen]
        /\ hw' = hw /\ opts' = opts
    BY <1>2 DEF Refused
  <2>2. \A d \in Channels : \A p \in Objs : obj'[d][p].work_queue = obj[d][p].work_queue
    BY Zenon, <1>3 DEF Touches
  <2>3. ASSUME NEW w \in WorkQueues PROVE InQueue(w)' = InQueue(w)
    BY <2>1, <2>2 DEF InQueue
  <2>4. ASSUME NEW w \in WorkQueues
        PROVE  Submitting(w)' = Submitting(w) /\ Granted(w)' = Granted(w)
    <3>1. /\ pc[c] # "submit" /\ pc'[c] # "submit"
          /\ \A d \in Channels \ {c} : pc'[d] = pc[d] /\ chosen'[d] = chosen[d]
      BY <1>1, <1>2, <2>1 DEF TypeOK
    <3> QED BY Zenon, <3>1, NoneSubmits
  <2> QED BY Zenon, <1>1, <1>2, <2>3, <2>4, QuotaKept
<1> QED BY Zenon, <1>4, <1>5 DEF Invariant

\* fetch_add: the channel is one of those that submit to w, and is granted a place if
\* there is one.
LEMMA SubmitDsaKeeps ==
    ASSUME Invariant, NEW c \in Channels, NEW o \in Objs, NEW w \in WorkQueues, SubmitDsa(c, o, w)
    PROVE  Invariant'
<1>1. TypeOK /\ ChannelOf(c) /\ QuotaExact
  BY DEF Invariant
<1>2. /\ Holds(c, o) /\ pc[c] = "idle" /\ o \in cached_resource[c] /\ opts[c].engine_type = "kDsa"
      /\ chosen' = [chosen EXCEPT ![c] = [obj |-> o, wq |-> w, result |-> size[w]]]
      /\ size' = [size EXCEPT ![w] = @ + 1] /\ pc' = [pc EXCEPT ![c] = "submit"]
      /\ cached_resource' = [cached_resource EXCEPT ![c] = @ \ {o}]
      /\ UNCHANGED <<opts, strategy, queue, expired_queue, hw, timers, accepted, received, discarded>>
  BY DEF SubmitDsa, CanSubmit, Holds, histVars
<1>3. /\ Touches(c, o) /\ obj'[c][o].req = accepted[c] + 1 /\ ~obj'[c][o].expired
      /\ obj'[c][o].work_queue = obj[c][o].work_queue
  BY Zenon, <1>1, Built DEF SubmitDsa
<1>4. /\ chosen'[c] = [obj |-> o, wq |-> w, result |-> size[w]] /\ pc'[c] = "submit"
      /\ cached_resource'[c] = cached_resource[c] \ {o}
      /\ \A d \in Channels \ {c} : /\ pc'[d] = pc[d] /\ chosen'[d] = chosen[d]
                                   /\ cached_resource'[d] = cached_resource[d]
  BY Zenon, <1>1, <1>2 DEF TypeOK
<1>5. TypeOK'
  <2>1. tls_counter' \in [Channels -> Nat]
    <3>1. w \in Eligible(c) /\ Eligible(c) \in SUBSET WorkQueues
      BY DEF SubmitDsa, GetNext, Eligible
    <3>2. IsFiniteSet(Eligible(c)) /\ Eligible(c) # {}
      BY <3>1, ConstantTypes, FS_Subset
    <3>3. Cardinality(Eligible(c)) \in Nat \ {0}
      BY <3>2, FS_CardinalityType, FS_EmptySet
    <3>4. NextCounter(c) \in Nat
      BY <1>1, <3>3 DEF NextCounter, TypeOK
    <3>5. tls_counter' = [tls_counter EXCEPT ![c] = NextCounter(c)]
      BY DEF SubmitDsa
    <3> QED BY <1>1, <3>4, <3>5 DEF TypeOK
  <2>2. /\ pc' \in [Channels -> {"idle", "submit", "closed", "undefined"}]
        /\ cached_resource' \in [Channels -> SUBSET Objs]
    BY <1>1, <1>2 DEF TypeOK
  <2>3. size' \in [WorkQueues -> Nat]
    BY <1>1, <1>2 DEF TypeOK
  <2>4. chosen' \in [Channels -> [obj : Objs \cup {0}, wq : WorkQueues \cup {NoQueue}, result : Nat]]
    BY <1>1, <1>2 DEF TypeOK
  <2> QED BY Zenon, <1>1, <1>2, <1>3, <2>1, <2>2, <2>3, <2>4 DEF TypeOK, Touches, Objects
<1>6. ASSUME NEW d \in Channels, d # c PROVE ChannelOf(d)'
  <2>1. Same(d)
    BY Zenon, <1>2, <1>3, <1>4, <1>6 DEF Touches, Same
  <2> QED BY Zenon, <2>1, OthersKept DEF Invariant
<1>7. ChannelOf(c)'
  <2>1. /\ o \notin queue[c] /\ o \notin expired_queue[c] /\ hw[c][o] = "none"
        /\ (cached_resource[c] \ {o}) \cup queue[c] \cup expired_queue[c] = Objs \ {o}
    BY Zenon, <1>2, HeldObject
  <2>2. ListsOf(c)' /\ IdleOf(c)'
    BY SMTT(30), <1>1, <1>2, <1>4, <2>1 DEF ListsOf, InSubmit, IdleOf, ChannelOf
  <2>3. SubmitOf(c)'
    BY SMTT(30), <1>2, <1>3, <1>4, <2>1 DEF SubmitOf
  <2>4. \A p \in queue[c] : p \in Objs /\ p # o /\ obj'[c][p] = obj[c][p]
    BY Zenon, <1>1, <1>3, <2>1 DEF Touches, TypeOK
  <2>5. TimersOf(c)'
    BY Zenon, <1>1, <1>2, <1>4, <2>4 DEF TimersOf, ChannelOf
  <2>6. Waiting(c)' = Waiting(c)
    BY Zenon, <1>2, <2>4 DEF Waiting
  <2>7. SharedOut(c)'
    BY Zenon, <1>1, <1>2, <2>6 DEF SharedOut, ChannelOf
  <2>8. OneEach(c)' /\ InOrder(c)'
    BY ZenonT(40), <1>1, <1>2, <2>4 DEF OneEach, InOrder, ChannelOf
  <2> QED BY <2>2, <2>3, <2>5, <2>7, <2>8 DEF ChannelOf
<1>8. QuotaExact'
  <2>1. ASSUME NEW v \in WorkQueues PROVE InQueue(v)' = InQueue(v)
    <3>1. \A d \in Channels : \A q \in Objs : obj'[d][q].work_queue = obj[d][q].work_queue
      BY Zenon, <1>3 DEF Touches
    <3> QED BY Zenon, <1>2, <3>1 DEF InQueue
  <2>2. ASSUME NEW v \in WorkQueues, v # w
        PROVE  Submitting(v)' = Submitting(v) /\ Granted(v)' = Granted(v)
    <3>1. c \notin Submitting(v) /\ c \notin Submitting(v)'
      BY <1>2, <1>4, <2>2 DEF Submitting
    <3>2. c \notin Granted(v) /\ c \notin Granted(v)'
      BY <3>1 DEF Granted
    <3>3. /\ Submitting(v)' \ {c} = Submitting(v) \ {c}
          /\ Granted(v)' \ {c} = Granted(v) \ {c}
      BY Zenon, <1>4, OthersSubmit
    <3> QED BY <3>1, <3>2, <3>3
  <2>3. c \notin Submitting(w) /\ c \in Submitting(w)'
    BY <1>2, <1>4 DEF Submitting
  <2>4. /\ Submitting(w)' \ {c} = Submitting(w) \ {c}
        /\ Granted(w)' \ {c} = Granted(w) \ {c}
    BY Zenon, <1>4, OthersSubmit
  <2>5. Submitting(w)' = Submitting(w) \cup {c}
    BY <2>3, <2>4
  <2>6. \/ size[w] < Capacity[w] /\ Granted(w)' = Granted(w) \cup {c}
        \/ Granted(w)' = Granted(w)
    <3>1. c \notin Granted(w) /\ (c \in Granted(w)' <=> size[w] < Capacity[w])
      BY <2>3, <1>4 DEF Granted
    <3> QED BY <2>4, <3>1
  <2>7. /\ size[w] = Cardinality(InQueue(w)) + Cardinality(Submitting(w))
        /\ Cardinality(InQueue(w)) + Cardinality(Granted(w)) <= Capacity[w]
    BY <1>1 DEF QuotaExact
  <2>8. /\ IsFiniteSet(Submitting(w)) /\ IsFiniteSet(Granted(w))
        /\ Cardinality(InQueue(w)) \in Nat /\ Cardinality(Submitting(w)) \in Nat
        /\ Cardinality(Granted(w)) \in Nat /\ Cardinality(Granted(w)) <= Cardinality(Submitting(w))
    BY Finite
  <2>9. Cardinality(Submitting(w)') = Cardinality(Submitting(w)) + 1
    BY Zenon, <2>3, <2>5, <2>8, FS_AddElement
  <2>10. \/ Cardinality(Granted(w)') = Cardinality(Granted(w))
         \/ size[w] < Capacity[w] /\ Cardinality(Granted(w)') = Cardinality(Granted(w)) + 1
    <3>1. c \notin Granted(w)
      BY <2>3 DEF Granted
    <3>2. Cardinality(Granted(w) \cup {c}) = Cardinality(Granted(w)) + 1
      BY Zenon, <2>8, <3>1, FS_AddElement
    <3> QED BY Zenon, <2>6, <3>2
  <2>11. Cardinality(Granted(w)') \in Nat /\ Capacity[w] \in Nat /\ size'[w] = size[w] + 1
    <3>1. IsFiniteSet(Granted(w)')
      <4>1. IsFiniteSet(Granted(w) \cup {c})
        BY <2>8, FS_AddElement
      <4> QED BY Zenon, <2>6, <2>8, <4>1
    <3> QED BY <3>1, <1>1, <1>2, ConstantTypes, FS_CardinalityType DEF TypeOK
  <2>12. ASSUME NEW v \in WorkQueues
         PROVE  /\ size'[v] = Cardinality(InQueue(v)') + Cardinality(Submitting(v)')
                /\ Cardinality(InQueue(v)') + Cardinality(Granted(v)') <= Capacity[v]
    <3>1. CASE v = w
      <4>1. InQueue(w)' = InQueue(w)
        BY <2>1
      <4>2. /\ size'[w] = Cardinality(InQueue(w)) + Cardinality(Submitting(w)')
            /\ Cardinality(InQueue(w)) + Cardinality(Granted(w)') <= Capacity[w]
        BY <2>7, <2>8, <2>9, <2>10, <2>11
      <4> QED BY Zenon, <3>1, <4>1, <4>2
    <3>2. CASE v # w
      <4>1. size'[v] = size[v]
        BY Zenon, <1>1, <1>2, <3>2 DEF TypeOK
      <4> QED BY Zenon, <1>1, <2>1, <2>2, <3>2, <4>1 DEF QuotaExact
    <3> QED BY <3>1, <3>2
  <2> QED BY Zenon, <2>12 DEF QuotaExact
<1> QED BY Zenon, <1>5, <1>6, <1>7, <1>8 DEF Invariant

\* The channel leaves DsaDispatcher::Submit.
LEMMA SubmitEnds ==
    ASSUME NEW c \in Channels, NEW w \in WorkQueues, w = chosen[c].wq,
           pc[c] = "submit", pc'[c] = "idle",
           \A d \in Channels \ {c} : pc'[d] = pc[d] /\ chosen'[d] = chosen[d]
    PROVE  /\ Cardinality(Submitting(w)') = Cardinality(Submitting(w)) - 1
           /\ Granted(w)' = Granted(w) \ {c}
           /\ \A v \in WorkQueues \ {w} : Submitting(v)' = Submitting(v) /\ Granted(v)' = Granted(v)
<1>2. ASSUME NEW v \in WorkQueues
      PROVE  Submitting(v)' = Submitting(v) \ {c} /\ Granted(v)' = Granted(v) \ {c}
  <2>1. c \notin Submitting(v)' /\ c \notin Granted(v)'
    BY DEF Submitting, Granted
  <2>2. /\ Submitting(v)' \ {c} = Submitting(v) \ {c} /\ Granted(v)' \ {c} = Granted(v) \ {c}
    BY Zenon, OthersSubmit
  <2> QED BY <2>1, <2>2
<1>3. ASSUME NEW v \in WorkQueues, v # w
      PROVE  Submitting(v)' = Submitting(v) /\ Granted(v)' = Granted(v)
  <2>1. c \notin Submitting(v) /\ c \notin Granted(v)
    BY <1>3 DEF Submitting, Granted
  <2> QED BY <1>2, <2>1
<1>4. Cardinality(Submitting(w)') = Cardinality(Submitting(w)) - 1
  <2>1. c \in Submitting(w)
    BY DEF Submitting
  <2>2. IsFiniteSet(Submitting(w))
    BY Finite
  <2>3. Cardinality(Submitting(w) \ {c}) = Cardinality(Submitting(w)) - 1
    BY Zenon, <2>1, <2>2, FS_RemoveElement
  <2>4. Submitting(w)' = Submitting(w) \ {c}
    BY <1>2
  <2> QED BY Zenon, <2>3, <2>4
<1> QED BY Zenon, <1>2, <1>3, <1>4

\* fetch_sub: the channel was granted no place.
LEMMA BusyKeeps ==
    ASSUME Invariant, NEW c \in Channels, DsaBusy(c)
    PROVE  Invariant'
<1>1. TypeOK /\ ChannelOf(c) /\ QuotaExact
  BY DEF Invariant
<1>0. PICK w \in WorkQueues : w = chosen[c].wq
  BY Zenon, <1>1 DEF DsaBusy, ChannelOf, SubmitOf
<1>2. /\ pc[c] = "submit" /\ Holds(c, chosen[c].obj) /\ Refused(c, chosen[c].obj)
      /\ size' = [size EXCEPT ![w] = @ - 1] /\ obj' = obj /\ chosen[c].result >= Capacity[w]
  BY <1>0 DEF DsaBusy, Holds
<1>3. /\ pc'[c] = "idle" /\ hw' = hw /\ opts' = opts
      /\ \A d \in Channels \ {c} : pc'[d] = pc[d] /\ chosen'[d] = chosen[d]
  BY <1>1, <1>2 DEF Refused, TypeOK
<1>4. /\ Cardinality(Submitting(w)') = Cardinality(Submitting(w)) - 1
      /\ Granted(w)' = Granted(w) \ {c}
      /\ \A v \in WorkQueues \ {w} : Submitting(v)' = Submitting(v) /\ Granted(v)' = Granted(v)
  BY Zenon, <1>0, <1>2, <1>3, SubmitEnds
<1>5. Touches(c, chosen[c].obj)
  BY Zenon, <1>1, <1>2 DEF Touches, TypeOK, Objects
<1>6. \A v \in WorkQueues : InQueue(v)' = InQueue(v)
  BY Zenon, <1>2, <1>3 DEF InQueue
<1>7. Granted(w)' = Granted(w)
  <2>1. chosen[c].result \in Nat /\ Capacity[w] \in Nat
    BY <1>1, <1>4, ConstantTypes DEF TypeOK
  <2>2. c \notin Granted(w)
    BY <1>0, <1>2, <2>1 DEF Granted
  <2> QED BY <1>4, <2>2
<1>8. QuotaExact' /\ size' \in [WorkQueues -> Nat]
  <2>1. /\ Cardinality(InQueue(w)) \in Nat /\ Cardinality(Submitting(w)) \in Nat
    BY Zenon, <1>4, Finite
  <2>2. c \in Submitting(w) /\ Submitting(w) # {}
    BY <1>0, <1>2 DEF Submitting
  <2>3. Cardinality(Submitting(w)) # 0
    BY <1>4, <2>2, Finite, FS_EmptySet
  <2>4. size[w] = Cardinality(InQueue(w)) + Cardinality(Submitting(w))
    BY <1>1, <1>4 DEF QuotaExact
  <2>5. size[w] - 1 \in Nat /\ size[w] - 1 = Cardinality(InQueue(w)) + (Cardinality(Submitting(w)) - 1)
    BY <2>1, <2>3, <2>4
  <2>6. size' \in [WorkQueues -> Nat] /\ size'[w] = size[w] - 1
    BY Zenon, <1>1, <1>2, <1>4, <2>5 DEF TypeOK
  <2>7. ASSUME NEW v \in WorkQueues
        PROVE  /\ size'[v] = Cardinality(InQueue(v)') + Cardinality(Submitting(v)')
               /\ Cardinality(InQueue(v)') + Cardinality(Granted(v)') <= Capacity[v]
    <3>1. CASE v = w
      BY Zenon, <1>1, <1>4, <1>6, <1>7, <2>5, <2>6, <3>1 DEF QuotaExact
    <3>2. CASE v # w
      <4>1. size'[v] = size[v]
        BY Zenon, <1>1, <1>2, <3>2 DEF TypeOK
      <4> QED BY Zenon, <1>1, <1>4, <1>6, <3>2, <4>1 DEF QuotaExact
    <3> QED BY Zenon, <3>1, <3>2
  <2> QED BY Zenon, <2>6, <2>7 DEF QuotaExact
<1>9. TypeOK' /\ \A d \in Channels : ChannelOf(d)'
  BY Zenon, <1>2, <1>5, <1>8, RefusedKeeps
<1> QED BY Zenon, <1>8, <1>9 DEF Invariant

\* The place that was granted is taken: the request is in the work queue.
LEMMA DsaAcceptedKeeps ==
    ASSUME Invariant, NEW c \in Channels, DsaAccepted(c)
    PROVE  Invariant'
<1>1. TypeOK /\ ChannelOf(c) /\ QuotaExact
  BY DEF Invariant
<1>0. PICK w \in WorkQueues : w = chosen[c].wq
  BY Zenon, <1>1 DEF DsaAccepted, ChannelOf, SubmitOf
<1>o. PICK o : o = chosen[c].obj
  OBVIOUS
<1>2. /\ pc[c] = "submit" /\ Holds(c, o) /\ Submitted(c, o, "wip")
      /\ obj' = [obj EXCEPT ![c][o].work_queue = w] /\ chosen[c].result < Capacity[w]
  BY <1>0, <1>o DEF DsaAccepted, Holds
<1>3. /\ pc'[c] = "idle" /\ hw' = [hw EXCEPT ![c][o] = "wip"] /\ opts' = opts /\ size' = size
      /\ \A d \in Channels \ {c} : pc'[d] = pc[d] /\ chosen'[d] = chosen[d]
  BY <1>1, <1>2 DEF Submitted, TypeOK
<1>4. /\ Cardinality(Submitting(w)') = Cardinality(Submitting(w)) - 1
      /\ Granted(w)' = Granted(w) \ {c}
      /\ \A v \in WorkQueues \ {w} : Submitting(v)' = Submitting(v) /\ Granted(v)' = Granted(v)
  BY Zenon, <1>0, <1>2, <1>3, SubmitEnds
<1>5. o \in Objs /\ hw[c][o] = "none" /\ opts[c].engine_type = "kDsa"
      /\ obj[c][o].req = accepted[c] + 1 /\ ~obj[c][o].expired
  <2>1. o \in Objs /\ hw[c][o] = "none"
    BY Zenon, <1>2, HeldObject
  <2> QED BY Zenon, <1>o, <1>1, <1>2, <2>1 DEF ChannelOf, SubmitOf
<1>6. Touches(c, o) /\ obj'[c][o].req = accepted[c] + 1 /\ ~obj'[c][o].expired
      /\ obj'[c][o].work_queue = w
  <2>1. obj \in [Channels -> [Objs -> Objects]] /\ obj[c][o] \in Objects
    BY <1>1, <1>5 DEF TypeOK, Objects
  <2>2. obj' = [obj EXCEPT ![c][o] = [obj[c][o] EXCEPT !.work_queue = w]]
    BY <1>2, <1>5, <2>1
  <2> DEFINE x == [obj[c][o] EXCEPT !.work_queue = w]
  <2>3. x \in Objects /\ x.req = obj[c][o].req /\ x.expired = obj[c][o].expired /\ x.work_queue = w
    BY <1>4, <2>1 DEF Objects
  <2>4. /\ obj' \in [Channels -> [Objs -> Objects]] /\ obj'[c][o] = x
        /\ \A d \in Channels : d # c => obj'[d] = obj[d]
        /\ \A p \in Objs : p # o => obj'[c][p] = obj[c][p]
    <3> HIDE DEF x
    <3>1. obj' = [obj EXCEPT ![c][o] = x]
      BY <2>2 DEF x
    <3> QED BY <1>5, <2>1, <2>3, <3>1
  <2> QED BY Zenon, <1>5, <2>3, <2>4 DEF Touches
<1>7. TypeOK' /\ \A d \in Channels : ChannelOf(d)'
  BY <1>2, <1>6, SubmittedKeeps
<1>8. /\ hw'[c][o] = "wip"
      /\ \A d \in Channels : \A p \in Objs : d # c \/ p # o => hw'[d][p] = hw[d][p]
  BY <1>1, <1>3, <1>5 DEF TypeOK
<1>9. ASSUME NEW v \in WorkQueues, v # w PROVE InQueue(v)' = InQueue(v)
  <2>1. ASSUME NEW x \in Channels \X Objs
        PROVE  x \in InQueue(v)' <=> x \in InQueue(v)
    <3>1. CASE x[1] = c /\ x[2] = o
      BY Zenon, <1>3, <1>5, <1>6, <1>9, <3>1 DEF InQueue
    <3>2. CASE x[1] # c \/ x[2] # o
      <4>1. /\ hw'[x[1]][x[2]] = hw[x[1]][x[2]] /\ obj'[x[1]][x[2]] = obj[x[1]][x[2]]
        BY <1>6, <1>8, <3>2 DEF Touches
      <4> QED BY Zenon, <1>3, <4>1 DEF InQueue
    <3> QED BY <3>1, <3>2
  <2> QED BY <2>1 DEF InQueue
<1>10. InQueue(w)' = InQueue(w) \cup {<<c, o>>} /\ <<c, o>> \notin InQueue(w)
  <2>1. <<c, o>> \in Channels \X Objs /\ <<c, o>>[1] = c /\ <<c, o>>[2] = o
    BY <1>5
  <2>2. <<c, o>> \notin InQueue(w) /\ <<c, o>> \in InQueue(w)'
    BY <1>3, <1>5, <1>6, <1>8, <2>1 DEF InQueue
  <2>3. ASSUME NEW x \in Channels \X Objs, x # <<c, o>>
        PROVE  x \in InQueue(w)' <=> x \in InQueue(w)
    <3>1. x[1] # c \/ x[2] # o
      BY <2>3
    <3>2. /\ hw'[x[1]][x[2]] = hw[x[1]][x[2]] /\ obj'[x[1]][x[2]] = obj[x[1]][x[2]]
      BY <1>6, <1>8, <3>1 DEF Touches
    <3> QED BY Zenon, <1>3, <3>2 DEF InQueue
  <2>4. InQueue(w) \subseteq Channels \X Objs /\ InQueue(w)' \subseteq Channels \X Objs
    BY DEF InQueue
  <2> QED BY <2>2, <2>3, <2>4
<1>11. QuotaExact'
  <2>1. Cardinality(InQueue(w)') = Cardinality(InQueue(w)) + 1
    <3>1. Cardinality(InQueue(w) \cup {<<c, o>>}) = Cardinality(InQueue(w)) + 1
      BY Zenon, <1>4, <1>10, Finite, FS_AddElement
    <3> QED BY Zenon, <1>10, <3>1
  <2>2. Cardinality(Granted(w)') = Cardinality(Granted(w)) - 1
    <3>1. c \in Granted(w)
      BY <1>0, <1>2 DEF Granted, Submitting
    <3>2. Cardinality(Granted(w) \ {c}) = Cardinality(Granted(w)) - 1
      BY Zenon, <1>4, <3>1, Finite, FS_RemoveElement
    <3> QED BY Zenon, <1>4, <3>2
  <2>3. /\ Cardinality(InQueue(w)) \in Nat /\ Cardinality(Submitting(w)) \in Nat
        /\ Cardinality(Granted(w)) \in Nat
    BY <1>4, Finite
  <2>4. /\ size'[w] = Cardinality(InQueue(w)') + Cardinality(Submitting(w)')
        /\ Cardinality(InQueue(w)') + Cardinality(Granted(w)') <= Capacity[w]
    <3>1. /\ size[w] = Cardinality(InQueue(w)) + Cardinality(Submitting(w))
          /\ Cardinality(InQueue(w)) + Cardinality(Granted(w)) <= Capacity[w]
      BY Zenon, <1>1, <1>4 DEF QuotaExact
    <3> QED BY <1>3, <1>4, <2>1, <2>2, <2>3, <3>1
  <2>5. ASSUME NEW v \in WorkQueues, v # w
        PROVE  /\ size'[v] = Cardinality(InQueue(v)') + Cardinality(Submitting(v)')
               /\ Cardinality(InQueue(v)') + Cardinality(Granted(v)') <= Capacity[v]
    BY Zenon, <1>1, <1>3, <1>4, <1>9, <2>5 DEF QuotaExact
  <2> QED BY Zenon, <2>4, <2>5 DEF QuotaExact
<1> QED BY Zenon, <1>7, <1>11 DEF Invariant

\* The device writes a record; the request stays where it is.
LEMMA HardwareCompletesKeeps ==
    ASSUME Invariant, NEW c \in Channels, NEW o \in Objs, HardwareCompletes(c, o)
    PROVE  Invariant'
<1>1. TypeOK /\ QuotaExact /\ \A d \in Channels : ChannelOf(d)
  BY DEF Invariant
<1>2. /\ UNCHANGED <<opts, strategy, pc, cached_resource, queue, expired_queue, obj, timers, size,
                     tls_counter, chosen, accepted, received, discarded>>
      /\ hw[c][o] = "wip" /\ hw' = [hw EXCEPT ![c][o] = "done"]
  BY DEF HardwareCompletes, listVars, histVars
<1>3. hw' \in [Channels -> [Objs -> {"none", "wip", "done"}]]
      /\ \A d \in Channels : \A p \in Objs : (hw'[d][p] = "none") <=> (hw[d][p] = "none")
  BY Zenon, <1>1, <1>2 DEF TypeOK
<1>4. TypeOK'
  BY Zenon, <1>1, <1>2, <1>3 DEF TypeOK
<1>5. ASSUME NEW d \in Channels PROVE ChannelOf(d)'
  <2>1. ListsOf(d)' /\ TimersOf(d)' /\ SharedOut(d)' /\ OneEach(d)' /\ InOrder(d)'
    <3>1. InSubmit(d)' = InSubmit(d) /\ Waiting(d)' = Waiting(d)
      BY Zenon, <1>2 DEF InSubmit, Waiting
    <3>2. ListsOf(d)' /\ TimersOf(d)'
      BY Zenon, <1>1, <1>2, <3>1 DEF ChannelOf, ListsOf, TimersOf
    <3>3. SharedOut(d)'
      BY Zenon, <1>1, <1>2, <3>1 DEF ChannelOf, SharedOut
    <3>4. OneEach(d)' /\ InOrder(d)'
      BY Zenon, <1>1, <1>2 DEF ChannelOf, OneEach, InOrder
    <3> QED BY <3>2, <3>3, <3>4
  <2>2. cached_resource[d] \subseteq Objs
    BY <1>1 DEF TypeOK
  <2>3. IdleOf(d)'
    BY <1>1, <1>2, <1>3, <2>2 DEF ChannelOf, IdleOf
  <2>4. SubmitOf(d)'
    <3>1. pc[d] = "submit" => chosen[d].obj \in Objs
      BY <1>1 DEF ChannelOf, ListsOf, InSubmit
    <3> QED BY Zenon, <1>1, <1>2, <1>3, <3>1 DEF ChannelOf, SubmitOf
  <2> QED BY <2>1, <2>3, <2>4 DEF ChannelOf
<1>6. ASSUME NEW w \in WorkQueues
      PROVE  InQueue(w)' = InQueue(w) /\ Submitting(w)' = Submitting(w) /\ Granted(w)' = Granted(w)
  BY <1>2, <1>3 DEF InQueue, Submitting, Granted
<1> QED BY Zenon, <1>1, <1>2, <1>4, <1>5, <1>6, QuotaKept DEF Invariant

\* CheckCompletion of the completed objects in s takes them out of the work queues, and
\* NotifyCompletion out of the counters.
LEMMA CompletedLeave ==
    ASSUME Invariant, NEW c \in Channels, NEW s \in SUBSET Objs,
           \A o \in s : hw[c][o] = "done",
           hw' = [hw EXCEPT ![c] = Checked(c, s)], size' = NotifyCompletion(c, s),
           UNCHANGED <<opts, chosen>>, pc[c] = "idle", pc'[c] # "submit",
           \A d \in Channels \ {c} : pc'[d] = pc[d],
           \A d \in Channels : \A o \in Objs : obj'[d][o].work_queue = obj[d][o].work_queue
    PROVE  /\ QuotaExact' /\ size' \in [WorkQueues -> Nat]
           /\ hw' \in [Channels -> [Objs -> {"none", "wip", "done"}]]
           /\ \A o \in Objs : hw'[c][o] = IF o \in s THEN "none" ELSE hw[c][o]
           /\ \A d \in Channels \ {c} : hw'[d] = hw[d]
<1>1. TypeOK /\ QuotaExact
  BY Zenon DEF Invariant
<1>2. /\ hw' \in [Channels -> [Objs -> {"none", "wip", "done"}]]
      /\ \A o \in Objs : hw'[c][o] = IF o \in s THEN "none" ELSE hw[c][o]
      /\ \A d \in Channels \ {c} : hw'[d] = hw[d]
  <2>1. /\ Checked(c, s) \in [Objs -> {"none", "wip", "done"}]
        /\ \A o \in Objs : Checked(c, s)[o] = IF o \in s THEN "none" ELSE hw[c][o]
    BY <1>1 DEF Checked, TypeOK
  <2>2. hw'[c] = Checked(c, s)
    BY <1>1 DEF TypeOK
  <2>3. hw' \in [Channels -> [Objs -> {"none", "wip", "done"}]]
        /\ \A d \in Channels \ {c} : hw'[d] = hw[d]
    BY <1>1, <2>1 DEF TypeOK
  <2> QED BY Zenon, <2>1, <2>2, <2>3
<1>3. ASSUME NEW w \in WorkQueues
      PROVE  /\ size'[w] = Cardinality(InQueue(w)') + Cardinality(Submitting(w)')
             /\ Cardinality(InQueue(w)') + Cardinality(Granted(w)') <= Capacity[w]
             /\ size'[w] \in Nat
  <2>1. PICK t : t = {o \in s : opts[c].engine_type = "kDsa" /\ obj[c][o].work_queue = w}
    BY Zenon
  <2>2. size'[w] = size[w] - Cardinality(t)
    BY Zenon, <2>1 DEF NotifyCompletion
  <2>3. {c} \X t \subseteq InQueue(w)
    BY <2>1 DEF InQueue
  <2>4. InQueue(w)' = InQueue(w) \ ({c} \X t)
    <3>1. ASSUME NEW x \in Channels \X Objs
          PROVE  x \in InQueue(w)' <=> x \in InQueue(w) /\ x \notin {c} \X t
      <4>1. CASE x[1] = c
        <5>1. x \in {c} \X t <=> x[2] \in t
          BY <4>1
        <5> QED BY <1>2, <2>1, <4>1, <5>1 DEF InQueue
      <4>2. CASE x[1] # c
        <5>1. x \notin {c} \X t /\ hw'[x[1]] = hw[x[1]]
          BY <1>2, <4>2
        <5>2. x[1] \in Channels /\ x[2] \in Objs
          OBVIOUS
        <5>3. x \in InQueue(w)' <=> x \in InQueue(w)
          BY Zenon, <5>1, <5>2 DEF InQueue
        <5> QED BY <5>1, <5>3
      <4> QED BY <4>1, <4>2
    <3>2. InQueue(w) \subseteq Channels \X Objs /\ InQueue(w)' \subseteq Channels \X Objs
      BY DEF InQueue
    <3> QED BY <3>1, <3>2
  <2>5. IsFiniteSet(t) /\ Cardinality(t) \in Nat /\ Cardinality({c} \X t) = Cardinality(t)
    <3>1. t \in SUBSET Objs
      BY <2>1
    <3>2. IsFiniteSet(t)
      BY Zenon, <3>1, ConstantTypes, FS_Subset
    <3>3. IsFiniteSet({c}) /\ Cardinality({c}) = 1
      BY Zenon, FS_Singleton
    <3>4. Cardinality(t) \in Nat /\ Cardinality({c} \X t) = 1 * Cardinality(t)
      BY <3>2, <3>3, FS_Product, FS_CardinalityType
    <3> QED BY <3>2, <3>4
  <2>6. IsFiniteSet(InQueue(w)) /\ Cardinality(InQueue(w)) \in Nat
        /\ Cardinality(Submitting(w)) \in Nat /\ Cardinality(Granted(w)) \in Nat
    BY Zenon, Finite
  <2>7. Cardinality(InQueue(w)') = Cardinality(InQueue(w)) - Cardinality(t)
        /\ Cardinality(InQueue(w)') \in Nat
    <3>1. InQueue(w) \cap ({c} \X t) = {c} \X t
      BY <2>3
    <3>2. /\ IsFiniteSet(InQueue(w) \ ({c} \X t))
          /\ Cardinality(InQueue(w) \ ({c} \X t)) = Cardinality(InQueue(w)) - Cardinality(t)
      <4>1. /\ IsFiniteSet(InQueue(w) \ ({c} \X t))
            /\ Cardinality(InQueue(w) \ ({c} \X t))
                  = Cardinality(InQueue(w)) - Cardinality(InQueue(w) \cap ({c} \X t))
        BY Zenon, <2>6, FS_Difference
      <4> QED BY Zenon, <2>5, <3>1, <4>1
    <3>3. Cardinality(InQueue(w) \ ({c} \X t)) \in Nat
      BY <3>2, FS_CardinalityType
    <3> QED BY Zenon, <2>4, <3>2, <3>3
  <2>8. Submitting(w)' = Submitting(w) /\ Granted(w)' = Granted(w)
    BY Zenon, NoneSubmits
  <2>9. /\ size[w] = Cardinality(InQueue(w)) + Cardinality(Submitting(w))
        /\ Cardinality(InQueue(w)) + Cardinality(Granted(w)) <= Capacity[w]
        /\ Capacity[w] \in Nat
    BY Zenon, <1>1, ConstantTypes DEF QuotaExact
  <2>10. Cardinality(Submitting(w)') = Cardinality(Submitting(w))
         /\ Cardinality(Granted(w)') = Cardinality(Granted(w))
    BY Zenon, <2>8
  <2> QED BY <2>2, <2>5, <2>6, <2>7, <2>9, <2>10
<1>4. size' \in [WorkQueues -> Nat]
  <2>1. size' = [w \in WorkQueues |-> size'[w]]
    BY Zenon DEF NotifyCompletion
  <2> QED BY <1>3, <2>1
<1> QED BY Zenon, <1>2, <1>3, <1>4 DEF QuotaExact

\* The requests of the objects in D leave the queue.
LEMMA WaitingParts ==
    ASSUME NEW c \in Channels, OneEach(c), NEW D \in SUBSET queue[c]
    PROVE  LET gone == {obj[c][o].req : o \in D}
               left == {obj[c][o].req : o \in queue[c] \ D}
           IN  Waiting(c) = left \cup gone /\ left \cap gone = {}
<1> DEFINE gone == {obj[c][o].req : o \in D}
           left == {obj[c][o].req : o \in queue[c] \ D}
<1>1. ASSUME NEW x \in Waiting(c) PROVE x \in left \cup gone
  <2>1. PICK o \in queue[c] : x = obj[c][o].req
    BY Zenon DEF Waiting
  <2> QED BY Zenon, <2>1
<1>2. gone \subseteq Waiting(c) /\ left \subseteq Waiting(c)
  BY Zenon DEF Waiting
<1>3. ASSUME NEW x \in left, x \in gone PROVE FALSE
  <2>1. PICK o \in queue[c] \ D : x = obj[c][o].req
    BY Zenon
  <2>2. PICK p \in D : x = obj[c][p].req
    BY Zenon, <1>3
  <2> QED BY Zenon, <2>1, <2>2 DEF OneEach
<1> HIDE DEF gone, left
<1>4. Waiting(c) = left \cup gone /\ left \cap gone = {}
  BY <1>1, <1>2, <1>3
<1> QED BY Zenon, <1>4 DEF gone, left

\* Close discards what has completed.
LEMMA CloseKeeps ==
    ASSUME Invariant, NEW c \in Channels, Close(c)
    PROVE  Invariant'
<1>1. TypeOK /\ ChannelOf(c)
  BY DEF Invariant
<1>2. PICK done, late : done = Completed(c, queue[c]) /\ late = Completed(c, expired_queue[c])
  OBVIOUS
<1>3. PICK s : s = done \cup late
  BY Zenon
<1>4. /\ pc[c] = "idle"
      /\ queue' = [queue EXCEPT ![c] = @ \ done]
      /\ expired_queue' = [expired_queue EXCEPT ![c] = @ \ late]
      /\ cached_resource' = [cached_resource EXCEPT ![c] = @ \cup done \cup late]
      /\ hw' = [hw EXCEPT ![c] = Checked(c, s)]
      /\ size' = NotifyCompletion(c, s)
      /\ timers' = [timers EXCEPT ![c] = @ \ done]
      /\ discarded' = [discarded EXCEPT ![c] = @ \cup {obj[c][o].req : o \in done}]
      /\ UNCHANGED <<opts, strategy, obj, tls_counter, chosen, accepted, received>>
  BY Zenon, <1>2, <1>3 DEF Close
<1>5. /\ pc' \in [Channels -> {"idle", "submit", "closed", "undefined"}]
      /\ pc'[c] # "submit" /\ \A d \in Channels \ {c} : pc'[d] = pc[d]
  BY Zenon, <1>1 DEF Close, TypeOK
<1>6. done \subseteq queue[c] /\ late \subseteq expired_queue[c]
      /\ s \in SUBSET Objs /\ \A o \in s : hw[c][o] = "done"
  BY Zenon, <1>1, <1>2, <1>3 DEF Completed, TypeOK
<1>7. /\ QuotaExact' /\ size' \in [WorkQueues -> Nat]
      /\ hw' \in [Channels -> [Objs -> {"none", "wip", "done"}]]
      /\ \A o \in Objs : hw'[c][o] = IF o \in s THEN "none" ELSE hw[c][o]
      /\ \A d \in Channels \ {c} : hw'[d] = hw[d]
  BY ZenonT(40), <1>4, <1>5, <1>6, CompletedLeave
<1>8. /\ queue'[c] = queue[c] \ done /\ expired_queue'[c] = expired_queue[c] \ late
      /\ cached_resource'[c] = cached_resource[c] \cup done \cup late
      /\ timers'[c] = timers[c] \ done
      /\ discarded'[c] = discarded[c] \cup {obj[c][o].req : o \in done}
      /\ \A d \in Channels \ {c} :
            /\ queue'[d] = queue[d] /\ expired_queue'[d] = expired_queue[d]
            /\ cached_resource'[d] = cached_resource[d] /\ timers'[d] = timers[d]
            /\ discarded'[d] = discarded[d]
  BY Zenon, <1>1, <1>4 DEF TypeOK
<1>9. TypeOK'
  <2>1. done \subseteq Objs /\ late \subseteq Objs
    BY <1>3, <1>6
  <2>2. /\ queue' \in [Channels -> SUBSET Objs] /\ expired_queue' \in [Channels -> SUBSET Objs]
        /\ cached_resource' \in [Channels -> SUBSET Objs] /\ timers' \in [Channels -> SUBSET Objs]
    BY Zenon, <1>1, <1>4, <2>1 DEF TypeOK
  <2>3. {obj[c][o].req : o \in done} \subseteq Nat
    BY <1>1, <2>1 DEF TypeOK
  <2>4. discarded' \in [Channels -> SUBSET Nat]
    BY Zenon, <1>1, <1>4, <2>3 DEF TypeOK
  <2> QED BY Zenon, <1>1, <1>4, <1>5, <1>7, <2>2, <2>4 DEF TypeOK
<1>10. ASSUME NEW d \in Channels, d # c PROVE ChannelOf(d)'
  <2>1. Same(d)
    BY Zenon, <1>4, <1>5, <1>7, <1>8, <1>10 DEF Same
  <2> QED BY Zenon, <2>1, OthersKept DEF Invariant
<1>11. ChannelOf(c)'
  <2>1. InSubmit(c) = {} /\ InSubmit(c)' = {}
    BY Zenon, <1>4, <1>5 DEF InSubmit
  <2>2. ListsOf(c)'
    BY Zenon, <1>1, <1>6, <1>8, <2>1 DEF ListsOf, ChannelOf
  <2>3. SubmitOf(c)'
    BY Zenon, <1>5 DEF SubmitOf
  <2>4. IdleOf(c)'
    <3>1. cached_resource[c] \subseteq Objs /\ done \cup late \subseteq Objs
      BY Zenon, <1>1, <1>3, <1>6 DEF TypeOK
    <3> QED BY Zenon, <1>1, <1>3, <1>7, <1>8, <3>1 DEF IdleOf, ChannelOf
  <2>5. TimersOf(c)'
    BY Zenon, <1>1, <1>4, <1>8 DEF TimersOf, ChannelOf
  <2>6. Waiting(c)' = {obj[c][o].req : o \in queue[c] \ done}
    BY ZenonT(40), <1>4, <1>8 DEF Waiting
  <2>7. /\ Waiting(c) = Waiting(c)' \cup {obj[c][o].req : o \in done}
        /\ Waiting(c)' \cap {obj[c][o].req : o \in done} = {}
    BY Zenon, <1>1, <1>6, <2>6, WaitingParts DEF ChannelOf
  <2>8. SharedOut(c)'
    BY Zenon, <1>1, <1>4, <1>8, <2>7 DEF SharedOut, ChannelOf
  <2>9. OneEach(c)' /\ InOrder(c)'
    BY Zenon, <1>1, <1>4, <1>8 DEF OneEach, InOrder, ChannelOf
  <2> QED BY <2>2, <2>3, <2>4, <2>5, <2>8, <2>9 DEF ChannelOf
<1> QED BY Zenon, <1>7, <1>9, <1>10, <1>11 DEF Invariant

LEMMA Appended ==
    ASSUME NEW s \in Seq(Nat), NEW t \in Seq(Nat)
    PROVE  /\ s \o t \in Seq(Nat)
           /\ \A i \in DOMAIN (s \o t) :
                 \/ i <= Len(s) /\ i \in DOMAIN s /\ (s \o t)[i] = s[i]
                 \/ i > Len(s) /\ i - Len(s) \in DOMAIN t /\ (s \o t)[i] = t[i - Len(s)]
           /\ Range(s \o t) = Range(s) \cup Range(t)
<1> DEFINE e == s \o t
<1>1. /\ e \in Seq(Nat) /\ DOMAIN e = 1 .. Len(s) + Len(t)
      /\ DOMAIN s = 1 .. Len(s) /\ DOMAIN t = 1 .. Len(t) /\ Len(s) \in Nat /\ Len(t) \in Nat
  OBVIOUS
<1>0. \A i \in 1 .. Len(s) + Len(t) : e[i] = IF i <= Len(s) THEN s[i] ELSE t[i - Len(s)]
  OBVIOUS
<1> HIDE DEF e
<1>2. ASSUME NEW i \in DOMAIN e
      PROVE  \/ i <= Len(s) /\ i \in DOMAIN s /\ e[i] = s[i]
             \/ i > Len(s) /\ i - Len(s) \in DOMAIN t /\ e[i] = t[i - Len(s)]
  <2>1. i \in 1 .. Len(s) + Len(t) /\ e[i] = IF i <= Len(s) THEN s[i] ELSE t[i - Len(s)]
    BY Zenon, <1>0, <1>1
  <2>2. \/ i <= Len(s) /\ i \in 1 .. Len(s)
        \/ ~(i <= Len(s)) /\ i > Len(s) /\ i - Len(s) \in 1 .. Len(t)
    BY <1>1, <2>1, SMTT(30)
  <2> QED BY Zenon, <1>1, <2>1, <2>2
<1>3. ASSUME NEW i \in DOMAIN s PROVE i \in DOMAIN e /\ e[i] = s[i]
  <2>1. i \in 1 .. Len(s) + Len(t) /\ i <= Len(s)
    BY <1>1
  <2> QED BY Zenon, <1>0, <1>1, <2>1
<1>4. ASSUME NEW i \in DOMAIN t PROVE Len(s) + i \in DOMAIN e /\ e[Len(s) + i] = t[i]
  <2>1. Len(s) + i \in 1 .. Len(s) + Len(t) /\ ~(Len(s) + i <= Len(s)) /\ (Len(s) + i) - Len(s) = i
    BY <1>1, SMTT(30)
  <2>2. e[Len(s) + i] = t[(Len(s) + i) - Len(s)]
    BY Zenon, <1>0, <2>1
  <2> QED BY Zenon, <1>1, <2>1, <2>2
<1>5. Range(e) = Range(s) \cup Range(t)
  <2>1. ASSUME NEW x \in Range(e) PROVE x \in Range(s) \cup Range(t)
    <3>1. PICK i \in DOMAIN e : x = e[i]
      BY Zenon DEF Range
    <3>2. (i \in DOMAIN s /\ x = s[i]) \/ (i - Len(s) \in DOMAIN t /\ x = t[i - Len(s)])
      BY Zenon, <1>2, <3>1
    <3> QED BY Zenon, <3>2 DEF Range
  <2>2. ASSUME NEW x \in Range(s) PROVE x \in Range(e)
    BY Zenon, <1>3 DEF Range
  <2>3. ASSUME NEW x \in Range(t) PROVE x \in Range(e)
    BY Zenon, <1>4 DEF Range
  <2> QED BY <2>1, <2>2, <2>3
<1> QED BY Zenon, <1>1, <1>2, <1>5 DEF e

\* Poll takes requests that are ready, and of an ordered channel the first ones.
LEMMA PolledAreFirst ==
    ASSUME TypeOK, NEW c \in Channels, NEW n \in Nat
    PROVE  /\ Polled(c, n) \subseteq queue[c] /\ \A o \in Polled(c, n) : Ready(c, o)
           /\ opts[c].order_type = "kOrdered" =>
                 \A o \in Polled(c, n) : \A p \in queue[c] : Before(c, p, o) => p \in Polled(c, n)
<1> DEFINE S == {o \in queue[c] : /\ Ready(c, o)
                                  /\ opts[c].order_type = "kOrdered" =>
                                        \A p \in queue[c] : Before(c, p, o) => Ready(c, p)}
<1>1. Polled(c, n) = FirstOf(c, n, S)
  BY Zenon DEF Polled
<1>2. FirstOf(c, n, S) \subseteq S
  BY Zenon DEF FirstOf
<1>3. \A o \in queue[c] : obj[c][o].req \in Nat
  BY DEF TypeOK
<1>4. queue[c] \subseteq Objs /\ IsFiniteSet(queue[c])
  <2>1. queue[c] \in SUBSET Objs
    BY DEF TypeOK
  <2> QED BY <2>1, ConstantTypes, FS_Subset
<1>5. ASSUME opts[c].order_type = "kOrdered", NEW o \in FirstOf(c, n, S), NEW p \in queue[c],
             Before(c, p, o)
      PROVE  p \in FirstOf(c, n, S)
  <2>1. o \in S /\ o \in queue[c]
    BY Zenon, <1>2
  <2>2. \A q \in queue[c] : Before(c, q, p) => Before(c, q, o)
    BY <1>3, <1>5, <2>1 DEF Before
  <2>3. p \in S
    BY Zenon, <1>5, <2>1, <2>2
  <2> DEFINE A == {q \in S : Before(c, q, p)}
             B == {q \in S : Before(c, q, o)}
  <2>4. A \in SUBSET B /\ B \in SUBSET queue[c]
    BY Zenon, <2>2
  <2>5. IsFiniteSet(B) /\ IsFiniteSet(A)
    BY Zenon, <1>4, <2>4, FS_Subset
  <2>6. Cardinality(A) <= Cardinality(B) /\ Cardinality(A) \in Nat /\ Cardinality(B) \in Nat
    BY Zenon, <2>4, <2>5, FS_Subset, FS_CardinalityType
  <2>7. Cardinality(B) < n
    BY Zenon DEF FirstOf
  <2>8. Cardinality(A) < n
    <3> HIDE DEF A, B
    <3> QED BY <2>6, <2>7
  <2> QED BY Zenon, <2>3, <2>8 DEF FirstOf
<1> QED BY Zenon, <1>1, <1>2, <1>5

\* Poll hands out the objects in `out' and caches those that are no longer in use.
LEMMA PollKeeps ==
    ASSUME Invariant, NEW c \in Channels, NEW n \in Nat, NEW due \in Nat, Poll(c, n, due)
    PROVE  Invariant'
<1>1. TypeOK /\ ChannelOf(c)
  BY DEF Invariant
<1>2. PICK out, expired, done :
        /\ out = Polled(c, n) /\ done = {o \in out : ~obj[c][o].expired}
        /\ expired = expired_queue[c] \cup {o \in out : obj[c][o].expired}
  BY Zenon
<1>3. PICK late, fired, s : /\ late = Completed(c, expired) /\ s = done \cup late
                            /\ fired = FirstOf(c, due, timers[c] \ done)
  BY Zenon
<1>4. /\ pc[c] = "idle"
      /\ queue' = [queue EXCEPT ![c] = @ \ out]
      /\ expired_queue' = [expired_queue EXCEPT ![c] = expired \ late]
      /\ cached_resource' = [cached_resource EXCEPT ![c] = @ \cup done \cup late]
      /\ hw' = [hw EXCEPT ![c] = Checked(c, s)]
      /\ size' = NotifyCompletion(c, s)
      /\ timers' = [timers EXCEPT ![c] = (@ \ done) \ fired]
      /\ UNCHANGED <<opts, strategy, pc, tls_counter, chosen, accepted, discarded>>
  BY Zenon, <1>2, <1>3 DEF Poll
<1>5. PICK r \in Results(c, out) : received' = [received EXCEPT ![c] = @ \o r]
  BY Zenon, <1>2 DEF Poll
<1>6. obj' = [obj EXCEPT ![c] = [o \in Objs |->
                IF o \in fired THEN [obj[c][o] EXCEPT !.expired = TRUE] ELSE obj[c][o]]]
  BY Zenon, <1>2, <1>3 DEF Poll
<1>7. /\ out \subseteq queue[c] /\ \A o \in out : Ready(c, o)
      /\ opts[c].order_type = "kOrdered" =>
            \A o \in out : \A p \in queue[c] : Before(c, p, o) => p \in out
  BY Zenon, <1>1, <1>2, PolledAreFirst
<1>8. /\ done \subseteq out /\ late \subseteq expired /\ fired \subseteq timers[c]
      /\ out \subseteq Objs /\ expired \subseteq Objs
      /\ s \in SUBSET Objs /\ \A o \in s : hw[c][o] = "done"
  BY Zenon, <1>1, <1>2, <1>3, <1>7 DEF Completed, FirstOf, Ready, TypeOK
<1>9. /\ obj' \in [Channels -> [Objs -> Objects]]
      /\ \A d \in Channels \ {c} : obj'[d] = obj[d]
      /\ \A o \in Objs : /\ obj'[c][o].req = obj[c][o].req
                         /\ obj'[c][o].work_queue = obj[c][o].work_queue
                         /\ obj'[c][o].expired <=> obj[c][o].expired \/ o \in fired
  <2>1. obj \in [Channels -> [Objs -> Objects]]
    BY Zenon, <1>1 DEF TypeOK, Objects
  <2>2. PICK f : f = [o \in Objs |->
                        IF o \in fired THEN [obj[c][o] EXCEPT !.expired = TRUE] ELSE obj[c][o]]
    BY Zenon
  <2>3. ASSUME NEW o \in Objs
        PROVE  /\ f[o] \in Objects /\ f[o].req = obj[c][o].req
               /\ f[o].work_queue = obj[c][o].work_queue
               /\ f[o].expired <=> obj[c][o].expired \/ o \in fired
    <3>1. obj[c][o] \in Objects
      BY <2>1
    <3>2. CASE o \in fired
      <4>1. f[o] = [obj[c][o] EXCEPT !.expired = TRUE]
        BY Zenon, <2>2, <3>2
      <4> QED BY Zenon, <3>1, <3>2, <4>1 DEF Objects
    <3>3. CASE o \notin fired
      <4>1. f[o] = obj[c][o]
        BY Zenon, <2>2, <3>3
      <4> QED BY Zenon, <3>1, <3>3, <4>1
    <3> QED BY Zenon, <3>2, <3>3
  <2>4. f \in [Objs -> Objects]
    BY <2>2, <2>3
  <2>5. obj' = [obj EXCEPT ![c] = f]
    BY Zenon, <1>6, <2>2
  <2>6. obj' \in [Channels -> [Objs -> Objects]] /\ obj'[c] = f
        /\ \A d \in Channels \ {c} : obj'[d] = obj[d]
    BY <2>1, <2>4, <2>5
  <2> QED BY Zenon, <2>3, <2>6
<1>10. /\ QuotaExact' /\ size' \in [WorkQueues -> Nat]
       /\ hw' \in [Channels -> [Objs -> {"none", "wip", "done"}]]
       /\ \A o \in Objs : hw'[c][o] = IF o \in s THEN "none" ELSE hw[c][o]
       /\ \A d \in Channels \ {c} : hw'[d] = hw[d]
  <2>1. \A d \in Channels : \A o \in Objs : obj'[d][o].work_queue = obj[d][o].work_queue
    BY Zenon, <1>9
  <2>2. pc'[c] # "submit" /\ \A d \in Channels \ {c} : pc'[d] = pc[d]
    BY <1>4
  <2> QED BY ZenonT(40), <1>4, <1>8, <2>1, <2>2, CompletedLeave
<1>11. /\ queue'[c] = queue[c] \ out /\ expired_queue'[c] = expired \ late
       /\ cached_resource'[c] = cached_resource[c] \cup done \cup late
       /\ timers'[c] = (timers[c] \ done) \ fired
       /\ received'[c] = received[c] \o r
       /\ \A d \in Channels \ {c} :
             /\ queue'[d] = queue[d] /\ expired_queue'[d] = expired_queue[d]
             /\ cached_resource'[d] = cached_resource[d] /\ timers'[d] = timers[d]
             /\ received'[d] = received[d]
  BY Zenon, <1>1, <1>4, <1>5 DEF TypeOK
<1>12. /\ r \in Seq(Nat) /\ Range(r) = {obj[c][o].req : o \in out}
       /\ \A i, j \in DOMAIN r : i < j => r[i] < r[j]
  <2>1. IsFiniteSet(out) /\ Cardinality(out) \in Nat
    BY Zenon, <1>8, ConstantTypes, FS_Subset, FS_CardinalityType
  <2>2. {obj[c][o].req : o \in out} \subseteq Nat
    <3>1. \A o \in Objs : obj[c][o].req \in Nat
      BY <1>1 DEF TypeOK
    <3> QED BY Zenon, <1>8, <3>1
  <2>3. /\ r \in [1 .. Cardinality(out) -> {obj[c][o].req : o \in out}]
        /\ \A o \in out : \E i \in DOMAIN r : r[i] = obj[c][o].req
        /\ \A i, j \in DOMAIN r : i < j => r[i] < r[j]
    BY Zenon DEF Results
  <2>4. r \in Seq(Nat)
    <3>1. r \in [1 .. Cardinality(out) -> Nat]
      BY <2>2, <2>3
    <3> QED BY <2>1, <3>1
  <2>5. Range(r) = {obj[c][o].req : o \in out}
    BY Zenon, <2>3 DEF Range
  <2> QED BY <2>3, <2>4, <2>5
<1>13. TypeOK'
  <2>1. done \subseteq Objs /\ late \subseteq Objs
    BY <1>8
  <2>2. /\ queue' \in [Channels -> SUBSET Objs] /\ expired_queue' \in [Channels -> SUBSET Objs]
        /\ cached_resource' \in [Channels -> SUBSET Objs] /\ timers' \in [Channels -> SUBSET Objs]
    BY Zenon, <1>1, <1>4, <1>8, <2>1 DEF TypeOK
  <2>3. received[c] \o r \in Seq(Nat)
    BY Zenon, <1>1, <1>12, Appended DEF TypeOK
  <2>4. received' \in [Channels -> Seq(Nat)]
    BY Zenon, <1>1, <1>5, <2>3 DEF TypeOK
  <2> QED BY Zenon, <1>1, <1>4, <1>9, <1>10, <2>2, <2>4 DEF TypeOK, Objects
<1>14. ASSUME NEW d \in Channels, d # c PROVE ChannelOf(d)'
  <2>1. Same(d)
    BY Zenon, <1>4, <1>9, <1>10, <1>11, <1>14 DEF Same
  <2> QED BY Zenon, <2>1, OthersKept DEF Invariant
<1>15. ListsOf(c)' /\ SubmitOf(c)' /\ IdleOf(c)'
  <2>1. InSubmit(c) = {} /\ InSubmit(c)' = {}
    BY Zenon, <1>4 DEF InSubmit
  <2>2. ListsOf(c)'
    BY ZenonT(40), <1>1, <1>2, <1>7, <1>8, <1>11, <2>1 DEF ListsOf, ChannelOf
  <2>3. SubmitOf(c)'
    BY Zenon, <1>4 DEF SubmitOf
  <2>4. IdleOf(c)'
    <3>1. cached_resource[c] \subseteq Objs /\ done \cup late \subseteq Objs
      BY Zenon, <1>1, <1>8 DEF TypeOK
    <3> QED BY Zenon, <1>1, <1>3, <1>10, <1>11, <3>1 DEF IdleOf, ChannelOf
  <2> QED BY <2>2, <2>3, <2>4
<1>16. TimersOf(c)'
  <2>1. timers[c] = {o \in queue[c] : ~obj[c][o].expired}
    BY Zenon, <1>1, <1>4 DEF ChannelOf, TimersOf
  <2>2. queue[c] \subseteq Objs
    BY Zenon, <1>1 DEF TypeOK
  <2> QED BY Zenon, <1>2, <1>9, <1>11, <2>1, <2>2 DEF TimersOf
<1>17. \A o \in queue[c] : obj'[c][o].req = obj[c][o].req /\ obj[c][o].req \in Nat
  BY <1>1, <1>9 DEF TypeOK
<1>18. /\ Waiting(c) = Waiting(c)' \cup Range(r) /\ Waiting(c)' \cap Range(r) = {}
       /\ Range(received'[c]) = Range(received[c]) \cup Range(r)
  <2>1. Waiting(c)' = {obj[c][o].req : o \in queue[c] \ out}
    BY ZenonT(40), <1>11, <1>17 DEF Waiting
  <2>2. Waiting(c) = Waiting(c)' \cup Range(r) /\ Waiting(c)' \cap Range(r) = {}
    BY Zenon, <1>1, <1>7, <1>12, <2>1, WaitingParts DEF ChannelOf
  <2>3. received[c] \in Seq(Nat)
    BY Zenon, <1>1 DEF TypeOK
  <2>4. Range(received'[c]) = Range(received[c]) \cup Range(r)
    BY Zenon, <1>11, <1>12, <2>3, Appended
  <2> QED BY <2>2, <2>4
<1>19. SharedOut(c)'
  BY Zenon, <1>1, <1>4, <1>18 DEF SharedOut, ChannelOf
<1> DEFINE q == received[c]
<1>20. ASSUME NEW i \in DOMAIN received'[c]
       PROVE  \/ i <= Len(q) /\ i \in DOMAIN q /\ received'[c][i] = q[i]
              \/ i > Len(q) /\ i - Len(q) \in DOMAIN r /\ received'[c][i] = r[i - Len(q)]
  <2>1. q \in Seq(Nat)
    BY Zenon, <1>1 DEF TypeOK
  <2> HIDE DEF q
  <2>2. received'[c] = q \o r
    BY Zenon, <1>11 DEF q
  <2>3. \A k \in DOMAIN (q \o r) :
           \/ k <= Len(q) /\ k \in DOMAIN q /\ (q \o r)[k] = q[k]
           \/ k > Len(q) /\ k - Len(q) \in DOMAIN r /\ (q \o r)[k] = r[k - Len(q)]
    BY Zenon, <1>12, <2>1, Appended
  <2> QED BY Zenon, <2>2, <2>3
<1>21. /\ Len(q) \in Nat /\ DOMAIN received'[c] \subseteq Nat /\ DOMAIN r \subseteq Nat
       /\ \A i \in DOMAIN q : q[i] \in Nat
       /\ \A i \in DOMAIN r : r[i] \in Nat /\ r[i] \in Waiting(c) /\ r[i] \notin Range(q)
       /\ \A i \in DOMAIN q : q[i] \in Range(q)
  <2>1. q \in Seq(Nat) /\ received'[c] \in Seq(Nat)
    BY Zenon, <1>1, <1>13 DEF TypeOK
  <2>2. \A i \in DOMAIN r : r[i] \in Range(r)
    BY Zenon DEF Range
  <2>3. \A i \in DOMAIN q : q[i] \in Range(q)
    BY Zenon DEF Range
  <2>4. Range(r) \subseteq Waiting(c) /\ Range(q) \cap Waiting(c) = {}
    BY Zenon, <1>1, <1>18 DEF ChannelOf, SharedOut
  <2> QED BY SMTT(30), <1>12, <2>1, <2>2, <2>3, <2>4
<1> HIDE DEF q
<1>22. OneEach(c)'
  <2>1. \A o, p \in queue'[c] : obj'[c][o].req = obj'[c][p].req => o = p
    BY Zenon, <1>1, <1>11, <1>17 DEF ChannelOf, OneEach
  <2>2. \A i, j \in DOMAIN q : q[i] = q[j] => i = j
    BY Zenon, <1>1 DEF ChannelOf, OneEach, q
  <2>3. ASSUME NEW i \in DOMAIN r, NEW j \in DOMAIN r, r[i] = r[j] PROVE i = j
    <3>1. i \in Nat /\ j \in Nat /\ r[i] \in Nat /\ r[j] \in Nat
      BY Zenon, <1>21
    <3>2. (i < j => r[i] < r[j]) /\ (j < i => r[j] < r[i])
      BY Zenon, <1>12
    <3> QED BY <2>3, <3>1, <3>2
  <2>4. ASSUME NEW i \in DOMAIN received'[c], NEW j \in DOMAIN received'[c],
               received'[c][i] = received'[c][j]
        PROVE  i = j
    <3>1. CASE i <= Len(q) /\ j <= Len(q)
      BY <1>20, <1>21, <2>2, <2>4, <3>1
    <3>2. CASE i > Len(q) /\ j > Len(q)
      BY <1>20, <1>21, <2>3, <2>4, <3>2
    <3>3. CASE i <= Len(q) /\ j > Len(q)
      BY <1>20, <1>21, <2>4, <3>3
    <3>4. CASE i > Len(q) /\ j <= Len(q)
      BY <1>20, <1>21, <2>4, <3>4
    <3> QED BY <1>21, <3>1, <3>2, <3>3, <3>4
  <2> QED BY Zenon, <2>1, <2>4 DEF OneEach
<1>23. InOrder(c)'
  <2> SUFFICES ASSUME opts[c].order_type = "kOrdered"
               PROVE  /\ \A i, j \in DOMAIN received'[c] :
                            i < j => received'[c][i] < received'[c][j]
                      /\ \A i \in DOMAIN received'[c] : \A o \in queue'[c] :
                            received'[c][i] < obj'[c][o].req
    BY Zenon, <1>4 DEF InOrder
  <2>1. /\ \A i, j \in DOMAIN q : i < j => q[i] < q[j]
        /\ \A i \in DOMAIN q : \A o \in queue[c] : q[i] < obj[c][o].req
    BY Zenon, <1>1 DEF ChannelOf, InOrder, q
  <2>2. \A i \in DOMAIN r : \E o \in out : r[i] = obj[c][o].req
    BY Zenon, <1>12 DEF Range
  <2>3. \A i \in DOMAIN q : \A j \in DOMAIN r : q[i] < r[j]
    BY Zenon, <1>7, <2>1, <2>2
  <2>4. ASSUME NEW i \in DOMAIN r, NEW o \in queue'[c] PROVE r[i] < obj'[c][o].req
    <3>1. PICK p \in out : r[i] = obj[c][p].req
      BY Zenon, <2>2
    <3>2. o \in queue[c] /\ o \notin out /\ p \in queue[c]
      BY Zenon, <1>7, <1>11
    <3>3. ~Before(c, o, p) /\ obj[c][o].req # obj[c][p].req
      <4>1. ~Before(c, o, p)
        BY Zenon, <1>7, <3>2
      <4>2. obj[c][o].req # obj[c][p].req
        BY Zenon, <1>1, <3>2 DEF ChannelOf, OneEach
      <4> QED BY Zenon, <4>1, <4>2
    <3> QED BY <1>17, <3>1, <3>2, <3>3 DEF Before
  <2>5. ASSUME NEW i \in DOMAIN received'[c], NEW j \in DOMAIN received'[c], i < j
        PROVE  received'[c][i] < received'[c][j]
    <3>1. CASE i <= Len(q) /\ j <= Len(q)
      BY <1>20, <1>21, <2>1, <2>5, <3>1
    <3>2. CASE i > Len(q) /\ j > Len(q)
      BY SMTT(30), <1>12, <1>20, <1>21, <2>5, <3>2
    <3>3. CASE i <= Len(q) /\ j > Len(q)
      BY <1>20, <1>21, <2>3, <3>3
    <3> QED BY <1>21, <2>5, <3>1, <3>2, <3>3
  <2>6. ASSUME NEW i \in DOMAIN received'[c], NEW o \in queue'[c]
        PROVE  received'[c][i] < obj'[c][o].req
    <3>1. o \in queue[c] /\ obj'[c][o].req = obj[c][o].req
      BY Zenon, <1>11, <1>17
    <3> QED BY Zenon, <1>20, <2>1, <2>4, <3>1
  <2> QED BY Zenon, <2>5, <2>6
<1> QED BY Zenon, <1>10, <1>13, <1>14, <1>15, <1>16, <1>19, <1>22, <1>23 DEF Invariant, ChannelOf

LEMMA NextKeeps == Invariant /\ [Next]_vars => Invariant'
<1> SUFFICES ASSUME Invariant, [Next]_vars PROVE Invariant'
  OBVIOUS
<1>1. CASE UNCHANGED vars
  <2>1. /\ UNCHANGED <<opts, strategy, pc, cached_resource, queue, expired_queue, obj, hw, timers>>
        /\ UNCHANGED <<size, tls_counter, chosen, accepted, received, discarded>>
    BY <1>1 DEF vars, listVars, histVars
  <2>2. TypeOK'
    BY Zenon, <2>1 DEF Invariant, TypeOK
  <2>3. ASSUME NEW d \in Channels PROVE ChannelOf(d)'
    BY Zenon, <2>1, OthersKept DEF Invariant, Same
  <2>4. ASSUME NEW w \in WorkQueues
        PROVE  /\ InQueue(w)' = InQueue(w) /\ Submitting(w)' = Submitting(w)
               /\ Granted(w)' = Granted(w)
    BY Zenon, <2>1 DEF InQueue, Submitting, Granted
  <2> QED BY Zenon, <2>1, <2>2, <2>3, <2>4, QuotaKept DEF Invariant
<1>2. ASSUME NEW c \in Channels, NEW o \in Objs, SubmitSw(c, o) \/ SubmitDsaFails(c, o)
                                                 \/ HardwareCompletes(c, o)
      PROVE  Invariant'
  BY Zenon, <1>2, SubmitSwKeeps, SubmitDsaFailsKeeps, HardwareCompletesKeeps
<1>3. ASSUME NEW c \in Channels, NEW o \in Objs, NEW w \in WorkQueues, SubmitDsa(c, o, w)
      PROVE  Invariant'
  BY Zenon, <1>3, SubmitDsaKeeps
<1>4. ASSUME NEW c \in Channels, DsaBusy(c) \/ DsaAccepted(c) \/ Close(c) PROVE Invariant'
  BY Zenon, <1>4, BusyKeeps, DsaAcceptedKeeps, CloseKeeps
<1>5. ASSUME NEW c \in Channels, PollSome(c) PROVE Invariant'
  <2>1. PICK n \in 1 .. MaxPoll, due \in 0 .. IoDepth : Poll(c, n, due)
    BY Zenon, <1>5 DEF PollSome
  <2>2. n \in Nat /\ due \in Nat
    BY SizeAssumption
  <2> QED BY Zenon, <2>1, <2>2, PollKeeps
<1> QED BY Zenon, <1>1, <1>2, <1>3, <1>4, <1>5 DEF Next

\* Every request object of a channel is in one list, free ones are in no work queue,
\* timers are pending exactly for what waits, and no work queue ever holds more than its
\* quota although the threads share its counter without a lock (DataFlowChannelImpl,
\* DsaDispatcher::Submit, NotifyCompletion).
THEOREM ObjectsAlwaysExact == Spec => []ObjectsExact
<1>1. Init => Invariant
  BY InitEstablishes
<1>2. Invariant /\ [Next]_vars => Invariant'
  BY NextKeeps
<1>3. Invariant => ObjectsExact
  BY InvariantIs
<1> QED BY <1>1, <1>2, <1>3, PTL DEF Spec

\* Every accepted request is answered or discarded at most once and waits until then, and
\* an ordered channel answers in the order of submission (DataFlowChannelImpl::Poll,
\* Close).
THEOREM AnsweredExactly == Spec => []AnsweredOnce
<1>1. Init => Invariant
  BY InitEstablishes
<1>2. Invariant /\ [Next]_vars => Invariant'
  BY NextKeeps
<1>3. Invariant => AnsweredOnce
  BY InvariantIs
<1> QED BY <1>1, <1>2, <1>3, PTL DEF Spec
=============================================================================
