------------------------- MODULE ConcurrencyProofs -------------------------
(***************************************************************************)
(* What threads share, for every value of the constants: MPSCQueue is a     *)
(* linearizable FIFO queue for any number of producers, and no producer     *)
(* writes to a node the consumer has deleted; the Scheduler's heap, status  *)
(* map and thread stay in step, and a completed task never starts.          *)
(***************************************************************************)
EXTENDS MpscQueue, FiniteSetTheorems, SequenceTheorems, TLAPS

USE SizeAssumption, BoundAssumption DEF null

\* The constructor's stub is an empty queue.
LEMMA InitEstablishes == Init => InductiveInvariant
  BY DEF Init, InductiveInvariant, TypeOK, QueueInOrder, Links, ConsumerReads, Nodes, Answers

\* Push, the exchange: the new node becomes the end of the queue, not yet linked.
LEMMA ExchangeStep ==
    ASSUME InductiveInvariant, NEW p \in Producers, PushExchange(p)
    PROVE  InductiveInvariant'
<1> USE DEF consVars
<1>1. /\ queue' \in Seq(Nodes) /\ Len(queue') = Len(queue) + 1
      /\ queue' # <<>>
      /\ \A i \in 1 .. Len(queue) : queue'[i] = queue[i]
      /\ queue'[Len(queue) + 1] = node + 1
  BY AppendProperties, SMTT(30) DEF InductiveInvariant, TypeOK, PushExchange, Nodes
<1>2. TypeOK'
  BY <1>1 DEF InductiveInvariant, TypeOK, PushExchange, Nodes
<1>3. QueueInOrder'
  <2>0. /\ queue \in Seq(Nodes) /\ DOMAIN queue = 1 .. Len(queue) /\ Len(queue) \in Nat
        /\ DOMAIN queue' = 1 .. Len(queue) + 1 /\ tail \in Nat
    BY <1>1, LenProperties DEF InductiveInvariant, TypeOK, Nodes
  <2>1. head' = node' /\ node' = tail' + Len(queue') /\ freed' = 1 .. tail' - 1
    BY <1>1, <2>0 DEF InductiveInvariant, QueueInOrder, PushExchange
  <2>2. \A i \in 1 .. Len(queue) : queue'[i] = tail + i
    BY <1>1, <2>0, SMTT(30) DEF InductiveInvariant, QueueInOrder
  <2>3. queue'[Len(queue) + 1] = tail + (Len(queue) + 1)
    BY <1>1, <2>0 DEF InductiveInvariant, QueueInOrder
  <2>4. \A i \in DOMAIN queue' : queue'[i] = tail + i
    BY <2>0, <2>2, <2>3
  <2> QED BY <2>1, <2>4 DEF QueueInOrder, PushExchange
<1>4. Links'
  <2>1. \A q \in Producers \ {p} : /\ ppc'[q] = ppc[q] /\ oldhead'[q] = oldhead[q]
                                   /\ pnode'[q] = pnode[q]
    BY DEF InductiveInvariant, TypeOK, PushExchange
  <2>2. ppc'[p] = "link" /\ oldhead'[p] = node /\ pnode'[p] = node + 1
    BY DEF InductiveInvariant, TypeOK, QueueInOrder, PushExchange
  <2>3. tail \in Nat /\ node \in Nat /\ tail <= node /\ node' = node + 1 /\ tail' = tail
        /\ next' = next
    BY LenProperties DEF InductiveInvariant, TypeOK, QueueInOrder, PushExchange, Nodes
  <2>4. \A n \in Nodes : n >= node' => next'[n] = null
    BY <2>3 DEF InductiveInvariant, Links, Nodes
  <2>5. \A n \in tail' .. node' - 1 :
          \/ next'[n] = n + 1
          \/ next'[n] = null /\ \E q \in Producers : ppc'[q] = "link" /\ oldhead'[q] = n
    <3> SUFFICES ASSUME NEW n \in tail .. node
                 PROVE  \/ next[n] = n + 1
                        \/ next[n] = null /\ \E q \in Producers : ppc'[q] = "link" /\ oldhead'[q] = n
      BY <2>3
    <3>1. CASE n = node
      BY <3>1, <2>2, <2>3 DEF InductiveInvariant, TypeOK, Links
    <3>2. CASE n # node
      <4>1. n \in tail .. node - 1 BY <3>2, <2>3
      <4>2. ppc[p] = "idle" BY DEF PushExchange
      <4> QED BY <4>1, <4>2, <2>1 DEF InductiveInvariant, Links
    <3> QED BY <3>1, <3>2
  <2>6. \A q \in Producers : ppc'[q] = "link" =>
          /\ oldhead'[q] \in tail' .. node' - 1
          /\ pnode'[q] = oldhead'[q] + 1
          /\ next'[oldhead'[q]] = null
    BY <2>1, <2>2, <2>3, SMTT(30) DEF InductiveInvariant, TypeOK, Links
  <2>7. \A q, r \in Producers :
          ppc'[q] = "link" /\ ppc'[r] = "link" /\ oldhead'[q] = oldhead'[r] => q = r
    BY <2>1, <2>2, <2>3, SMTT(30) DEF InductiveInvariant, TypeOK, Links
  <2> QED BY <2>4, <2>5, <2>6, <2>7 DEF Links
<1>5. ConsumerReads'
  BY <1>1 DEF InductiveInvariant, TypeOK, ConsumerReads, PushExchange
<1> QED BY <1>2, <1>3, <1>4, <1>5 DEF InductiveInvariant

\* Push, the store of the link: the cut behind oldhead is closed by its producer.
LEMMA LinkStep ==
    ASSUME InductiveInvariant, NEW p \in Producers, PushLink(p)
    PROVE  InductiveInvariant'
<1> USE DEF consVars
<1>0. /\ tail \in Nat /\ node \in Nat /\ node \in Nodes
      /\ oldhead[p] \in tail .. node - 1 /\ pnode[p] = oldhead[p] + 1 /\ oldhead[p] \in Nodes
  BY DEF InductiveInvariant, TypeOK, Links, PushLink, Nodes
<1>1. /\ next'[oldhead[p]] = oldhead[p] + 1
      /\ \A n \in Nodes \ {oldhead[p]} : next'[n] = next[n]
  BY <1>0 DEF InductiveInvariant, TypeOK, PushLink
<1>2. /\ ppc'[p] = "count"
      /\ \A q \in Producers \ {p} : ppc'[q] = ppc[q]
      /\ oldhead' = oldhead /\ pnode' = pnode
  BY DEF InductiveInvariant, TypeOK, PushLink
<1>3. TypeOK'
  BY <1>0 DEF InductiveInvariant, TypeOK, PushLink, Nodes
<1>4. QueueInOrder'
  BY DEF InductiveInvariant, QueueInOrder, PushLink
<1>5. Links'
  <2>1. tail' = tail /\ node' = node BY DEF PushLink
  <2>2. \A n \in Nodes : n >= node' => next'[n] = null
    BY <2>1, <1>0, <1>1 DEF InductiveInvariant, Links, Nodes
  <2>3. \A n \in tail' .. node' - 1 :
          \/ next'[n] = n + 1
          \/ next'[n] = null /\ \E q \in Producers : ppc'[q] = "link" /\ oldhead'[q] = n
    <3> SUFFICES ASSUME NEW n \in tail .. node - 1
                 PROVE  \/ next'[n] = n + 1
                        \/ next'[n] = null /\ \E q \in Producers : ppc'[q] = "link" /\ oldhead'[q] = n
      BY <2>1
    <3>1. n \in Nodes BY <1>0 DEF InductiveInvariant, TypeOK, Nodes
    <3>2. CASE n = oldhead[p] BY <3>2, <1>1
    <3>3. CASE n # oldhead[p] BY <3>1, <3>3, <1>1, <1>2 DEF InductiveInvariant, Links
    <3> QED BY <3>2, <3>3
  <2>4. \A q \in Producers : ppc'[q] = "link" =>
          /\ oldhead'[q] \in tail' .. node' - 1
          /\ pnode'[q] = oldhead'[q] + 1
          /\ next'[oldhead'[q]] = null
    <3> SUFFICES ASSUME NEW q \in Producers, ppc'[q] = "link"
                 PROVE  /\ oldhead[q] \in tail .. node - 1
                        /\ pnode[q] = oldhead[q] + 1
                        /\ next'[oldhead[q]] = null
      BY <2>1, <1>2
    <3>1. q # p /\ ppc[q] = "link" BY <1>2
    <3>2. ppc[p] = "link" BY DEF PushLink
    <3>3. oldhead[q] # oldhead[p] BY <3>1, <3>2 DEF InductiveInvariant, Links
    <3>4. oldhead[q] \in tail .. node - 1 BY <3>1 DEF InductiveInvariant, Links
    <3>5. oldhead[q] \in Nodes BY <3>4, <1>0 DEF InductiveInvariant, TypeOK, Nodes
    <3> QED BY <3>1, <3>3, <3>4, <3>5, <1>1 DEF InductiveInvariant, Links
  <2>5. \A q, r \in Producers :
          ppc'[q] = "link" /\ ppc'[r] = "link" /\ oldhead'[q] = oldhead'[r] => q = r
    BY <1>2 DEF InductiveInvariant, Links
  <2> QED BY <2>2, <2>3, <2>4, <2>5 DEF Links
<1>6. ConsumerReads'
  <2>1. cpc = "take" => tail # oldhead[p]
    BY <1>0 DEF InductiveInvariant, ConsumerReads, Links, PushLink
  <2>2. tail \in Nodes BY DEF InductiveInvariant, TypeOK
  <2> QED BY <2>1, <2>2, <1>1 DEF InductiveInvariant, ConsumerReads, PushLink
<1> QED BY <1>3, <1>4, <1>5, <1>6 DEF InductiveInvariant

\* Pop takes an element: the next node becomes the stub, the old one is deleted.
LEMMA TakeStep ==
    ASSUME InductiveInvariant, PopTake
    PROVE  InductiveInvariant'
<1> USE DEF prodVars
<1>0. /\ tail \in Nat \ {0} /\ node \in Nat /\ node \in Nodes /\ tail \in Nodes
      /\ queue \in Seq(Nodes) /\ queue # <<>> /\ nextTail = tail + 1
      /\ next[tail] = tail + 1 /\ Len(queue) >= 1 /\ tail < node
  BY LenProperties, EmptySeq, SMTT(30) DEF InductiveInvariant, TypeOK, QueueInOrder, ConsumerReads,
                                           PopTake, Nodes
<1>1. /\ queue' \in Seq(Nodes) /\ Len(queue') = Len(queue) - 1
      /\ \A i \in 1 .. Len(queue) - 1 : queue'[i] = queue[i + 1]
  BY <1>0, HeadTailProperties DEF PopTake
<1>2. tail' = tail + 1 /\ node' = node /\ head' = head /\ cpc' = "count"
      /\ ppc' = ppc /\ pnode' = pnode /\ oldhead' = oldhead
  BY <1>0 DEF PopTake
<1>3. next' \in [Nodes -> Nodes \cup {null}]
      /\ \A n \in Nodes \ {tail} : next'[n] = next[n]
  BY DEF InductiveInvariant, TypeOK, PopTake
<1>4. tail' \in Nodes BY <1>0, <1>2 DEF Nodes
<1>5. answers' \in Seq(Answers)
  <2>1. [op |-> "pop", r |-> nextTail] \in Answers BY <1>0 DEF Answers
  <2> QED BY <2>1, AppendProperties DEF InductiveInvariant, TypeOK, PopTake
<1>6. TypeOK'
  BY <1>0, <1>1, <1>2, <1>3, <1>4, <1>5 DEF InductiveInvariant, TypeOK, PopTake, Nodes
<1>7. QueueInOrder'
  <2>1. freed' = 1 .. tail' - 1
    BY <1>0, <1>2 DEF InductiveInvariant, QueueInOrder, PopTake
  <2>2. head' = node' /\ node' = tail' + Len(queue')
    BY <1>0, <1>1, <1>2 DEF InductiveInvariant, QueueInOrder
  <2>3. \A i \in DOMAIN queue' : queue'[i] = tail' + i
    <3>1. DOMAIN queue' = 1 .. Len(queue) - 1 BY <1>0, <1>1, LenProperties
    <3>2. DOMAIN queue = 1 .. Len(queue) BY <1>0, LenProperties
    <3>3. \A i \in 1 .. Len(queue) : queue[i] = tail + i
      BY <3>2 DEF InductiveInvariant, QueueInOrder
    <3>4. Len(queue) \in Nat BY <1>0, LenProperties
    <3>5. ASSUME NEW i \in 1 .. Len(queue) - 1 PROVE queue'[i] = tail' + i
      <4>1. i + 1 \in 1 .. Len(queue) BY <3>4
      <4>2. queue[i + 1] = tail + (i + 1) BY <4>1, <3>3
      <4> QED BY <4>2, <1>0, <1>1, <1>2
    <3> QED BY <3>1, <3>5
  <2> QED BY <2>1, <2>2, <2>3 DEF QueueInOrder
<1>8. Links'
  <2>1. \A n \in Nodes : n >= node' => next'[n] = null
    BY <1>0, <1>2, <1>3, SMTT(30) DEF InductiveInvariant, Links, Nodes
  <2>2. \A n \in tail' .. node' - 1 :
          \/ next'[n] = n + 1
          \/ next'[n] = null /\ \E q \in Producers : ppc'[q] = "link" /\ oldhead'[q] = n
    <3> SUFFICES ASSUME NEW n \in tail + 1 .. node - 1
                 PROVE  \/ next'[n] = n + 1
                        \/ next'[n] = null /\ \E q \in Producers : ppc[q] = "link" /\ oldhead[q] = n
      BY <1>2
    <3>1. n \in Nodes \ {tail} /\ n \in tail .. node - 1 BY <1>0 DEF Nodes
    <3> QED BY <3>1, <1>3 DEF InductiveInvariant, Links
  <2>3. \A q \in Producers : ppc'[q] = "link" =>
          /\ oldhead'[q] \in tail' .. node' - 1
          /\ pnode'[q] = oldhead'[q] + 1
          /\ next'[oldhead'[q]] = null
    <3> SUFFICES ASSUME NEW q \in Producers, ppc[q] = "link"
                 PROVE  /\ oldhead[q] \in tail + 1 .. node - 1
                        /\ pnode[q] = oldhead[q] + 1
                        /\ next'[oldhead[q]] = null
      BY <1>2
    <3>1. /\ oldhead[q] \in tail .. node - 1 /\ pnode[q] = oldhead[q] + 1
          /\ next[oldhead[q]] = null
      BY DEF InductiveInvariant, Links
    <3>2. oldhead[q] # tail BY <3>1, <1>0
    <3>3. oldhead[q] \in Nodes \ {tail} BY <3>1, <3>2, <1>0 DEF Nodes
    <3> QED BY <3>1, <3>2, <3>3, <1>0, <1>3
  <2>4. \A q, r \in Producers :
          ppc'[q] = "link" /\ ppc'[r] = "link" /\ oldhead'[q] = oldhead'[r] => q = r
    BY <1>2 DEF InductiveInvariant, Links
  <2> QED BY <2>1, <2>2, <2>3, <2>4 DEF Links
<1>9. ConsumerReads'
  BY <1>2 DEF ConsumerReads
<1> QED BY <1>6, <1>7, <1>8, <1>9 DEF InductiveInvariant

\* The steps that leave the list alone: the counters, the consumer's loads and answers.
LEMMA OtherSteps ==
    ASSUME InductiveInvariant,
           \/ \E p \in Producers : PushCount(p)
           \/ PopLoad \/ PopCheck \/ PopSpin \/ PopCount \/ EmptyLoad \/ EmptyCheck
    PROVE  InductiveInvariant'
<1> USE DEF consVars, prodVars, nodeVars
<1>0. /\ queue' = queue /\ tail' = tail /\ freed' = freed /\ head' = head /\ node' = node
      /\ next' = next /\ pnode' = pnode /\ oldhead' = oldhead
  BY DEF PushCount, PopLoad, PopCheck, PopSpin, PopCount, EmptyLoad, EmptyCheck
<1>1. ppc' \in [Producers -> {"idle", "link", "count"}]
      /\ \A q \in Producers : ppc'[q] = "link" <=> ppc[q] = "link"
  BY ZenonT(40) DEF InductiveInvariant, TypeOK, PushCount, PopLoad, PopCheck, PopSpin, PopCount,
         EmptyLoad, EmptyCheck
<1>2. size' \in 0 .. SizeMod - 1
  BY DEF InductiveInvariant, TypeOK, PushCount, PopLoad, PopCheck, PopSpin, PopCount,
         EmptyLoad, EmptyCheck
<1>3. answers' \in Seq(Answers)
  <2>1. \A b \in BOOLEAN : [op |-> "empty", r |-> b] \in Answers BY DEF Answers
  <2>2. [op |-> "pop", r |-> null] \in Answers BY DEF Answers
  <2>3. (head = tail) \in BOOLEAN /\ FALSE \in BOOLEAN OBVIOUS
  <2>4. answers \in Seq(Answers) BY DEF InductiveInvariant, TypeOK
  <2>5. \/ answers' = answers
        \/ \E b \in BOOLEAN : answers' = Append(answers, [op |-> "empty", r |-> b])
        \/ answers' = Append(answers, [op |-> "pop", r |-> null])
    <3>1. CASE PopCheck BY <3>1 DEF PopCheck
    <3>2. CASE EmptyLoad BY Zenon, <3>2, <2>3 DEF EmptyLoad
    <3>3. CASE EmptyCheck BY Zenon, <3>3, <2>3 DEF EmptyCheck
    <3>4. CASE PopLoad \/ PopSpin \/ PopCount \/ \E p \in Producers : PushCount(p)
      BY <3>4 DEF PushCount, PopLoad, PopSpin, PopCount
    <3> QED BY <3>1, <3>2, <3>3, <3>4, ZenonT(40)
  <2>6. \A a \in Answers : Append(answers, a) \in Seq(Answers)
    BY <2>4, AppendProperties
  <2> HIDE DEF Answers
  <2> QED BY Zenon, <2>1, <2>2, <2>4, <2>5, <2>6
<1>4. nextTail' \in Nodes \cup {null} /\ cpc' \in {"idle", "check", "spin", "take", "count", "empty"}
  BY DEF InductiveInvariant, TypeOK, PushCount, PopLoad, PopCheck, PopSpin, PopCount,
         EmptyLoad, EmptyCheck
<1>5. TypeOK'
  BY <1>0, <1>1, <1>2, <1>3, <1>4 DEF InductiveInvariant, TypeOK
<1>6. QueueInOrder'
  BY <1>0 DEF InductiveInvariant, QueueInOrder
<1>7. Links'
  BY <1>0, <1>1 DEF InductiveInvariant, Links
<1>8. ConsumerReads'
  <2>0. /\ tail \in Nodes /\ node \in Nodes /\ queue \in Seq(Nodes) /\ tail <= node
        /\ (queue = <<>> <=> tail = node)
    BY LenProperties, EmptySeq DEF InductiveInvariant, TypeOK, QueueInOrder, Nodes
  <2>1. next[tail] # null => queue # <<>> /\ next[tail] = tail + 1
    BY <2>0 DEF InductiveInvariant, TypeOK, Links, Nodes
  <2>2. head # tail => queue # <<>>
    BY <2>0 DEF InductiveInvariant, QueueInOrder
  <2> QED BY <1>0, <2>1, <2>2 DEF InductiveInvariant, ConsumerReads, PushCount, PopLoad, PopCheck,
             PopSpin, PopCount, EmptyLoad, EmptyCheck
<1> QED BY <1>5, <1>6, <1>7, <1>8 DEF InductiveInvariant

\* Every step of Push, Pop and Empty keeps the invariant of the queue.
LEMMA NextPreserves == InductiveInvariant /\ [Next]_vars => InductiveInvariant'
<1> SUFFICES ASSUME InductiveInvariant, [Next]_vars
             PROVE  InductiveInvariant'
  OBVIOUS
<1>1. CASE UNCHANGED vars
  BY <1>1 DEF vars, nodeVars, prodVars, consVars, InductiveInvariant, TypeOK, QueueInOrder,
              Links, ConsumerReads
<1>2. CASE Next
  BY <1>2, ExchangeStep, LinkStep, TakeStep, OtherSteps DEF Next, Push, Pop, Empty
<1> QED BY <1>1, <1>2

\* In every reachable state of MPSCQueue, for any number of producers, the nodes and
\* links are in order.
THEOREM ListInOrder == Spec => []InductiveInvariant
<1> QED BY InitEstablishes, NextPreserves, PTL DEF Spec

\* No producer or consumer of MPSCQueue touches a deleted node.
THEOREM NeverUsesFreed == Spec => []NoUseAfterFree
<1>1. InductiveInvariant => NoUseAfterFree
  BY LenProperties DEF InductiveInvariant, TypeOK, QueueInOrder, Links, NoUseAfterFree, Nodes
<1> QED BY <1>1, ListInOrder, PTL

\* Arithmetic of size_t: adding and subtracting commute with the wrap-around.
LEMMA Times ==
    ASSUME NEW m \in Nat \ {0}, NEW a \in Int, NEW b \in Int, a >= b + 1
    PROVE  m * a >= m * b + m
  OBVIOUS

\* Division with remainder by the width of size_t.
LEMMA DivMod ==
    ASSUME NEW m \in Nat \ {0}, NEW a \in Int
    PROVE  a \div m \in Int /\ a % m \in 0 .. m - 1 /\ a = m * (a \div m) + (a % m)
  OBVIOUS

\* The remainder is the only number in range that differs by a multiple.
LEMMA OneRemainder ==
    ASSUME NEW m \in Nat \ {0}, NEW q \in Int, NEW p \in Int,
           NEW r \in 0 .. m - 1, NEW s \in 0 .. m - 1, m * q + r = m * p + s
    PROVE  r = s
<1>1. CASE q >= p + 1
  BY Times, <1>1
<1>2. CASE p >= q + 1
  BY Times, <1>2
<1>3. CASE p = q
  BY <1>3
<1> QED BY <1>1, <1>2, <1>3

\* Counting one up or down before or after the wrap is the same.
LEMMA WrapsAround ==
    ASSUME NEW m \in Nat \ {0}, NEW a \in Int, NEW d \in Int
    PROVE  ((a % m) + d) % m = (a + d) % m
<1> DEFINE Whole(b) == \E q \in Int : b = m * q + (b % m)
<1>1. \A b \in Int : b % m \in 0 .. m - 1 /\ Whole(b)
  BY DivMod, ZenonT(40)
<1>2. a % m \in Int /\ (a % m) + d \in Int /\ a + d \in Int
  BY <1>1
<1>3. PICK q \in Int : a = m * q + (a % m)
  BY <1>1, ZenonT(40)
<1>4. PICK p \in Int : (a % m) + d = m * p + (((a % m) + d) % m)
  BY Zenon, <1>1, <1>2
<1>5. PICK s \in Int : a + d = m * s + ((a + d) % m)
  BY Zenon, <1>1, <1>2
<1> DEFINE r == a % m
           t == ((a % m) + d) % m
           u == (a + d) % m
<1>6. r \in Int /\ t \in 0 .. m - 1 /\ u \in 0 .. m - 1
  BY <1>1, <1>2, ZenonT(40)
<1>7. m * (q + p) = m * q + m * p /\ m * q \in Int /\ m * p \in Int /\ m * s \in Int
  OBVIOUS
<1>8. a = m * q + r /\ r + d = m * p + t /\ a + d = m * s + u
  BY Zenon, <1>3, <1>4, <1>5
<1> HIDE DEF r, t, u
<1>9. m * s + u = m * (q + p) + t
  BY <1>6, <1>7, <1>8
<1>10. q + p \in Int
  OBVIOUS
<1>11. u = t
  BY Zenon, <1>6, <1>9, <1>10, OneRemainder
<1> QED BY <1>11 DEF t, u

\* size_ after a step that moves it by d, if the exact count moves by d too.
LEMMA SizeMoves ==
    ASSUME NEW m \in Nat \ {0}, NEW a \in Int, NEW d \in Int, NEW n, n = a % m
    PROVE  (n + d) % m = (a + d) % m
  BY Zenon, WrapsAround

\* Which producers are in a push, after a step of one of them.
LEMMA InPushNext ==
    ASSUME TypeOK, NEW p \in Producers, NEW st, ppc' = [ppc EXCEPT ![p] = st]
    PROVE  InPush' = IF st = "idle" THEN InPush \ {p} ELSE InPush \cup {p}
  BY DEF TypeOK, InPush

\* Every step keeps the counter exact up to what is in flight.
LEMMA CountedStep ==
    ASSUME InductiveInvariant, SizeCounted, [Next]_vars
    PROVE  SizeCounted'
<1> DEFINE inPop == IF cpc = "count" THEN 1 ELSE 0
<1>1. /\ IsFiniteSet(InPush) /\ Cardinality(InPush) \in Nat /\ queue \in Seq(Nodes)
      /\ Len(queue) \in Nat /\ inPop \in {0, 1} /\ TypeOK
      /\ size = (Len(queue) - Cardinality(InPush) + inPop) % SizeMod
  BY FS_CardinalityType, LenProperties DEF SizeCounted, InductiveInvariant, TypeOK
<1>2. ASSUME NEW p \in Producers, PushExchange(p) PROVE SizeCounted'
  <2>1. /\ p \notin InPush /\ InPush' = InPush \cup {p}
        /\ UNCHANGED <<size, cpc>> /\ queue' = Append(queue, node + 1)
    BY <1>1, <1>2, InPushNext, ZenonT(40) DEF PushExchange, consVars, InPush
  <2>2. IsFiniteSet(InPush') /\ Cardinality(InPush') = Cardinality(InPush) + 1
    BY <1>1, <2>1, FS_AddElement
  <2>3. Len(queue') = Len(queue) + 1
    BY <1>1, <2>1
  <2>4. Len(queue') - Cardinality(InPush') = Len(queue) - Cardinality(InPush)
    BY <1>1, <2>2, <2>3
  <2> QED BY <1>1, <2>1, <2>2, <2>4 DEF SizeCounted
<1>3. ASSUME NEW p \in Producers, PushLink(p) PROVE SizeCounted'
  <2>1. InPush' = InPush /\ UNCHANGED <<size, cpc, queue>>
    BY <1>1, <1>3, InPushNext DEF PushLink, consVars, InPush
  <2> QED BY <2>1 DEF SizeCounted
<1>4. ASSUME NEW p \in Producers, PushCount(p) PROVE SizeCounted'
  <2>1. /\ p \in InPush /\ InPush' = InPush \ {p}
        /\ UNCHANGED <<queue, cpc>> /\ size' = (size + 1) % SizeMod
    BY <1>1, <1>4, InPushNext, ZenonT(40) DEF PushCount, consVars, InPush
  <2>2. IsFiniteSet(InPush') /\ Cardinality(InPush') = Cardinality(InPush) - 1
    BY <1>1, <2>1, FS_RemoveElement, SMTT(30)
  <2> DEFINE n == Len(queue) - Cardinality(InPush) + inPop
  <2>3. n \in Int /\ Len(queue) - Cardinality(InPush') + inPop = n + 1
    BY <1>1, <2>2
  <2>4. (size + 1) % SizeMod = (n + 1) % SizeMod
    <3> HIDE DEF n
    <3>1. size = n % SizeMod
      BY <1>1 DEF n
    <3>2. 1 \in Int
      OBVIOUS
    <3> QED BY Zenon, <2>3, <3>1, <3>2, SizeMoves
  <2> QED BY <2>1, <2>2, <2>3, <2>4 DEF SizeCounted
<1>5. CASE PopTake
  <2>1. /\ InPush' = InPush /\ size' = size /\ cpc = "take" /\ cpc' = "count"
        /\ queue' = Tail(queue) /\ queue # <<>>
    BY <1>5 DEF PopTake, prodVars, InPush, InductiveInvariant, ConsumerReads
  <2>2. Len(queue') = Len(queue) - 1
    BY <1>1, <2>1
  <2>3. Len(queue') - Cardinality(InPush) + 1 = Len(queue) - Cardinality(InPush) + 0
    BY <1>1, <2>2
  <2> QED BY <1>1, <2>1, <2>3 DEF SizeCounted
<1>6. CASE PopCount
  <2>1. /\ InPush' = InPush /\ UNCHANGED queue /\ cpc = "count" /\ cpc' = "idle"
        /\ size' = (size - 1) % SizeMod
    BY <1>6 DEF PopCount, prodVars, InPush
  <2> DEFINE n == Len(queue) - Cardinality(InPush) + 1
  <2>2. n \in Int /\ Len(queue) - Cardinality(InPush) + 0 = n + (-1)
    BY <1>1, SMTT(30)
  <2>3. size \in Int /\ size - 1 = size + (-1) /\ (-1) \in Int
    BY <1>1 DEF TypeOK
  <2>4. (size + (-1)) % SizeMod = (n + (-1)) % SizeMod
    <3> HIDE DEF n
    <3>1. size = n % SizeMod
      BY <1>1, <2>1 DEF n
    <3>2. \A d \in Int : (size + d) % SizeMod = (n + d) % SizeMod
      BY Zenon, <2>2, <3>1, SizeMoves
    <3> QED BY <2>3, <3>2
  <2> QED BY <1>1, <2>1, <2>2, <2>3, <2>4 DEF SizeCounted
<1>7. CASE PopLoad \/ PopCheck \/ PopSpin \/ EmptyLoad \/ EmptyCheck \/ UNCHANGED vars
  <2>1. InPush' = InPush /\ UNCHANGED <<size, queue>> /\ (cpc' = "count" <=> cpc = "count")
    BY <1>7 DEF PopLoad, PopCheck, PopSpin, EmptyLoad, EmptyCheck, vars, nodeVars, prodVars,
                consVars, InPush
  <2> QED BY <2>1 DEF SizeCounted
<1> QED BY <1>2, <1>3, <1>4, <1>5, <1>6, <1>7 DEF Next, Push, Pop, Empty

\* Size of an MPSCQueue at rest is the number of its elements, whatever pushes and pops
\* overlapped before and although the counter may have wrapped around.
THEOREM SizeExact == Spec => []QuiescentSize
<1>1. Init => SizeCounted
  <2> SUFFICES ASSUME Init PROVE SizeCounted
    OBVIOUS
  <2>1. InPush = {} /\ Len(queue) = 0 /\ cpc # "count" /\ size = 0
    BY DEF Init, InPush
  <2>2. 0 % SizeMod = 0
    BY DivMod, OneRemainder
  <2> QED BY <2>1, <2>2, FS_EmptySet DEF SizeCounted
<1>2. InductiveInvariant /\ SizeCounted /\ [Next]_vars => SizeCounted'
  BY CountedStep
<1>3. InductiveInvariant /\ SizeCounted => QuiescentSize
  <2> SUFFICES ASSUME InductiveInvariant, SizeCounted, cpc # "count", \A p \in Producers : ppc[p] = "idle"
               PROVE  size = Len(queue) % SizeMod
    BY DEF QuiescentSize
  <2>1. InPush = {} /\ Len(queue) \in Nat
    BY LenProperties DEF InPush, InductiveInvariant, TypeOK
  <2>2. Cardinality(InPush) = 0
    BY <2>1, FS_EmptySet
  <2> QED BY <2>1, <2>2 DEF SizeCounted
<1> QED BY <1>1, <1>2, <1>3, ListInOrder, PTL DEF Spec

\* MPSCQueue implements the FIFO queue of FifoQueue: it is linearizable.
THEOREM ImplementsFifo == Spec => FifoSpec
<1>1. Init => Fifo!Init
  BY DEF Init, Fifo!Init
<1>2. InductiveInvariant /\ [Next]_vars => [Fifo!Next]_<<queue, answers>>
  <2> SUFFICES ASSUME InductiveInvariant, [Next]_vars
               PROVE  Fifo!Next \/ (queue' = queue /\ answers' = answers)
    OBVIOUS
  <2>0. /\ queue \in Seq(Nodes) /\ (queue = <<>> <=> tail = head)
        /\ (next[tail] # null => queue # <<>>)
    BY LenProperties, EmptySeq DEF InductiveInvariant, TypeOK, QueueInOrder, Links, Nodes
  <2>1. ASSUME NEW p \in Producers, PushExchange(p) PROVE Fifo!Next
    <3>1. node + 1 \in Nodes /\ queue' = Append(queue, node + 1) /\ answers' = answers
      BY <2>1 DEF PushExchange, consVars, InductiveInvariant, TypeOK, Nodes
    <3> QED BY <3>1 DEF Fifo!Next, Fifo!Push
  <2>2. CASE PopCheck
    BY <2>2, <2>0 DEF PopCheck, Fifo!Next, Fifo!PopNothing
  <2>3. CASE PopTake
    <3>1. queue # <<>> /\ nextTail = queue[1]
      BY <2>3, <2>0, LenProperties, EmptySeq DEF PopTake, InductiveInvariant, ConsumerReads,
                                                 QueueInOrder
    <3>2. Head(queue) = nextTail BY <3>1, <2>0, HeadTailProperties
    <3> QED BY <3>1, <3>2, <2>3 DEF PopTake, Fifo!Next, Fifo!PopOne
  <2>4. CASE EmptyLoad
    <3>1. CASE next[tail] = null BY <2>4, <3>1 DEF EmptyLoad
    <3>2. CASE next[tail] # null
      <4>1. (queue = <<>>) = FALSE BY <3>2, <2>0
      <4>2. queue' = queue /\ answers' = Append(answers, [op |-> "empty", r |-> FALSE])
        BY <2>4, <3>2 DEF EmptyLoad
      <4> QED BY <4>1, <4>2, ZenonT(40) DEF Fifo!Next, Fifo!Empty
    <3> QED BY <3>1, <3>2
  <2>5. CASE EmptyCheck
    <3>1. (queue = <<>>) = (head = tail) BY <2>0
    <3>2. queue' = queue /\ answers' = Append(answers, [op |-> "empty", r |-> head = tail])
      BY <2>5 DEF EmptyCheck
    <3> QED BY <3>1, <3>2 DEF Fifo!Next, Fifo!Empty
  <2>6. CASE \/ PopLoad \/ PopSpin \/ PopCount \/ UNCHANGED vars
             \/ \E p \in Producers : PushLink(p) \/ PushCount(p)
    BY <2>6 DEF PopLoad, PopSpin, PopCount, PushLink, PushCount, vars, nodeVars, prodVars, consVars
  <2> QED BY <2>1, <2>2, <2>3, <2>4, <2>5, <2>6 DEF Next, Push, Pop, Empty
<1> QED BY <1>1, <1>2, ListInOrder, PTL DEF Spec, FifoSpec, Fifo!Spec

(***************************************************************************)
(* Scheduler: heap, status map and thread in step                           *)
(***************************************************************************)
CONSTANTS Users, Intervals, MaxId, MaxLate

VARIABLES s_running, s_tasks, s_task_status, s_id_cnt, s_pc, s_current, s_upc, s_mpc,
          s_completed

\* The scheduler; constants and their assumption by their own names
Tasking == INSTANCE Scheduler WITH
    running <- s_running, tasks <- s_tasks, task_status <- s_task_status,
    id_cnt <- s_id_cnt, pc <- s_pc, current <- s_current, upc <- s_upc, mpc <- s_mpc,
    completed <- s_completed

HIDE DEF null

\* Cardinality counts down to the empty set.
LEMMA SingletonCardinality == ASSUME NEW t PROVE Tasking!Cardinality({t}) = 1
<1> DEFINE count(f, T) == IF T = {} THEN 0 ELSE 1 + f[T \ {CHOOSE x : x \in T}]
           CS == CHOOSE f : f = [T \in SUBSET {t} |-> count(f, T)]
           g == [T \in SUBSET {t} |-> IF T = {} THEN 0 ELSE 1]
<1>1. g = [T \in SUBSET {t} |-> count(g, T)]
  OBVIOUS
<1>2. Tasking!Cardinality({t}) = CS[{t}]
  BY DEF Tasking!Cardinality
<1>3. CS = [T \in SUBSET {t} |-> count(CS, T)]
  BY <1>1, SMTT(30)
<1> HIDE DEF CS
<1>4. {t} \ {CHOOSE x : x \in {t}} = {}
  OBVIOUS
<1>5. CS[{}] = 0 /\ CS[{t}] = 1 + CS[{t} \ {CHOOSE x : x \in {t}}]
  BY <1>3
<1> QED BY <1>2, <1>4, <1>5

\* The empty slot of the thread is typed as a task.
LEMMA NoTaskType == Tasking!ConstantsOK => Tasking!NoTask \in Tasking!Tasks
  BY DEF Tasking!ConstantsOK, Tasking!NoTask, Tasking!Tasks

\* The interval of a task is a number.
LEMMA IntervalType == ASSUME Tasking!ConstantsOK, NEW t \in Tasking!Tasks PROVE t.interval \in Int
<1>1. t.interval \in Intervals \/ t.interval = 0
  BY Zenon DEF Tasking!Tasks
<1>2. t.interval \in Nat \/ t.interval = 0
  BY Zenon, <1>1 DEF Tasking!ConstantsOK
<1> QED BY <1>2

\* A scheduler that was never started has nothing.
LEMMA SchedulerInit == Tasking!ConstantsOK /\ Tasking!Init => Tasking!SchedulerInvariant
<1> SUFFICES ASSUME Tasking!ConstantsOK, Tasking!Init PROVE Tasking!SchedulerInvariant
  OBVIOUS
<1>1. Tasking!TypeOK
  <2>1. s_current \in Tasking!Tasks /\ s_id_cnt \in 0 .. MaxId
    BY NoTaskType DEF Tasking!Init, Tasking!ConstantsOK
  <2> QED BY Zenon, <2>1 DEF Tasking!Init, Tasking!TypeOK
<1>2. Tasking!IdsUnique /\ Tasking!Placed /\ Tasking!CompletedOff /\ Tasking!PhasesFit
  BY DEF Tasking!Init, Tasking!IdsUnique, Tasking!Placed, Tasking!CompletedOff, Tasking!PhasesFit
<1> QED BY <1>1, <1>2 DEF Tasking!SchedulerInvariant

\* A step that touches neither the heap nor the status map, and neither starts nor ends
\* the run of a task.
LEMMA SchedulerKept ==
    ASSUME Tasking!SchedulerInvariant, UNCHANGED <<s_tasks, s_task_status, s_id_cnt, s_completed>>,
           s_pc' = "run" <=> s_pc = "run", s_pc = "run" => s_current' = s_current,
           Tasking!TypeOK', Tasking!PhasesFit'
    PROVE  Tasking!SchedulerInvariant'
<1>1. Tasking!IdsUnique /\ Tasking!Placed /\ Tasking!CompletedOff
  BY DEF Tasking!SchedulerInvariant
<1>2. Tasking!IdsUnique'
  BY <1>1 DEF Tasking!IdsUnique
<1>3. Tasking!Placed'
  BY <1>1 DEF Tasking!Placed
<1>4. Tasking!CompletedOff'
  BY <1>1 DEF Tasking!CompletedOff, Tasking!On
<1> QED BY <1>2, <1>3, <1>4 DEF Tasking!SchedulerInvariant

\* Notifications, waits and wakeups, and the calls that start and stop the thread.
LEMMA ThreadMoves ==
    ASSUME Tasking!ConstantsOK, Tasking!SchedulerInvariant,
           \/ \E u \in Users : Tasking!NotifyOne(u)
           \/ Tasking!Loop \/ Tasking!WaitForTask \/ Tasking!TimedOut \/ Tasking!SpuriousWakeup
           \/ \E t \in s_tasks : Tasking!WaitUntil(t)
           \/ Tasking!Start \/ Tasking!StopFlag \/ Tasking!StopNotify \/ Tasking!StopJoin
           \/ Tasking!LeaveTasks
           \/ UNCHANGED Tasking!vars
    PROVE  Tasking!SchedulerInvariant'
<1>1. Tasking!TypeOK /\ Tasking!PhasesFit
  BY DEF Tasking!SchedulerInvariant
<1>2. ASSUME NEW u \in Users, Tasking!NotifyOne(u) PROVE Tasking!SchedulerInvariant'
  <2>1. /\ UNCHANGED <<s_running, s_tasks, s_task_status, s_id_cnt, s_current, s_mpc, s_completed>>
        /\ s_pc' = Tasking!Awake /\ s_upc' = [s_upc EXCEPT ![u] = "idle"]
    BY <1>2 DEF Tasking!NotifyOne
  <2>2. /\ s_pc' \in {"none", "loop", "lock", "wait", "wait_until", "run", "exit"}
        /\ (s_pc' = "run" <=> s_pc = "run") /\ (s_pc' = "none" <=> s_pc = "none")
        /\ (s_pc = "exit" => s_pc' = "exit")
    BY <1>1, <2>1 DEF Tasking!Awake, Tasking!Waiting, Tasking!TypeOK
  <2>3. Tasking!TypeOK'
    BY <1>1, <2>1, <2>2 DEF Tasking!TypeOK
  <2>4. Tasking!PhasesFit'
    BY <1>1, <2>1, <2>2 DEF Tasking!PhasesFit
  <2> QED BY <2>1, <2>2, <2>3, <2>4, SchedulerKept
<1>3. CASE \/ Tasking!Loop \/ Tasking!WaitForTask \/ Tasking!TimedOut \/ Tasking!SpuriousWakeup
           \/ Tasking!Start \/ Tasking!StopFlag \/ Tasking!StopNotify \/ Tasking!LeaveTasks
  <2>1. /\ UNCHANGED <<s_tasks, s_task_status, s_id_cnt, s_current, s_upc, s_completed>>
        /\ s_running' \in BOOLEAN /\ s_mpc' \in {"idle", "notify", "join", "clear"}
        /\ s_pc' \in {"none", "loop", "lock", "wait", "wait_until", "run", "exit"}
        /\ (s_pc' = "run" <=> s_pc = "run")
    BY Zenon, <1>1, <1>3 DEF Tasking!Loop, Tasking!WaitForTask, Tasking!TimedOut,
                             Tasking!SpuriousWakeup, Tasking!Start, Tasking!StopFlag,
                             Tasking!StopNotify, Tasking!LeaveTasks,
                      Tasking!Awake, Tasking!Waiting, Tasking!TypeOK, Tasking!PhasesFit
  <2>2. Tasking!TypeOK'
    BY <1>1, <2>1 DEF Tasking!TypeOK
  <2>3. Tasking!PhasesFit'
    BY <1>1, <1>3 DEF Tasking!Loop, Tasking!WaitForTask, Tasking!TimedOut, Tasking!SpuriousWakeup,
                      Tasking!Start, Tasking!StopFlag, Tasking!StopNotify, Tasking!LeaveTasks,
                      Tasking!Awake, Tasking!Waiting, Tasking!TypeOK, Tasking!PhasesFit
  <2> QED BY <2>1, <2>2, <2>3, SchedulerKept
<1>4. ASSUME NEW t \in s_tasks, Tasking!WaitUntil(t) PROVE Tasking!SchedulerInvariant'
  <2>1. /\ UNCHANGED <<s_running, s_tasks, s_task_status, s_id_cnt, s_upc, s_mpc, s_completed>>
        /\ s_pc = "lock" /\ s_pc' = "wait_until" /\ s_current' \in Tasking!Tasks
    BY <1>1, <1>4 DEF Tasking!WaitUntil, Tasking!TypeOK
  <2>2. Tasking!TypeOK'
    BY <1>1, <2>1 DEF Tasking!TypeOK
  <2>3. Tasking!PhasesFit'
    BY <1>1, <2>1 DEF Tasking!PhasesFit
  <2> QED BY <2>1, <2>2, <2>3, SchedulerKept
<1>5. CASE Tasking!StopJoin
  <2>1. /\ UNCHANGED <<s_running, s_tasks, s_task_status, s_id_cnt, s_pc, s_upc, s_completed>>
        /\ s_pc = "exit" /\ s_mpc = "join" /\ s_mpc' = "clear" /\ s_current' = Tasking!NoTask
    BY <1>5 DEF Tasking!StopJoin
  <2>2. Tasking!NoTask \in Tasking!Tasks
    BY NoTaskType
  <2>3. Tasking!TypeOK'
    BY <1>1, <2>1, <2>2 DEF Tasking!TypeOK
  <2>4. Tasking!PhasesFit'
    BY <1>1, <2>1 DEF Tasking!PhasesFit
  <2> QED BY <2>1, <2>3, <2>4, SchedulerKept
<1>6. CASE UNCHANGED Tasking!vars
  <2>1. UNCHANGED <<s_running, s_tasks, s_task_status, s_id_cnt, s_pc, s_current, s_upc, s_mpc, s_completed>>
    BY <1>6 DEF Tasking!vars
  <2>2. Tasking!TypeOK' /\ Tasking!PhasesFit'
    BY <1>1, <2>1 DEF Tasking!TypeOK, Tasking!PhasesFit
  <2> QED BY <2>1, <2>2, SchedulerKept
<1> QED BY <1>2, <1>3, <1>4, <1>5, <1>6

\* AddPeriodicTask: the id is new, so no entry of the heap or the map is mixed up.
LEMMA AddStep ==
    ASSUME Tasking!ConstantsOK, Tasking!SchedulerInvariant, NEW u \in Users,
           NEW interval \in Intervals,
           Tasking!AddPeriodicTask(u, interval)
    PROVE  Tasking!SchedulerInvariant'
<1> DEFINE t == [id |-> s_id_cnt + 1, left |-> interval, interval |-> interval]
           s == [id |-> s_id_cnt + 1, on |-> TRUE]
<1>1. /\ s_id_cnt < MaxId /\ s_id_cnt' = s_id_cnt + 1
      /\ s_tasks' = s_tasks \cup {t} /\ s_task_status' = s_task_status \cup {s}
      /\ UNCHANGED <<s_running, s_pc, s_current, s_mpc, s_completed>>
      /\ \E a \in {"idle", "notify"} : s_upc' = [s_upc EXCEPT ![u] = a]
  BY Zenon DEF Tasking!AddPeriodicTask
<1>2. /\ Tasking!TypeOK /\ Tasking!IdsUnique /\ Tasking!Placed /\ Tasking!CompletedOff
      /\ Tasking!PhasesFit
      /\ s_id_cnt \in Nat /\ MaxId \in Nat
  BY DEF Tasking!SchedulerInvariant, Tasking!TypeOK, Tasking!ConstantsOK
<1>3. /\ t.id = s_id_cnt + 1 /\ t \in Tasking!Tasks
      /\ s.id = s_id_cnt + 1 /\ s \in [id : 1 .. MaxId, on : BOOLEAN]
  BY <1>1, <1>2 DEF Tasking!ConstantsOK, Tasking!Tasks
<1> HIDE DEF t, s
<1>4. /\ \A r \in s_task_status : r.id \in 1 .. s_id_cnt /\ r.id # s_id_cnt + 1
      /\ \A x \in s_tasks : x.id \in 1 .. s_id_cnt /\ x.id # s_id_cnt + 1
      /\ s_pc = "run" => s_current.id # s_id_cnt + 1
  BY <1>2 DEF Tasking!IdsUnique
<1>5. Tasking!TypeOK'
  <2>1. s_upc' \in [Users -> {"idle", "notify"}]
    BY <1>1, <1>2 DEF Tasking!TypeOK
  <2>2. s_id_cnt' \in 0 .. MaxId
    BY <1>1, <1>2
  <2> QED BY <1>1, <1>2, <1>3, <2>1, <2>2 DEF Tasking!TypeOK
<1>6. Tasking!IdsUnique'
  <2>1. \A x, y \in s_tasks' : x.id = y.id => x = y
    BY <1>1, <1>2, <1>3, <1>4 DEF Tasking!IdsUnique
  <2>2. \A x, y \in s_task_status' : x.id = y.id => x = y
    BY <1>1, <1>2, <1>3, <1>4 DEF Tasking!IdsUnique
  <2>3. \A x \in s_task_status' : x.id \in 1 .. s_id_cnt'
    BY <1>1, <1>2, <1>3, <1>4
  <2>4. \A x \in s_tasks' : \E r \in s_task_status' : r.id = x.id
    BY <1>1, <1>2, <1>3 DEF Tasking!IdsUnique
  <2>5. s_pc' = "run" => \E r \in s_task_status' : r.id = s_current'.id
    BY <1>1, <1>2 DEF Tasking!IdsUnique
  <2> QED BY <2>1, <2>2, <2>3, <2>4, <2>5 DEF Tasking!IdsUnique
<1>7. Tasking!Placed'
  <2> SUFFICES ASSUME NEW r \in s_task_status'
               PROVE  (\E x \in s_tasks' : x.id = r.id) <=> ~(s_pc = "run" /\ s_current.id = r.id)
    BY <1>1 DEF Tasking!Placed
  <2>1. CASE r = s
    BY <1>1, <1>3, <1>4, <2>1
  <2>2. CASE r \in s_task_status
    <3>1. (\E x \in s_tasks' : x.id = r.id) <=> \E x \in s_tasks : x.id = r.id
      BY <1>1, <1>3, <1>4, <2>2
    <3> QED BY <1>2, <2>2, <3>1 DEF Tasking!Placed
  <2> QED BY <1>1, <2>1, <2>2
<1>8. Tasking!CompletedOff'
  <2> SUFFICES ASSUME NEW i \in s_completed PROVE i \in 1 .. s_id_cnt' /\ ~Tasking!On(i)'
    BY <1>1 DEF Tasking!CompletedOff
  <2>1. i \in 1 .. s_id_cnt /\ ~Tasking!On(i)
    BY <1>2 DEF Tasking!CompletedOff
  <2>2. i \in 1 .. s_id_cnt' /\ i # s_id_cnt + 1
    BY <1>1, <1>2, <2>1
  <2>3. ASSUME NEW r \in s_task_status', r.id = i, r.on PROVE FALSE
    BY <1>1, <1>3, <2>1, <2>2, <2>3 DEF Tasking!On
  <2> QED BY <2>2, <2>3 DEF Tasking!On
<1>9. Tasking!PhasesFit'
  BY <1>1, <1>2 DEF Tasking!PhasesFit
<1> QED BY <1>5, <1>6, <1>7, <1>8, <1>9 DEF Tasking!SchedulerInvariant

\* CompleteTask changes the flag of one status and nothing else.
LEMMA CompleteStep ==
    ASSUME Tasking!SchedulerInvariant, NEW id \in 1 .. MaxId, Tasking!CompleteTask(id)
    PROVE  Tasking!SchedulerInvariant'
<1> DEFINE Off(s) == IF s.id = id THEN [s EXCEPT !.on = FALSE] ELSE s
<1>1. /\ s_task_status' = {Off(s) : s \in s_task_status} /\ s_completed' = s_completed \cup {id}
      /\ UNCHANGED <<s_running, s_tasks, s_id_cnt, s_pc, s_current, s_upc, s_mpc>>
      /\ \E s \in s_task_status : s.id = id
  BY DEF Tasking!CompleteTask
<1>2. /\ Tasking!TypeOK /\ Tasking!IdsUnique /\ Tasking!Placed
      /\ Tasking!CompletedOff /\ Tasking!PhasesFit
  BY DEF Tasking!SchedulerInvariant
<1>3. \A s \in s_task_status : /\ Off(s) \in [id : 1 .. MaxId, on : BOOLEAN] /\ Off(s).id = s.id
                             /\ (s.id = id => ~Off(s).on) /\ (s.id # id => Off(s) = s)
  BY Zenon, <1>2 DEF Tasking!TypeOK
<1> HIDE DEF Off
<1>4. /\ \A r \in s_task_status' : \E s \in s_task_status : r = Off(s) /\ r.id = s.id
      /\ \A s \in s_task_status : \E r \in s_task_status' : r = Off(s) /\ r.id = s.id
  BY <1>1, <1>3
<1>5. Tasking!TypeOK'
  BY <1>1, <1>2, <1>3 DEF Tasking!TypeOK
<1>6. Tasking!IdsUnique'
  <2>1. \A x, y \in s_task_status' : x.id = y.id => x = y
    BY <1>2, <1>4 DEF Tasking!IdsUnique
  <2>2. \A x \in s_task_status' : x.id \in 1 .. s_id_cnt'
    BY <1>1, <1>2, <1>4 DEF Tasking!IdsUnique
  <2>3. \A x \in s_tasks' : \E r \in s_task_status' : r.id = x.id
    BY <1>1, <1>2, <1>4 DEF Tasking!IdsUnique
  <2>4. s_pc' = "run" => \E r \in s_task_status' : r.id = s_current'.id
    BY <1>1, <1>2, <1>4 DEF Tasking!IdsUnique
  <2> QED BY <1>1, <1>2, <2>1, <2>2, <2>3, <2>4 DEF Tasking!IdsUnique
<1>7. Tasking!Placed'
  BY <1>1, <1>2, <1>4 DEF Tasking!Placed
<1>8. Tasking!CompletedOff'
  <2> SUFFICES ASSUME NEW i \in s_completed' PROVE i \in 1 .. s_id_cnt' /\ ~Tasking!On(i)'
    BY DEF Tasking!CompletedOff
  <2>1. i \in 1 .. s_id_cnt'
    BY <1>1, <1>2 DEF Tasking!CompletedOff, Tasking!IdsUnique
  <2>2. ASSUME NEW r \in s_task_status', r.id = i, r.on PROVE FALSE
    <3>1. PICK s \in s_task_status : r = Off(s) /\ r.id = s.id
      BY <1>4
    <3>2. s.id # id /\ r = s
      BY <1>3, <2>2, <3>1
    <3> QED BY <1>1, <1>2, <2>2, <3>2 DEF Tasking!CompletedOff, Tasking!On
  <2> QED BY <2>1, <2>2 DEF Tasking!On
<1>9. Tasking!PhasesFit'
  BY <1>1, <1>2 DEF Tasking!PhasesFit
<1> QED BY <1>5, <1>6, <1>7, <1>8, <1>9 DEF Tasking!SchedulerInvariant

\* The task at the top leaves the heap to run.
LEMMA TakeToRun ==
    ASSUME Tasking!ConstantsOK, Tasking!SchedulerInvariant, NEW t \in s_tasks, Tasking!TakeTask(t),
           Tasking!On(t.id)
    PROVE  Tasking!SchedulerInvariant'
<1>1. /\ s_pc = "lock" /\ s_pc' = "run" /\ s_tasks' = s_tasks \ {t}
      /\ s_current' = [t EXCEPT !.left = t.interval]
      /\ UNCHANGED <<s_task_status, s_running, s_id_cnt, s_upc, s_mpc, s_completed>>
  BY DEF Tasking!TakeTask
<1>2. /\ Tasking!TypeOK /\ Tasking!IdsUnique /\ Tasking!Placed
      /\ Tasking!CompletedOff /\ Tasking!PhasesFit
  BY DEF Tasking!SchedulerInvariant
<1>3. s_current' \in Tasking!Tasks /\ s_current'.id = t.id
  <2>1. t \in Tasking!Tasks
    BY <1>2 DEF Tasking!TypeOK
  <2>2. t.interval \in Int
    BY Zenon, <2>1, IntervalType
  <2> QED BY <1>1, <2>1, <2>2 DEF Tasking!Tasks
<1>4. \A x \in s_tasks : x \in s_tasks' <=> x.id # t.id
  BY <1>1, <1>2 DEF Tasking!IdsUnique
<1>5. Tasking!TypeOK'
  BY <1>1, <1>2, <1>3 DEF Tasking!TypeOK
<1>6. Tasking!IdsUnique'
  BY <1>1, <1>2, <1>3 DEF Tasking!IdsUnique
<1>7. Tasking!Placed'
  <2> SUFFICES ASSUME NEW s \in s_task_status
               PROVE  (\E x \in s_tasks' : x.id = s.id) <=> s.id # t.id
    BY <1>1, <1>3 DEF Tasking!Placed
  <2>1. \E x \in s_tasks : x.id = s.id
    BY <1>1, <1>2 DEF Tasking!Placed
  <2> QED BY <1>1, <1>4, <2>1
<1>8. Tasking!CompletedOff'
  BY <1>1, <1>2 DEF Tasking!CompletedOff, Tasking!On
<1>9. Tasking!PhasesFit'
  BY <1>1, <1>2 DEF Tasking!PhasesFit
<1> QED BY <1>5, <1>6, <1>7, <1>8, <1>9 DEF Tasking!SchedulerInvariant

\* A completed task leaves the heap and the map together.
LEMMA TakeCompleted ==
    ASSUME Tasking!SchedulerInvariant, NEW t \in s_tasks, Tasking!TakeTask(t), ~Tasking!On(t.id)
    PROVE  Tasking!SchedulerInvariant'
<1>1. /\ s_pc = "lock" /\ s_pc' = "loop" /\ s_tasks' = s_tasks \ {t}
      /\ s_task_status' = {s \in s_task_status : s.id # t.id}
      /\ UNCHANGED <<s_current, s_running, s_id_cnt, s_upc, s_mpc, s_completed>>
  BY DEF Tasking!TakeTask
<1>2. /\ Tasking!TypeOK /\ Tasking!IdsUnique /\ Tasking!Placed
      /\ Tasking!CompletedOff /\ Tasking!PhasesFit
  BY DEF Tasking!SchedulerInvariant
<1>3. \A x \in s_tasks : x \in s_tasks' <=> x.id # t.id
  BY <1>1, <1>2 DEF Tasking!IdsUnique
<1>4. Tasking!TypeOK'
  BY <1>1, <1>2 DEF Tasking!TypeOK
<1>5. Tasking!IdsUnique'
  <2>1. \A x \in s_tasks' : \E s \in s_task_status' : s.id = x.id
    BY <1>1, <1>2, <1>3 DEF Tasking!IdsUnique
  <2> QED BY <1>1, <1>2, <2>1 DEF Tasking!IdsUnique
<1>6. Tasking!Placed'
  BY <1>1, <1>2, <1>3 DEF Tasking!Placed
<1>7. Tasking!CompletedOff'
  BY <1>1, <1>2 DEF Tasking!CompletedOff, Tasking!On
<1>8. Tasking!PhasesFit'
  BY <1>1, <1>2 DEF Tasking!PhasesFit
<1> QED BY <1>4, <1>5, <1>6, <1>7, <1>8 DEF Tasking!SchedulerInvariant

\* The task that has run comes back to the heap it was taken from.
LEMMA RescheduleStep ==
    ASSUME Tasking!ConstantsOK, Tasking!SchedulerInvariant, Tasking!Reschedule
    PROVE  Tasking!SchedulerInvariant'
<1>1. /\ s_pc = "run" /\ s_pc' = "loop" /\ s_tasks' = s_tasks \cup {s_current}
      /\ s_current' = Tasking!NoTask
      /\ UNCHANGED <<s_running, s_task_status, s_id_cnt, s_upc, s_mpc, s_completed>>
  BY DEF Tasking!Reschedule
<1>2. /\ Tasking!TypeOK /\ Tasking!IdsUnique /\ Tasking!Placed
      /\ Tasking!CompletedOff /\ Tasking!PhasesFit
  BY DEF Tasking!SchedulerInvariant
<1>3. \A x \in s_tasks : x.id # s_current.id
  BY <1>1, <1>2 DEF Tasking!IdsUnique, Tasking!Placed
<1>4. Tasking!TypeOK'
  BY <1>1, <1>2, NoTaskType DEF Tasking!TypeOK
<1>5. Tasking!IdsUnique'
  BY <1>1, <1>2, <1>3 DEF Tasking!IdsUnique
<1>6. Tasking!Placed'
  <2> SUFFICES ASSUME NEW s \in s_task_status PROVE \E x \in s_tasks' : x.id = s.id
    BY <1>1 DEF Tasking!Placed
  <2> QED BY <1>1, <1>2 DEF Tasking!Placed
<1>7. Tasking!CompletedOff'
  BY <1>1, <1>2 DEF Tasking!CompletedOff, Tasking!On
<1>8. Tasking!PhasesFit'
  BY <1>1, <1>2 DEF Tasking!PhasesFit
<1> QED BY <1>4, <1>5, <1>6, <1>7, <1>8 DEF Tasking!SchedulerInvariant

\* Time changes deadlines only.
LEMMA TickStep ==
    ASSUME Tasking!ConstantsOK, Tasking!SchedulerInvariant, Tasking!Tick
    PROVE  Tasking!SchedulerInvariant'
<1>1. /\ s_tasks' = {Tasking!Nearer(t) : t \in s_tasks}
      /\ s_current' = IF s_pc \in {"run", "wait_until"} THEN Tasking!Nearer(s_current)
                      ELSE Tasking!NoTask
      /\ UNCHANGED <<s_running, s_task_status, s_id_cnt, s_pc, s_upc, s_mpc, s_completed>>
  BY DEF Tasking!Tick
<1>2. /\ Tasking!TypeOK /\ Tasking!IdsUnique /\ Tasking!Placed
      /\ Tasking!CompletedOff /\ Tasking!PhasesFit
  BY DEF Tasking!SchedulerInvariant
<1>3. \A t \in Tasking!Tasks : Tasking!Nearer(t) \in Tasking!Tasks /\ Tasking!Nearer(t).id = t.id
  BY DEF Tasking!Tasks, Tasking!Nearer
<1>4. s_current' \in Tasking!Tasks /\ (s_pc = "run" => s_current'.id = s_current.id)
  BY <1>1, <1>2, <1>3, NoTaskType DEF Tasking!TypeOK
<1>5. /\ \A x \in s_tasks' : \E t \in s_tasks : x = Tasking!Nearer(t) /\ x.id = t.id
      /\ \A t \in s_tasks : \E x \in s_tasks' : x.id = t.id
      /\ s_tasks' \subseteq Tasking!Tasks
  BY <1>1, <1>2, <1>3 DEF Tasking!TypeOK
<1>6. Tasking!TypeOK'
  BY <1>1, <1>2, <1>4, <1>5 DEF Tasking!TypeOK
<1>7. Tasking!IdsUnique'
  <2>1. \A x, y \in s_tasks' : x.id = y.id => x = y
    BY <1>2, <1>5 DEF Tasking!IdsUnique
  <2>2. \A x \in s_tasks' : \E s \in s_task_status : s.id = x.id
    BY <1>2, <1>5 DEF Tasking!IdsUnique
  <2> QED BY <1>1, <1>2, <1>4, <2>1, <2>2 DEF Tasking!IdsUnique
<1>8. Tasking!Placed'
  BY <1>1, <1>2, <1>4, <1>5, SMTT(30) DEF Tasking!Placed
<1>9. Tasking!CompletedOff'
  BY <1>1, <1>2 DEF Tasking!CompletedOff, Tasking!On
<1>10. Tasking!PhasesFit'
  BY <1>1, <1>2 DEF Tasking!PhasesFit
<1> QED BY <1>6, <1>7, <1>8, <1>9, <1>10 DEF Tasking!SchedulerInvariant

\* Clear after Stop leaves a scheduler as it was constructed.
LEMMA ClearStep ==
    ASSUME Tasking!ConstantsOK, Tasking!SchedulerInvariant, Tasking!Clear
    PROVE  Tasking!SchedulerInvariant'
<1>1. /\ s_mpc = "clear" \/ (s_mpc = "idle" /\ ~s_running)
      /\ s_tasks' = {} /\ s_task_status' = {} /\ s_id_cnt' = 0
      /\ s_mpc' = "idle" /\ s_pc' = "none" /\ s_completed' = {}
      /\ UNCHANGED <<s_running, s_current, s_upc>>
  BY DEF Tasking!Clear
<1>2. Tasking!TypeOK /\ Tasking!PhasesFit
  BY DEF Tasking!SchedulerInvariant
<1>3. Tasking!TypeOK'
  <2>1. s_id_cnt' \in 0 .. MaxId
    BY <1>1 DEF Tasking!ConstantsOK
  <2> QED BY <1>1, <1>2, <2>1 DEF Tasking!TypeOK
<1>4. Tasking!IdsUnique' /\ Tasking!Placed' /\ Tasking!CompletedOff' /\ Tasking!PhasesFit'
  BY <1>1, <1>2 DEF Tasking!IdsUnique, Tasking!Placed, Tasking!CompletedOff, Tasking!PhasesFit
<1> QED BY <1>3, <1>4 DEF Tasking!SchedulerInvariant

\* Every step of the thread and of its users keeps the books.
LEMMA SchedulerNext ==
    ASSUME Tasking!ConstantsOK, Tasking!SchedulerInvariant, [Tasking!Next]_(Tasking!vars)
    PROVE  Tasking!SchedulerInvariant'
<1>1. ASSUME NEW u \in Users, NEW i \in Intervals, Tasking!AddPeriodicTask(u, i)
      PROVE  Tasking!SchedulerInvariant'
  BY <1>1, AddStep
<1>2. ASSUME NEW id \in 1 .. MaxId, Tasking!CompleteTask(id) PROVE Tasking!SchedulerInvariant'
  BY <1>2, CompleteStep
<1>3. ASSUME NEW t \in s_tasks, Tasking!TakeTask(t) PROVE Tasking!SchedulerInvariant'
  BY <1>3, TakeToRun, TakeCompleted
<1>4. CASE Tasking!Reschedule
  BY <1>4, RescheduleStep
<1>5. CASE Tasking!Tick
  BY <1>5, TickStep
<1>6. CASE Tasking!Clear
  BY <1>6, ClearStep
<1> QED BY <1>1, <1>2, <1>3, <1>4, <1>5, <1>6, ThreadMoves DEF Tasking!Next, Tasking!Thread

\* Whatever tasks are added, completed and run, and however often the scheduler is
\* stopped, cleared or left as it is, and started: ids name one task each, and what scheduler.cc keeps of
\* a task in tasks_, task_status_ and its thread fits together.
THEOREM SchedulerBookkeeping ==
    ASSUME Tasking!ConstantsOK
    PROVE  Tasking!Spec => []Tasking!SchedulerInvariant
<1>1. Tasking!Init => Tasking!SchedulerInvariant
  BY SchedulerInit
<1>2. Tasking!SchedulerInvariant /\ [Tasking!Next]_(Tasking!vars) => Tasking!SchedulerInvariant'
  BY SchedulerNext
<1> QED BY <1>1, <1>2, PTL DEF Tasking!Spec

\* No task is lost between the pop and the push after it ran, and none is scheduled
\* twice ("Remove the task before running it, to prevent overlap", scheduler.cc:62).
THEOREM TasksInStep ==
    ASSUME Tasking!ConstantsOK
    PROVE  Tasking!Spec => []Tasking!SchedulerSafe
<1>1. Tasking!SchedulerInvariant => Tasking!SchedulerSafe
  <2> SUFFICES ASSUME Tasking!SchedulerInvariant PROVE Tasking!TaskHasOnePlace
    BY DEF Tasking!SchedulerSafe, Tasking!TasksConsistent, Tasking!SchedulerInvariant
  <2> SUFFICES ASSUME NEW s \in s_task_status
               PROVE  LET inHeap == {t \in s_tasks : t.id = s.id}
                      IN  IF s_pc = "run" /\ s_current.id = s.id
                          THEN inHeap = {} ELSE Tasking!Cardinality(inHeap) = 1
    BY DEF Tasking!TaskHasOnePlace
  <2> DEFINE inHeap == {t \in s_tasks : t.id = s.id}
  <2>1. Tasking!IdsUnique /\ Tasking!Placed
    BY DEF Tasking!SchedulerInvariant
  <2>2. CASE s_pc = "run" /\ s_current.id = s.id
    <3>1. inHeap = {}
      BY <2>1, <2>2 DEF Tasking!Placed
    <3> QED BY <2>2, <3>1
  <2>3. CASE ~(s_pc = "run" /\ s_current.id = s.id)
    <3>1. PICK t \in s_tasks : t.id = s.id
      BY <2>1, <2>3 DEF Tasking!Placed
    <3>2. inHeap = {t}
      BY <2>1, <3>1 DEF Tasking!IdsUnique
    <3>3. Tasking!Cardinality(inHeap) = 1
      BY Zenon, <3>2, SingletonCardinality
    <3> QED BY <2>3, <3>3
  <2> QED BY <2>2, <2>3
<1> QED BY <1>1, SchedulerBookkeeping, PTL

\* Once CompleteTask has returned, the thread, which looks at task_status_ under the
\* same mutex, does not start the task again.
THEOREM CompletedStaysOff ==
    ASSUME Tasking!ConstantsOK
    PROVE  Tasking!Spec => Tasking!CompletedNeverStarts
<1>1. Tasking!SchedulerInvariant /\ [Tasking!Next]_(Tasking!vars) =>
         [s_pc # "run" /\ s_pc' = "run" => s_current'.id \notin s_completed]_(Tasking!vars)
  <2> SUFFICES ASSUME Tasking!SchedulerInvariant, Tasking!Next, s_pc # "run", s_pc' = "run"
               PROVE  s_current'.id \notin s_completed
    OBVIOUS
  <2>1. PICK t \in s_tasks : Tasking!TakeTask(t)
    BY DEF Tasking!Next, Tasking!Thread, Tasking!AddPeriodicTask, Tasking!NotifyOne,
           Tasking!CompleteTask, Tasking!Loop, Tasking!WaitForTask, Tasking!Reschedule,
           Tasking!TimedOut, Tasking!WaitUntil, Tasking!SpuriousWakeup, Tasking!Tick,
           Tasking!Start, Tasking!StopFlag, Tasking!StopNotify, Tasking!StopJoin,
           Tasking!LeaveTasks, Tasking!Clear, Tasking!Awake
  <2>2. Tasking!On(t.id) /\ s_current' = [t EXCEPT !.left = t.interval]
    BY <2>1 DEF Tasking!TakeTask
  <2>3. s_current'.id = t.id
    BY <2>2 DEF Tasking!SchedulerInvariant, Tasking!TypeOK, Tasking!Tasks
  <2> QED BY <2>2, <2>3 DEF Tasking!SchedulerInvariant, Tasking!CompletedOff
<1> QED BY <1>1, SchedulerBookkeeping, PTL DEF Tasking!Spec, Tasking!CompletedNeverStarts
=============================================================================
