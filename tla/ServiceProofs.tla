--------------------------- MODULE ServiceProofs ---------------------------
(***************************************************************************)
(* The services around the channels, for every value of their constants:    *)
(* timer lists and their node pool stay exact and due timers fire; the      *)
(* listener hands on whole messages; simulated errors are given as asked;   *)
(* Init and Uninit leave all of the library or nothing of it.               *)
(***************************************************************************)
EXTENDS TimerManager, SequenceTheorems, TLAPS

(***************************************************************************)
(* TimerManager: the two lists of a channel and the pool of their nodes     *)
(***************************************************************************)
\* What AddTimer does to the links, field by field.
LEMMA AddIs ==
    ASSUME ConstantsOK, now \in Nat, NEW l \in Lists, NEW m \in Managers, NEW n \in Nodes,
           l.head[m] # NoNode => l.tail[m] \in Nodes
    PROVE  LET a == Add(l, m, n)
           IN  /\ a \in Lists
               /\ \A x \in Nodes :
                     /\ a.next[x] = IF l.head[m] # NoNode /\ x = l.tail[m] THEN n ELSE l.next[x]
                     /\ a.prev[x] = IF l.head[m] # NoNode /\ x = n THEN l.tail[m] ELSE l.prev[x]
                     /\ a.fired[x] = IF x = n THEN now + Timeout[m] ELSE l.fired[x]
               /\ \A k \in Managers :
                     /\ a.head[k] = IF k = m /\ l.head[m] = NoNode THEN n ELSE l.head[k]
                     /\ a.tail[k] = IF k = m THEN n ELSE l.tail[k]
<1>1. now + Timeout[m] \in Nat
  BY DEF ConstantsOK
<1>2. /\ l.next \in [Nodes -> Nodes \cup {NoNode}] /\ l.prev \in [Nodes -> Nodes \cup {NoNode}]
      /\ l.fired \in [Nodes -> Nat] /\ l.head \in [Managers -> Nodes \cup {NoNode}]
      /\ l.tail \in [Managers -> Nodes \cup {NoNode}]
  BY DEF Lists
<1> DEFINE t == [l EXCEPT !.fired[n] = now + Timeout[m], !.tail[m] = n]
<1>3. /\ t \in Lists /\ t.next = l.next /\ t.prev = l.prev /\ t.head = l.head
      /\ t.fired = [l.fired EXCEPT ![n] = now + Timeout[m]] /\ t.tail = [l.tail EXCEPT ![m] = n]
  BY <1>1, <1>2, ZenonT(40) DEF Lists
<1> HIDE DEF t
<1>4. CASE l.head[m] = NoNode
  <2> DEFINE a == [t EXCEPT !.head[m] = n]
  <2>1. Add(l, m, n) = a
    BY <1>4, Zenon DEF Add, t
  <2>2. /\ a \in Lists /\ a.next = t.next /\ a.prev = t.prev /\ a.fired = t.fired
        /\ a.tail = t.tail /\ a.head = [t.head EXCEPT ![m] = n]
    BY <1>3 DEF Lists
  <2> HIDE DEF a
  <2> QED BY <1>2, <1>3, <1>4, <2>1, <2>2
<1>5. CASE l.head[m] # NoNode
  <2> DEFINE a == [t EXCEPT !.next[l.tail[m]] = n, !.prev[n] = l.tail[m]]
  <2>1. Add(l, m, n) = a
    BY <1>5, Zenon DEF Add, t
  <2>2. /\ a \in Lists /\ a.next = [t.next EXCEPT ![l.tail[m]] = n]
        /\ a.prev = [t.prev EXCEPT ![n] = l.tail[m]] /\ a.fired = t.fired
        /\ a.tail = t.tail /\ a.head = t.head
    BY <1>3, <1>5, ZenonT(40) DEF Lists
  <2> HIDE DEF a
  <2> QED BY <1>2, <1>3, <1>5, <2>1, <2>2
<1> QED BY <1>4, <1>5

\* Reset clears the links of one node.
LEMMA ResetIs ==
    ASSUME NEW l \in Lists, NEW n \in Nodes
    PROVE  LET r == Reset(l, n)
           IN  /\ r \in Lists /\ r.fired = l.fired /\ r.head = l.head /\ r.tail = l.tail
               /\ \A x \in Nodes : /\ r.next[x] = IF x = n THEN NoNode ELSE l.next[x]
                                   /\ r.prev[x] = IF x = n THEN NoNode ELSE l.prev[x]
<1> DEFINE r == [l EXCEPT !.next[n] = NoNode, !.prev[n] = NoNode]
<1>1. l.next \in [Nodes -> Nodes \cup {NoNode}] /\ l.prev \in [Nodes -> Nodes \cup {NoNode}]
  BY DEF Lists
<1>2. /\ r \in Lists /\ r.next = [l.next EXCEPT ![n] = NoNode]
      /\ r.prev = [l.prev EXCEPT ![n] = NoNode]
      /\ r.fired = l.fired /\ r.head = l.head /\ r.tail = l.tail
  BY <1>1, ZenonT(40) DEF Lists
<1>3. Reset(l, n) = r
  BY Zenon DEF Reset
<1> HIDE DEF r
<1> QED BY <1>1, <1>2, <1>3

\* A list of distinct nodes
Distinct(s) == s \in Seq(Nodes) /\ \A i, j \in DOMAIN s : s[i] = s[j] => i = j

\* The links of l once the i-th of m's timers s is unlinked
Unlinked(u, l, m, s, i) ==
    LET before == IF i = 1 THEN NoNode ELSE s[i - 1]
        after == IF i = Len(s) THEN NoNode ELSE s[i + 1]
    IN  /\ u \in Lists /\ u.fired = l.fired
        /\ \A x \in Nodes :
              /\ u.next[x] = IF i > 1 /\ x = s[i - 1] THEN after ELSE l.next[x]
              /\ u.prev[x] = IF i < Len(s) /\ x = s[i + 1] THEN before ELSE l.prev[x]
        /\ \A k \in Managers :
              /\ u.head[k] = IF k = m /\ i = 1 THEN after ELSE l.head[k]
              /\ u.tail[k] = IF k = m /\ i = Len(s) THEN before ELSE l.tail[k]

\* What RemoveTimer does to the links around the i-th timer.
LEMMA UnlinkIs ==
    ASSUME ConstantsOK, NEW l \in Lists, NEW m \in Managers, NEW s, Distinct(s),
           Links(l, m, s, FALSE), NEW i \in DOMAIN s
    PROVE  Unlinked(Unlink(l, m, s[i]), l, m, s, i)
<1> DEFINE n == s[i]
           before == IF i = 1 THEN NoNode ELSE s[i - 1]
           after == IF i = Len(s) THEN NoNode ELSE s[i + 1]
           u == Unlink(l, m, n)
<1>1. /\ s \in Seq(Nodes) /\ Len(s) \in Nat /\ DOMAIN s = 1 .. Len(s) /\ i \in 1 .. Len(s)
      /\ s # <<>> /\ \A j \in 1 .. Len(s) : s[j] \in Nodes
  BY DEF Distinct
<1>2. /\ l.head[m] = s[1] /\ l.tail[m] = s[Len(s)]
      /\ l.next[n] = after /\ l.prev[n] = before
  BY <1>1 DEF Links
<1>3. (n = l.head[m] <=> i = 1) /\ (n = l.tail[m] <=> i = Len(s))
  BY <1>1, <1>2 DEF Distinct
<1>4. (i # 1 => before \in Nodes) /\ (i # Len(s) => after \in Nodes) /\ n \in Nodes
  BY <1>1
<1>5. /\ l.next \in [Nodes -> Nodes \cup {NoNode}] /\ l.prev \in [Nodes -> Nodes \cup {NoNode}]
      /\ l.head \in [Managers -> Nodes \cup {NoNode}] /\ l.tail \in [Managers -> Nodes \cup {NoNode}]
  BY DEF Lists
<1> HIDE DEF n, before, after
<1>0. u = Unlink(l, m, n)
  OBVIOUS
<1> HIDE DEF u
<1>6. /\ u \in Lists /\ u.fired = l.fired
      /\ u.next = IF i # 1 THEN [l.next EXCEPT ![before] = after] ELSE l.next
      /\ u.prev = IF i # Len(s) THEN [l.prev EXCEPT ![after] = before] ELSE l.prev
      /\ u.head = IF i = 1 THEN [l.head EXCEPT ![m] = after] ELSE l.head
      /\ u.tail = IF i = Len(s) THEN [l.tail EXCEPT ![m] = before] ELSE l.tail
  <2>0. (i = 1 => before = NoNode) /\ (i = Len(s) => after = NoNode)
    BY Zenon DEF before, after
  <2>1. CASE i = 1 /\ i = Len(s)
    <3>1. u = [l EXCEPT !.head[m] = NoNode, !.tail[m] = NoNode]
      BY <1>0, <1>3, <2>1, Zenon DEF Unlink
    <3> QED BY <1>5, <2>0, <2>1, <3>1, ZenonT(40) DEF Lists
  <2>2. CASE i = 1 /\ i # Len(s)
    <3>1. u = [l EXCEPT !.head[m] = after, !.prev[after] = NoNode]
      BY <1>0, <1>2, <1>3, <2>2, Zenon DEF Unlink
    <3> QED BY <1>4, <1>5, <2>0, <2>2, <3>1, ZenonT(40) DEF Lists
  <2>3. CASE i # 1 /\ i = Len(s)
    <3>1. u = [l EXCEPT !.tail[m] = before, !.next[before] = NoNode]
      BY <1>0, <1>2, <1>3, <2>3, Zenon DEF Unlink
    <3> QED BY <1>4, <1>5, <2>0, <2>3, <3>1, ZenonT(40) DEF Lists
  <2>4. CASE i # 1 /\ i # Len(s)
    <3>1. u = [l EXCEPT !.next[before] = after, !.prev[after] = before]
      BY <1>0, <1>2, <1>3, <2>4, Zenon DEF Unlink
    <3> QED BY <1>4, <1>5, <2>4, <3>1, ZenonT(40) DEF Lists
  <2> QED BY <2>1, <2>2, <2>3, <2>4
<1>7. ASSUME NEW x \in Nodes
      PROVE  /\ u.next[x] = IF i > 1 /\ x = s[i - 1] THEN after ELSE l.next[x]
             /\ u.prev[x] = IF i < Len(s) /\ x = s[i + 1] THEN before ELSE l.prev[x]
  BY <1>1, <1>4, <1>5, <1>6 DEF before, after
<1>8. ASSUME NEW k \in Managers
      PROVE  /\ u.head[k] = IF k = m /\ i = 1 THEN after ELSE l.head[k]
             /\ u.tail[k] = IF k = m /\ i = Len(s) THEN before ELSE l.tail[k]
  BY <1>5, <1>6
<1> QED BY <1>6, <1>7, <1>8 DEF Unlinked, u, n, before, after

\* A list without repetition, as a sequence of nodes
LEMMA DistinctIs ==
    ASSUME NEW s, Distinct(s)
    PROVE  /\ s \in Seq(Nodes) /\ Len(s) \in Nat /\ DOMAIN s = 1 .. Len(s)
           /\ \A j \in 1 .. Len(s) : s[j] \in Nodes
           /\ s = <<>> <=> Len(s) = 0
  BY DEF Distinct

\* A list with a new last node
LEMMA AppendIs ==
    ASSUME NEW s, Distinct(s), NEW n \in Nodes, \A i \in DOMAIN s : s[i] # n
    PROVE  /\ Distinct(Append(s, n)) /\ Len(Append(s, n)) = Len(s) + 1
           /\ \A i \in 1 .. Len(s) : Append(s, n)[i] = s[i]
           /\ Append(s, n)[Len(s) + 1] = n
<1>1. /\ Append(s, n) \in Seq(Nodes) /\ Len(Append(s, n)) = Len(s) + 1
      /\ \A i \in 1 .. Len(s) : Append(s, n)[i] = s[i]
      /\ Append(s, n)[Len(s) + 1] = n
      /\ DOMAIN Append(s, n) = 1 .. Len(s) + 1
  BY DistinctIs
<1> DEFINE a == Append(s, n)
<1> HIDE DEF a
<1>2. ASSUME NEW i \in 1 .. Len(s) + 1, NEW j \in 1 .. Len(s) + 1, a[i] = a[j] PROVE i = j
  <2>1. Len(s) \in Nat /\ DOMAIN s = 1 .. Len(s)
    BY DistinctIs
  <2>2. CASE i <= Len(s) /\ j <= Len(s)
    <3>1. i \in DOMAIN s /\ j \in DOMAIN s /\ s[i] = s[j]
      BY <1>1, <1>2, <2>1, <2>2 DEF a
    <3> QED BY <3>1 DEF Distinct
  <2>3. CASE i <= Len(s) /\ j > Len(s)
    <3>1. i \in DOMAIN s /\ s[i] = n
      BY <1>1, <1>2, <2>1, <2>3 DEF a
    <3> QED BY <3>1
  <2>4. CASE i > Len(s) /\ j <= Len(s)
    <3>1. j \in DOMAIN s /\ s[j] = n
      BY <1>1, <1>2, <2>1, <2>4 DEF a
    <3> QED BY <3>1
  <2> QED BY <2>1, <2>2, <2>3, <2>4
<1> QED BY <1>1, <1>2 DEF Distinct, a

\* A list without its first node
LEMMA TailIs ==
    ASSUME NEW s, Distinct(s), s # <<>>
    PROVE  /\ Distinct(Tail(s)) /\ Len(Tail(s)) = Len(s) - 1
           /\ \A i \in 1 .. Len(s) - 1 : Tail(s)[i] = s[i + 1]
<1>1. /\ Tail(s) \in Seq(Nodes) /\ Len(Tail(s)) = Len(s) - 1 /\ Len(s) \in Nat
      /\ \A i \in 1 .. Len(s) - 1 : Tail(s)[i] = s[i + 1]
      /\ DOMAIN Tail(s) = 1 .. Len(s) - 1
  BY DistinctIs
<1> DEFINE a == Tail(s)
<1> HIDE DEF a
<1>2. ASSUME NEW i \in 1 .. Len(s) - 1, NEW j \in 1 .. Len(s) - 1, a[i] = a[j] PROVE i = j
  <2>1. i + 1 \in DOMAIN s /\ j + 1 \in DOMAIN s /\ s[i + 1] = s[j + 1]
    BY <1>1, <1>2, DistinctIs DEF a
  <2>2. i + 1 = j + 1
    BY <2>1 DEF Distinct
  <2> QED BY <1>1, <2>2
<1> QED BY <1>1, <1>2 DEF Distinct, a

\* A list without its i-th node
LEMMA WithoutIs ==
    ASSUME NEW s, Distinct(s), NEW i \in DOMAIN s
    PROVE  /\ Distinct(Without(s, i)) /\ Len(Without(s, i)) = Len(s) - 1
           /\ \A j \in 1 .. Len(s) - 1 : Without(s, i)[j] = IF j < i THEN s[j] ELSE s[j + 1]
           /\ \A j \in 1 .. Len(s) - 1 : Without(s, i)[j] # s[i]
<1>1. Len(s) \in Nat /\ DOMAIN s = 1 .. Len(s) /\ i \in 1 .. Len(s)
      /\ \A j \in 1 .. Len(s) : s[j] \in Nodes
  BY DistinctIs
<1> DEFINE a == Without(s, i)
<1>2. a = [j \in 1 .. Len(s) - 1 |-> IF j < i THEN s[j] ELSE s[j + 1]]
  BY Zenon DEF Without
<1> HIDE DEF a
<1>3. /\ a \in Seq(Nodes) /\ Len(a) = Len(s) - 1 /\ DOMAIN a = 1 .. Len(s) - 1
      /\ \A j \in 1 .. Len(s) - 1 : a[j] = IF j < i THEN s[j] ELSE s[j + 1]
  BY <1>1, <1>2
<1>4. ASSUME NEW j \in 1 .. Len(s) - 1, NEW k \in 1 .. Len(s) - 1, a[j] = a[k] PROVE j = k
  <2> DEFINE f(x) == IF x < i THEN x ELSE x + 1
  <2>1. f(j) \in DOMAIN s /\ f(k) \in DOMAIN s /\ s[f(j)] = s[f(k)]
    BY <1>1, <1>3, <1>4
  <2>2. f(j) = f(k)
    BY <2>1 DEF Distinct
  <2> QED BY <1>1, <2>2
<1>5. ASSUME NEW j \in 1 .. Len(s) - 1 PROVE a[j] # s[i]
  <2>1. CASE j < i
    <3>1. a[j] = s[j] /\ j \in DOMAIN s /\ j # i
      BY <1>1, <1>3, <2>1
    <3> QED BY <3>1 DEF Distinct
  <2>2. CASE ~(j < i)
    <3>1. a[j] = s[j + 1] /\ j + 1 \in DOMAIN s /\ j + 1 # i
      BY <1>1, <1>3, <2>2
    <3> QED BY <3>1 DEF Distinct
  <2> QED BY <2>1, <2>2
<1> QED BY <1>3, <1>4, <1>5 DEF Distinct, a

\* AddTimer links the new node behind the last one.
LEMMA AddLinks ==
    ASSUME ConstantsOK, now \in Nat, NEW l \in Lists, NEW m \in Managers, NEW s, Distinct(s),
           Links(l, m, s, FALSE), NEW n \in Nodes, \A i \in DOMAIN s : s[i] # n,
           l.next[n] = NoNode, l.prev[n] = NoNode
    PROVE  Links(Add(l, m, n), m, Append(s, n), FALSE)
<1> DEFINE a == Add(l, m, n)
           t == Append(s, n)
<1>1. /\ Len(s) \in Nat /\ DOMAIN s = 1 .. Len(s) /\ (s = <<>> <=> Len(s) = 0)
      /\ \A j \in 1 .. Len(s) : s[j] \in Nodes
  BY DistinctIs
<1>2. /\ DOMAIN t = 1 .. Len(s) + 1 /\ Len(t) = Len(s) + 1 /\ t # <<>>
      /\ \A i \in 1 .. Len(s) : t[i] = s[i]
      /\ t[Len(s) + 1] = n
  BY AppendIs, <1>1, DistinctIs
<1>3. (s = <<>> => l.head[m] = NoNode) /\ (s # <<>> => l.head[m] = s[1] /\ l.tail[m] = s[Len(s)])
  BY DEF Links
<1>4. (s = <<>> <=> l.head[m] = NoNode) /\ (l.head[m] # NoNode => l.tail[m] \in Nodes)
  BY <1>1, <1>3 DEF ConstantsOK
<1>5. /\ \A x \in Nodes :
            /\ a.next[x] = IF s # <<>> /\ x = l.tail[m] THEN n ELSE l.next[x]
            /\ a.prev[x] = IF s # <<>> /\ x = n THEN l.tail[m] ELSE l.prev[x]
      /\ a.head[m] = IF s = <<>> THEN n ELSE l.head[m]
      /\ a.tail[m] = n
  BY <1>4, AddIs
<1> HIDE DEF a, t
<1>6. ASSUME NEW i \in 1 .. Len(s) + 1
      PROVE  /\ a.next[t[i]] = IF i = Len(t) THEN NoNode ELSE t[i + 1]
             /\ i > 1 => a.prev[t[i]] = t[i - 1]
             /\ i = 1 => a.prev[t[i]] = NoNode
  <2>1. CASE i = Len(s) + 1
    <3>1. s # <<>> => l.tail[m] # n
      BY <1>1, <1>3
    <3> QED BY <1>1, <1>2, <1>3, <1>5, <2>1, <3>1
  <2>2. CASE i # Len(s) + 1
    <3>1. /\ i \in DOMAIN s /\ s # <<>> /\ t[i] = s[i] /\ s[i] \in Nodes /\ s[i] # n
          /\ (i > 1 => t[i - 1] = s[i - 1])
          /\ t[i + 1] = IF i = Len(s) THEN n ELSE s[i + 1]
      BY <1>1, <1>2, <2>2
    <3>2. s[i] = l.tail[m] <=> i = Len(s)
      BY <1>1, <1>3, <3>1 DEF Distinct
    <3>3. /\ l.next[s[i]] = IF i = Len(s) THEN NoNode ELSE s[i + 1]
          /\ i > 1 => l.prev[s[i]] = s[i - 1]
          /\ i = 1 => l.prev[s[i]] = NoNode
      BY <3>1 DEF Links
    <3> QED BY <1>2, <1>5, <2>2, <3>1, <3>2, <3>3
  <2> QED BY <2>1, <2>2
<1>7. a.head[m] = t[1] /\ a.tail[m] = t[Len(t)]
  BY <1>1, <1>2, <1>3, <1>5
<1> QED BY <1>2, <1>6, <1>7, ZenonT(40) DEF Links, a, t

\* ... and leaves the other manager's list alone.
LEMMA AddLeaves ==
    ASSUME ConstantsOK, now \in Nat, NEW l \in Lists, NEW m \in Managers, NEW n \in Nodes,
           NEW k \in Managers, k # m, NEW s, Distinct(s), NEW open \in BOOLEAN, Links(l, k, s, open),
           \A i \in DOMAIN s : s[i] # n,
           l.head[m] # NoNode => l.tail[m] \in Nodes /\ \A i \in DOMAIN s : s[i] # l.tail[m]
    PROVE  Links(Add(l, m, n), k, s, open)
<1> DEFINE a == Add(l, m, n)
<1>1. DOMAIN s = 1 .. Len(s) /\ \A j \in DOMAIN s : s[j] \in Nodes
  BY DistinctIs
<1>2. \A j \in DOMAIN s : a.next[s[j]] = l.next[s[j]] /\ a.prev[s[j]] = l.prev[s[j]]
  BY <1>1, AddIs
<1>3. a.head[k] = l.head[k] /\ a.tail[k] = l.tail[k]
  BY AddIs
<1> HIDE DEF a
<1> QED BY <1>2, <1>3, ZenonT(40) DEF Links, a

\* The Reset of a node outside a list leaves the list alone.
LEMMA ResetLeaves ==
    ASSUME NEW l \in Lists, NEW n \in Nodes, NEW k \in Managers, NEW s, Distinct(s),
           NEW open \in BOOLEAN, Links(l, k, s, open), \A i \in DOMAIN s : s[i] # n
    PROVE  Links(Reset(l, n), k, s, open)
<1> DEFINE a == Reset(l, n)
<1>1. DOMAIN s = 1 .. Len(s) /\ \A j \in DOMAIN s : s[j] \in Nodes
  BY DistinctIs
<1>2. \A j \in DOMAIN s : a.next[s[j]] = l.next[s[j]] /\ a.prev[s[j]] = l.prev[s[j]]
  BY <1>1, ResetIs
<1>3. a.head[k] = l.head[k] /\ a.tail[k] = l.tail[k]
  BY ResetIs
<1> HIDE DEF a
<1> QED BY <1>2, <1>3, ZenonT(40) DEF Links, a

\* HandleTimeout takes the head out: the list goes on at the next node, still open.
LEMMA TakenLinks ==
    ASSUME NEW l \in Lists, NEW m \in Managers, NEW s, Distinct(s), s # <<>>,
           NEW open \in BOOLEAN, Links(l, m, s, open)
    PROVE  LET a == [l EXCEPT !.head[m] = l.next[s[1]]]
           IN  /\ a \in Lists /\ a.next = l.next /\ a.prev = l.prev /\ a.fired = l.fired
               /\ a.tail = l.tail /\ \A k \in Managers : k # m => a.head[k] = l.head[k]
               /\ Links(a, m, Tail(s), TRUE)
<1> DEFINE a == [l EXCEPT !.head[m] = l.next[s[1]]]
           t == Tail(s)
<1>1. /\ Len(s) \in Nat /\ Len(s) > 0 /\ DOMAIN s = 1 .. Len(s)
      /\ \A j \in 1 .. Len(s) : s[j] \in Nodes
  BY DistinctIs
<1>2. /\ Len(t) = Len(s) - 1 /\ DOMAIN t = 1 .. Len(s) - 1 /\ (t = <<>> <=> Len(s) = 1)
      /\ \A i \in 1 .. Len(s) - 1 : t[i] = s[i + 1]
  <2>1. Distinct(t) /\ Len(t) = Len(s) - 1 /\ \A i \in 1 .. Len(s) - 1 : t[i] = s[i + 1]
    BY TailIs, Zenon
  <2> HIDE DEF t
  <2>2. Len(t) \in Nat /\ DOMAIN t = 1 .. Len(t) /\ (t = <<>> <=> Len(t) = 0)
    BY <2>1, DistinctIs, Zenon
  <2> QED BY <1>1, <2>1, <2>2
<1>3. l.next[s[1]] \in Nodes \cup {NoNode}
  BY <1>1 DEF Lists
<1>4. /\ a \in Lists /\ a.next = l.next /\ a.prev = l.prev /\ a.fired = l.fired
      /\ a.tail = l.tail /\ a.head = [l.head EXCEPT ![m] = l.next[s[1]]]
      /\ l.head \in [Managers -> Nodes \cup {NoNode}]
  BY <1>3, ZenonT(40) DEF Lists
<1> HIDE DEF a, t
<1>5. a.head[m] = IF t = <<>> THEN NoNode ELSE t[1]
  <2>1. l.next[s[1]] = IF 1 = Len(s) THEN NoNode ELSE s[2]
    BY <1>1 DEF Links
  <2> QED BY <1>1, <1>2, <1>4, <2>1
<1>6. t # <<>> => a.tail[m] = t[Len(t)]
  <2>1. l.tail[m] = s[Len(s)]
    BY DEF Links
  <2> QED BY <1>1, <1>2, <1>4, <2>1
<1>7. ASSUME NEW i \in DOMAIN t
      PROVE  /\ a.next[t[i]] = IF i = Len(t) THEN NoNode ELSE t[i + 1]
             /\ i > 1 => a.prev[t[i]] = t[i - 1]
  <2>1. i \in 1 .. Len(s) - 1 /\ i + 1 \in DOMAIN s /\ t[i] = s[i + 1]
    BY <1>1, <1>2
  <2>2. /\ l.next[s[i + 1]] = IF i + 1 = Len(s) THEN NoNode ELSE s[(i + 1) + 1]
        /\ i + 1 > 1 => l.prev[s[i + 1]] = s[(i + 1) - 1]
    BY <2>1, Zenon DEF Links
  <2> QED BY <1>1, <1>2, <1>4, <2>1, <2>2
<1>8. Links(a, m, t, TRUE)
  BY <1>5, <1>6, <1>7, Zenon DEF Links
<1> QED BY <1>4, <1>8, Zenon DEF a, t

\* Two lists with the same links at a manager's nodes
LEMMA SameLinks ==
    ASSUME NEW l \in Lists, NEW a \in Lists, NEW k \in Managers, NEW s, NEW open \in BOOLEAN,
           Links(l, k, s, open), a.head[k] = l.head[k], a.tail[k] = l.tail[k],
           \A i \in DOMAIN s : a.next[s[i]] = l.next[s[i]] /\ a.prev[s[i]] = l.prev[s[i]]
    PROVE  Links(a, k, s, open)
  BY Zenon DEF Links

\* The links of l once the i-th of m's timers s is removed
Removed(r, l, m, s, i) ==
    /\ r \in Lists /\ r.fired = l.fired
    /\ r.next[s[i]] = NoNode /\ r.prev[s[i]] = NoNode
    /\ Links(r, m, Without(s, i), FALSE)
    /\ \A x \in Nodes : (\A j \in DOMAIN s : s[j] # x) =>
          r.next[x] = l.next[x] /\ r.prev[x] = l.prev[x]
    /\ \A k \in Managers : k # m => r.head[k] = l.head[k] /\ r.tail[k] = l.tail[k]

\* RemoveTimer leaves the list without the node, and the node without links.
LEMMA RemoveLinks ==
    ASSUME ConstantsOK, NEW l \in Lists, NEW m \in Managers, NEW s, Distinct(s),
           Links(l, m, s, FALSE), NEW i \in DOMAIN s
    PROVE  Removed(Reset(Unlink(l, m, s[i]), s[i]), l, m, s, i)
<1> DEFINE u == Unlink(l, m, s[i])
           r == Reset(u, s[i])
           w == Without(s, i)
           before == IF i = 1 THEN NoNode ELSE s[i - 1]
           after == IF i = Len(s) THEN NoNode ELSE s[i + 1]
<1>0. /\ u = Unlink(l, m, s[i]) /\ before = IF i = 1 THEN NoNode ELSE s[i - 1]
      /\ after = IF i = Len(s) THEN NoNode ELSE s[i + 1]
  OBVIOUS
<1> HIDE DEF u, before, after
<1>1. /\ Len(s) \in Nat /\ DOMAIN s = 1 .. Len(s) /\ s # <<>> /\ i \in 1 .. Len(s)
      /\ \A j \in 1 .. Len(s) : s[j] \in Nodes
  BY DistinctIs
<1>2. /\ Len(w) = Len(s) - 1 /\ DOMAIN w = 1 .. Len(s) - 1 /\ (w = <<>> <=> Len(s) = 1)
      /\ \A j \in 1 .. Len(s) - 1 : w[j] = IF j < i THEN s[j] ELSE s[j + 1]
  <2>1. /\ Distinct(w) /\ Len(w) = Len(s) - 1
        /\ \A j \in 1 .. Len(s) - 1 : w[j] = IF j < i THEN s[j] ELSE s[j + 1]
    BY WithoutIs, Zenon
  <2> HIDE DEF w
  <2>2. Len(w) \in Nat /\ DOMAIN w = 1 .. Len(w) /\ (w = <<>> <=> Len(w) = 0)
    BY <2>1, DistinctIs, Zenon
  <2> QED BY <1>1, <2>1, <2>2
<1>3. /\ u \in Lists /\ u.fired = l.fired
      /\ \A x \in Nodes :
            /\ u.next[x] = IF i > 1 /\ x = s[i - 1] THEN after ELSE l.next[x]
            /\ u.prev[x] = IF i < Len(s) /\ x = s[i + 1] THEN before ELSE l.prev[x]
      /\ \A k \in Managers :
            /\ u.head[k] = IF k = m /\ i = 1 THEN after ELSE l.head[k]
            /\ u.tail[k] = IF k = m /\ i = Len(s) THEN before ELSE l.tail[k]
  <2>1. Unlinked(u, l, m, s, i)
    BY <1>0, UnlinkIs, Zenon
  <2> QED BY <2>1 DEF Unlinked, before, after
<1>4. /\ r \in Lists /\ r.fired = u.fired /\ r.head = u.head /\ r.tail = u.tail
      /\ \A x \in Nodes : /\ r.next[x] = IF x = s[i] THEN NoNode ELSE u.next[x]
                          /\ r.prev[x] = IF x = s[i] THEN NoNode ELSE u.prev[x]
  BY <1>1, <1>3, ResetIs, ZenonT(40)
<1>5. \A j, k \in 1 .. Len(s) : s[j] = s[k] => j = k
  BY <1>1 DEF Distinct
<1>6. /\ l.head[m] = s[1] /\ l.tail[m] = s[Len(s)]
      /\ \A j \in 1 .. Len(s) :
            /\ l.next[s[j]] = IF j = Len(s) THEN NoNode ELSE s[j + 1]
            /\ l.prev[s[j]] = IF j = 1 THEN NoNode ELSE s[j - 1]
  <2>1. l.head[m] = s[1] /\ l.tail[m] = s[Len(s)]
    BY <1>1 DEF Links
  <2>2. ASSUME NEW j \in 1 .. Len(s)
        PROVE  /\ l.next[s[j]] = IF j = Len(s) THEN NoNode ELSE s[j + 1]
               /\ j > 1 => l.prev[s[j]] = s[j - 1]
               /\ j = 1 => l.prev[s[j]] = NoNode
    BY <1>1, <2>2 DEF Links
  <2>3. ASSUME NEW j \in 1 .. Len(s)
        PROVE  l.prev[s[j]] = IF j = 1 THEN NoNode ELSE s[j - 1]
    <3>1. j > 1 \/ j = 1
      BY <1>1
    <3> QED BY <2>2, <3>1
  <2> QED BY <2>1, <2>2, <2>3
<1> HIDE DEF r, w
<1>7. r.head[m] = IF w = <<>> THEN NoNode ELSE w[1]
  <2>1. r.head[m] = IF i = 1 THEN after ELSE s[1]
    BY <1>3, <1>4, <1>6
  <2> QED BY <1>0, <1>1, <1>2, <2>1
<1>8. r.tail[m] = IF w = <<>> THEN NoNode ELSE w[Len(w)]
  <2>1. r.tail[m] = IF i = Len(s) THEN before ELSE s[Len(s)]
    BY <1>3, <1>4, <1>6
  <2> QED BY <1>0, <1>1, <1>2, <2>1
<1>9. ASSUME NEW j \in 1 .. Len(s) - 1
      PROVE  /\ r.next[w[j]] = IF j = Len(w) THEN NoNode ELSE w[j + 1]
             /\ r.prev[w[j]] = IF j = 1 THEN NoNode ELSE w[j - 1]
  <2> DEFINE f == IF j < i THEN j ELSE j + 1
  <2>1. f \in 1 .. Len(s) /\ f # i /\ w[j] = s[f] /\ s[f] \in Nodes /\ s[f] # s[i]
    BY <1>1, <1>2, <1>5
  <2>2. r.next[s[f]] = u.next[s[f]] /\ r.prev[s[f]] = u.prev[s[f]]
    BY <1>4, <2>1, Zenon
  <2>3. (i > 1 /\ s[f] = s[i - 1]) <=> (i > 1 /\ f = i - 1)
    BY <1>1, <1>5, <2>1
  <2>4. (i < Len(s) /\ s[f] = s[i + 1]) <=> (i < Len(s) /\ f = i + 1)
    BY <1>1, <1>5, <2>1
  <2>5. /\ r.next[s[f]] = IF i > 1 /\ f = i - 1 THEN after ELSE l.next[s[f]]
        /\ r.prev[s[f]] = IF i < Len(s) /\ f = i + 1 THEN before ELSE l.prev[s[f]]
    <3> HIDE DEF f
    <3> QED BY <1>3, <2>1, <2>2, <2>3, <2>4, Zenon
  <2>6. /\ l.next[s[f]] = IF f = Len(s) THEN NoNode ELSE s[f + 1]
        /\ l.prev[s[f]] = IF f = 1 THEN NoNode ELSE s[f - 1]
    <3> HIDE DEF f
    <3> QED BY <1>6, <2>1, Zenon
  <2>7. CASE j < i
    <3>1. f = j
      BY <2>7
    <3> HIDE DEF f
    <3>2. CASE j = i - 1
      BY <1>0, <1>1, <1>2, <2>1, <2>5, <2>6, <2>7, <3>1, <3>2, SMTT(30)
    <3>3. CASE j # i - 1
      BY <1>1, <1>2, <2>1, <2>5, <2>6, <2>7, <3>1, <3>3, SMTT(30)
    <3> QED BY <3>2, <3>3
  <2>8. CASE ~(j < i)
    <3>1. f = j + 1
      BY <2>8
    <3> HIDE DEF f
    <3>2. CASE j = i
      <4>1. r.next[w[j]] = IF j = Len(w) THEN NoNode ELSE w[j + 1]
        BY <1>0, <1>1, <1>2, <2>1, <2>5, <2>6, <2>8, <3>1, <3>2
      <4>2. r.prev[w[j]] = IF j = 1 THEN NoNode ELSE w[j - 1]
        BY <1>0, <1>1, <1>2, <2>1, <2>5, <2>6, <2>8, <3>1, <3>2
      <4> QED BY <4>1, <4>2
    <3>3. CASE j # i
      <4>1. /\ r.next[w[j]] = l.next[s[f]] /\ r.prev[w[j]] = l.prev[s[f]]
        BY <1>1, <2>1, <2>5, <2>8, <3>1, <3>3
      <4>2. /\ l.next[s[f]] = IF j + 1 = Len(s) THEN NoNode ELSE s[(j + 1) + 1]
            /\ l.prev[s[f]] = IF j + 1 = 1 THEN NoNode ELSE s[j]
        <5>1. f - 1 = j /\ f + 1 = (j + 1) + 1
          BY <3>1
        <5> QED BY <2>6, <3>1, <5>1, Zenon
      <4>3. j # 1 /\ w[j - 1] = s[j] /\ (j # Len(w) => w[j + 1] = s[(j + 1) + 1])
        <5>1. j # 1 /\ j - 1 \in 1 .. Len(s) - 1 /\ ~(j - 1 < i) /\ (j - 1) + 1 = j
          BY <1>1, <2>8, <3>3
        <5>2. j # Len(w) => j + 1 \in 1 .. Len(s) - 1 /\ ~(j + 1 < i)
          <6>1. Len(w) = Len(s) - 1 /\ Len(s) \in Nat /\ i \in 1 .. Len(s)
            BY <1>1, <1>2, Zenon
          <6> QED BY <2>8, <6>1
        <5>3. w[j - 1] = s[(j - 1) + 1]
          BY <1>2, <5>1, Zenon
        <5>4. j # Len(w) => w[j + 1] = s[(j + 1) + 1]
          BY <1>2, <5>2, Zenon
        <5> QED BY <5>1, <5>3, <5>4
      <4> QED BY <1>1, <1>2, <4>1, <4>2, <4>3
    <3> QED BY <3>2, <3>3
  <2> QED BY <2>7, <2>8
<1>10. Links(r, m, w, FALSE)
  BY <1>2, <1>7, <1>8, <1>9, SMTT(30) DEF Links
<1>11. ASSUME NEW x \in Nodes, \A j \in DOMAIN s : s[j] # x
       PROVE  r.next[x] = l.next[x] /\ r.prev[x] = l.prev[x]
  <2>1. x # s[i] /\ (i > 1 => x # s[i - 1]) /\ (i < Len(s) => x # s[i + 1])
    BY <1>1, <1>11
  <2> QED BY <1>3, <1>4, <2>1, ZenonT(40)
<1>12. \A k \in Managers : k # m => r.head[k] = l.head[k] /\ r.tail[k] = l.tail[k]
  BY <1>3, <1>4, ZenonT(40)
<1>13. r.next[s[i]] = NoNode /\ r.prev[s[i]] = NoNode
  BY <1>1, <1>4, Zenon
<1> QED BY <1>3, <1>4, <1>10, <1>11, <1>12, <1>13, Zenon DEF Removed, u, r, w

\* A manager's list: linked in the order of s, which is the order of expiry, outside the
\* pool; ts: the time
Good(l, fr, m, s, open, ts) ==
    /\ Distinct(s) /\ Links(l, m, s, open)
    /\ \A i \in DOMAIN s : s[i] \notin fr
    /\ \A i \in DOMAIN s : l.fired[s[i]] <= ts + Timeout[m]
    /\ \A i, j \in DOMAIN s : i < j => l.fired[s[i]] <= l.fired[s[j]]

Apart(s, t) == \A i \in DOMAIN s, j \in DOMAIN t : s[i] # t[j]

\* The invariant of both lists and the pool; op: the managers whose list is open
Shape(l, fr, ad, op, ts) ==
    /\ l \in Lists /\ fr \subseteq Nodes /\ ad \in [Managers -> Seq(Nodes)]
    /\ \A m \in Managers : Good(l, fr, m, ad[m], m \in op, ts)
    /\ \A m, k \in Managers : m # k => Apart(ad[m], ad[k])
    /\ \A n \in fr : l.next[n] = NoNode /\ l.prev[n] = NoNode

\* AddTimer keeps the shape.
LEMMA AddShape ==
    ASSUME ConstantsOK, now \in Nat, NEW l, NEW fr, NEW ad, NEW op, Shape(l, fr, ad, op, now),
           NEW m \in Managers, m \notin op, NEW n \in fr
    PROVE  Shape(Add(l, m, n), fr \ {n}, [ad EXCEPT ![m] = Append(@, n)], op, now)
<1> DEFINE a == Add(l, m, n)
           b == [ad EXCEPT ![m] = Append(@, n)]
           s == ad[m]
<1>1. /\ l \in Lists /\ n \in Nodes /\ fr \subseteq Nodes /\ ad \in [Managers -> Seq(Nodes)]
      /\ \A k \in Managers : Good(l, fr, k, ad[k], k \in op, now)
      /\ \A k, j \in Managers : k # j => Apart(ad[k], ad[j])
      /\ \A x \in fr : l.next[x] = NoNode /\ l.prev[x] = NoNode
  BY Zenon DEF Shape
<1>2. b \in [Managers -> Seq(Nodes)] /\ b[m] = Append(s, n) /\ \A k \in Managers : k # m => b[k] = ad[k]
  BY <1>1
<1> HIDE DEF b
<1>3. \A k \in Managers : /\ Distinct(ad[k]) /\ Links(l, k, ad[k], k \in op)
                          /\ \A i \in DOMAIN ad[k] : ad[k][i] \notin fr /\ ad[k][i] # n
  BY <1>1, Zenon DEF Good
<1>4. Distinct(s) /\ Links(l, m, s, FALSE) /\ \A i \in DOMAIN s : s[i] \notin fr /\ s[i] # n
  <2>1. (m \in op) = FALSE
    OBVIOUS
  <2> QED BY <1>3, <2>1, Zenon
<1> HIDE DEF s
<1>5. Len(s) \in Nat /\ DOMAIN s = 1 .. Len(s) /\ (s = <<>> <=> Len(s) = 0)
  BY <1>4, DistinctIs, Zenon
<1>6. l.head[m] # NoNode => \E i \in DOMAIN s : l.tail[m] = s[i]
  <2>1. l.head[m] # NoNode => s # <<>> /\ l.tail[m] = s[Len(s)]
    BY <1>4, Zenon DEF Links
  <2>2. s # <<>> => Len(s) \in DOMAIN s
    BY <1>5
  <2> QED BY <2>1, <2>2, Zenon
<1>7. l.head[m] # NoNode => l.tail[m] \in Nodes
  BY <1>4, <1>5, <1>6, DistinctIs, Zenon
<1>8. /\ a \in Lists
      /\ \A x \in Nodes : a.fired[x] = IF x = n THEN now + Timeout[m] ELSE l.fired[x]
  BY <1>1, <1>7, AddIs
<1>9. \A x \in fr \ {n} : a.next[x] = NoNode /\ a.prev[x] = NoNode
  <2> SUFFICES ASSUME NEW x \in fr \ {n} PROVE a.next[x] = NoNode /\ a.prev[x] = NoNode
    BY Zenon
  <2>1. x \in Nodes /\ l.next[x] = NoNode /\ l.prev[x] = NoNode /\ x # n
    BY <1>1, Zenon
  <2>2. l.head[m] # NoNode => x # l.tail[m]
    BY <1>4, <1>6, Zenon
  <2>3. /\ a.next[x] = IF l.head[m] # NoNode /\ x = l.tail[m] THEN n ELSE l.next[x]
        /\ a.prev[x] = IF l.head[m] # NoNode /\ x = n THEN l.tail[m] ELSE l.prev[x]
    BY <1>1, <1>7, <2>1, AddIs
  <2> QED BY <2>1, <2>2, <2>3, Zenon
<1>10. Links(a, m, Append(s, n), FALSE)
  BY <1>1, <1>4, AddLinks, Zenon
<1>11. ASSUME NEW k \in Managers, k # m PROVE Links(a, k, ad[k], k \in op)
  <2>1. Apart(ad[m], ad[k])
    BY <1>1, <1>11, Zenon
  <2>2. l.head[m] # NoNode => \A i \in DOMAIN ad[k] : ad[k][i] # l.tail[m]
    BY <1>6, <2>1, Zenon DEF Apart, s
  <2>3. (k \in op) \in BOOLEAN
    OBVIOUS
  <2>4. /\ Distinct(ad[k]) /\ Links(l, k, ad[k], k \in op) /\ l \in Lists /\ n \in Nodes
        /\ \A i \in DOMAIN ad[k] : ad[k][i] # n
    BY <1>1, <1>3, Zenon
  <2> QED BY <1>7, <1>11, <2>2, <2>3, <2>4, AddLeaves, Zenon
<1> HIDE DEF a
<1>12. /\ Distinct(Append(s, n)) /\ Len(Append(s, n)) = Len(s) + 1
       /\ \A i \in 1 .. Len(s) : Append(s, n)[i] = s[i]
       /\ Append(s, n)[Len(s) + 1] = n
  BY <1>1, <1>4, AppendIs, Zenon
<1> DEFINE t == Append(s, n)
<1> HIDE DEF t
<1>13. DOMAIN t = 1 .. Len(s) + 1 /\ Len(s) \in Nat
  BY <1>5, <1>12, DistinctIs, Zenon DEF t
<1>14. \A i \in DOMAIN t : (i \in DOMAIN s /\ t[i] = s[i]) \/ (i = Len(s) + 1 /\ t[i] = n)
  <2> SUFFICES ASSUME NEW i \in DOMAIN t
               PROVE  (i \in DOMAIN s /\ t[i] = s[i]) \/ (i = Len(s) + 1 /\ t[i] = n)
    BY Zenon
  <2>1. i \in 1 .. Len(s) \/ i = Len(s) + 1
    BY <1>13
  <2> QED BY <1>5, <1>12, <2>1, Zenon DEF t
<1>15. \A i \in DOMAIN s : s[i] \in Nodes /\ a.fired[s[i]] = l.fired[s[i]] /\ l.fired[s[i]] \in Nat
  <2>1. \A i \in DOMAIN s : s[i] \in Nodes
    BY <1>4, <1>5, DistinctIs, Zenon
  <2>2. \A x \in Nodes : l.fired[x] \in Nat
    BY <1>1 DEF Lists
  <2> QED BY <1>4, <1>8, <2>1, <2>2, Zenon
<1>16. a.fired[n] = now + Timeout[m] /\ now + Timeout[m] \in Nat
  BY <1>1, <1>8 DEF ConstantsOK
<1>17. /\ \A i \in DOMAIN s : l.fired[s[i]] <= now + Timeout[m]
       /\ \A i, j \in DOMAIN s : i < j => l.fired[s[i]] <= l.fired[s[j]]
  BY <1>1, Zenon DEF Good, s
<1>18. ASSUME NEW i \in DOMAIN t PROVE a.fired[t[i]] <= now + Timeout[m]
  <2>1. CASE i \in DOMAIN s /\ t[i] = s[i]
    BY <1>15, <1>17, <2>1, Zenon
  <2>2. CASE t[i] = n
    BY <1>16, <2>2
  <2> QED BY <1>14, <2>1, <2>2, Zenon
<1>19. ASSUME NEW i \in DOMAIN t, NEW j \in DOMAIN t, i < j PROVE a.fired[t[i]] <= a.fired[t[j]]
  <2>1. i \in DOMAIN s /\ t[i] = s[i]
    BY <1>5, <1>13, <1>14, <1>19
  <2>2. CASE j \in DOMAIN s /\ t[j] = s[j]
    BY <1>15, <1>17, <1>19, <2>1, <2>2, Zenon
  <2>3. CASE t[j] = n
    BY <1>15, <1>16, <1>17, <2>1, <2>3, Zenon
  <2> QED BY <1>14, <2>2, <2>3, Zenon
<1>20. \A i \in DOMAIN t : t[i] \notin fr \ {n}
  BY <1>4, <1>14, Zenon
<1>21. Good(a, fr \ {n}, m, t, FALSE, now)
  BY <1>10, <1>12, <1>18, <1>19, <1>20, Zenon DEF Good, t
<1>22. ASSUME NEW k \in Managers, k # m PROVE Good(a, fr \ {n}, k, ad[k], k \in op, now)
  <2>1. Good(l, fr, k, ad[k], k \in op, now)
    BY <1>1, Zenon
  <2>2. \A i \in DOMAIN ad[k] : ad[k][i] \in Nodes /\ ad[k][i] # n
    BY <1>3, DistinctIs, Zenon
  <2>3. \A i \in DOMAIN ad[k] : a.fired[ad[k][i]] = l.fired[ad[k][i]]
    BY <1>8, <2>2, Zenon
  <2>4. Links(a, k, ad[k], k \in op)
    BY <1>11, <1>22, Zenon
  <2> QED BY <2>1, <2>3, <2>4, Zenon DEF Good
<1>23. ASSUME NEW k \in Managers PROVE Good(a, fr \ {n}, k, b[k], k \in op, now)
  <2>1. CASE k = m
    <3>1. (k \in op) = FALSE
      BY <2>1
    <3> QED BY <1>2, <1>21, <2>1, <3>1, Zenon DEF t
  <2> QED BY <1>2, <1>22, <2>1, Zenon
<1>24. ASSUME NEW k \in Managers, k # m PROVE Apart(t, ad[k]) /\ Apart(ad[k], t)
  <2>1. Apart(s, ad[k]) /\ Apart(ad[k], s)
    BY <1>1, <1>24, Zenon DEF s
  <2> QED BY <1>3, <1>14, <2>1, Zenon DEF Apart
<1>25. ASSUME NEW k \in Managers, NEW j \in Managers, k # j PROVE Apart(b[k], b[j])
  BY <1>1, <1>2, <1>24, <1>25, Zenon DEF t
<1>26. fr \ {n} \subseteq Nodes
  BY <1>1, Zenon
<1> QED BY <1>2, <1>8, <1>9, <1>23, <1>25, <1>26, Zenon DEF Shape, a, b

\* What Shape says, list by list
LEMMA ShapeIs ==
    ASSUME NEW ts, NEW l, NEW fr, NEW ad, NEW op, Shape(l, fr, ad, op, ts)
    PROVE  /\ l \in Lists /\ fr \subseteq Nodes /\ DOMAIN ad = Managers /\ ad \in [Managers -> Seq(Nodes)]
           /\ \A k \in Managers :
                 /\ Good(l, fr, k, ad[k], k \in op, ts) /\ Distinct(ad[k]) /\ Links(l, k, ad[k], k \in op)
                 /\ (k \in op) \in BOOLEAN
                 /\ \A i \in DOMAIN ad[k] : ad[k][i] \in Nodes /\ ad[k][i] \notin fr
           /\ \A k, j \in Managers : k # j => Apart(ad[k], ad[j])
           /\ \A x \in fr : l.next[x] = NoNode /\ l.prev[x] = NoNode
<1>1. /\ l \in Lists /\ fr \subseteq Nodes /\ ad \in [Managers -> Seq(Nodes)]
      /\ \A k \in Managers : Good(l, fr, k, ad[k], k \in op, ts)
      /\ \A k, j \in Managers : k # j => Apart(ad[k], ad[j])
      /\ \A x \in fr : l.next[x] = NoNode /\ l.prev[x] = NoNode
  BY Zenon DEF Shape
<1>2. ASSUME NEW k \in Managers
      PROVE  /\ Distinct(ad[k]) /\ Links(l, k, ad[k], k \in op)
             /\ \A i \in DOMAIN ad[k] : ad[k][i] \notin fr
  BY <1>1, Zenon DEF Good
<1>3. ASSUME NEW k \in Managers PROVE \A i \in DOMAIN ad[k] : ad[k][i] \in Nodes
  BY <1>2, DistinctIs, Zenon
<1>4. ASSUME NEW k \in Managers PROVE (k \in op) \in BOOLEAN
  OBVIOUS
<1>5. DOMAIN ad = Managers
  BY <1>1
<1> QED BY <1>1, <1>2, <1>3, <1>4, <1>5, Zenon

\* A sequence s of which t is a part, in the same order
Part(t, s) == \E f \in [DOMAIN t -> DOMAIN s] :
                 /\ \A i \in DOMAIN t : t[i] = s[f[i]]
                 /\ \A i, j \in DOMAIN t : i < j => f[i] < f[j]

\* A part of a list, linked, is a list.
LEMMA PartGood ==
    ASSUME NEW ts, NEW l, NEW a, NEW fr, NEW gr, NEW m \in Managers, NEW s, NEW t, NEW o, NEW p,
           Good(l, fr, m, s, o, ts), Distinct(t), Part(t, s), Links(a, m, t, p),
           \A i \in DOMAIN s : a.fired[s[i]] = l.fired[s[i]],
           \A i \in DOMAIN t : t[i] \notin gr
    PROVE  Good(a, gr, m, t, p, ts)
<1>1. PICK f \in [DOMAIN t -> DOMAIN s] : /\ \A i \in DOMAIN t : t[i] = s[f[i]]
                                          /\ \A i, j \in DOMAIN t : i < j => f[i] < f[j]
  BY Zenon DEF Part
<1>2. \A i \in DOMAIN t : f[i] \in DOMAIN s
  OBVIOUS
<1>3. /\ \A i \in DOMAIN s : l.fired[s[i]] <= ts + Timeout[m]
      /\ \A i, j \in DOMAIN s : i < j => l.fired[s[i]] <= l.fired[s[j]]
  BY Zenon DEF Good
<1>4. \A i \in DOMAIN t : a.fired[t[i]] = l.fired[s[f[i]]]
  BY <1>1, <1>2, Zenon
<1>5. \A i \in DOMAIN t : a.fired[t[i]] <= ts + Timeout[m]
  BY <1>2, <1>3, <1>4, Zenon
<1>6. \A i, j \in DOMAIN t : i < j => a.fired[t[i]] <= a.fired[t[j]]
  BY <1>1, <1>2, <1>3, <1>4, Zenon
<1> QED BY <1>5, <1>6, Zenon DEF Good

\* A list is a part of itself,
LEMMA SelfPart ==
    ASSUME NEW s, Distinct(s)
    PROVE  Part(s, s)
<1> DEFINE f == [i \in DOMAIN s |-> i]
<1>1. f \in [DOMAIN s -> DOMAIN s] /\ \A i \in DOMAIN s : f[i] = i
  BY Zenon
<1> HIDE DEF f
<1>2. /\ \A i \in DOMAIN s : s[i] = s[f[i]]
      /\ \A i, j \in DOMAIN s : i < j => f[i] < f[j]
  BY <1>1, Zenon
<1> QED BY <1>1, <1>2, Zenon DEF Part

\* so is what a taken head leaves,
LEMMA TailPart ==
    ASSUME NEW s, Distinct(s), s # <<>>
    PROVE  Part(Tail(s), s) /\ \A i \in DOMAIN Tail(s) : Tail(s)[i] # s[1]
<1> DEFINE t == Tail(s)
<1>1. Distinct(t) /\ Len(t) = Len(s) - 1 /\ \A i \in 1 .. Len(s) - 1 : t[i] = s[i + 1]
  BY TailIs, Zenon
<1> HIDE DEF t
<1>2. DOMAIN t = 1 .. Len(s) - 1 /\ Len(s) \in Nat /\ DOMAIN s = 1 .. Len(s) /\ Len(s) # 0
  <2>1. DOMAIN t = 1 .. Len(t)
    BY <1>1, DistinctIs, Zenon
  <2> QED BY <1>1, <2>1, DistinctIs
<1> DEFINE f == [i \in DOMAIN t |-> i + 1]
<1>3. f \in [DOMAIN t -> DOMAIN s] /\ \A i \in DOMAIN t : f[i] = i + 1
  BY <1>2
<1> HIDE DEF f
<1>4. \A i \in DOMAIN t : t[i] = s[f[i]]
  BY <1>1, <1>2, <1>3, Zenon
<1>5. \A i, j \in DOMAIN t : i < j => f[i] < f[j]
  BY <1>2, <1>3
<1>6. Part(t, s)
  BY <1>3, <1>4, <1>5, Zenon DEF Part
<1>7. ASSUME NEW i \in DOMAIN t PROVE t[i] # s[1]
  <2>1. t[i] = s[i + 1] /\ i + 1 \in DOMAIN s /\ 1 \in DOMAIN s /\ i + 1 # 1
    BY <1>1, <1>2
  <2> QED BY <2>1, Zenon DEF Distinct
<1> QED BY <1>6, <1>7, Zenon DEF t

\* and what a removed timer leaves.
LEMMA WithoutPart ==
    ASSUME NEW s, Distinct(s), NEW n \in DOMAIN s
    PROVE  Part(Without(s, n), s) /\ \A i \in DOMAIN Without(s, n) : Without(s, n)[i] # s[n]
<1> DEFINE t == Without(s, n)
<1>1. /\ Distinct(t) /\ Len(t) = Len(s) - 1
      /\ \A i \in 1 .. Len(s) - 1 : t[i] = IF i < n THEN s[i] ELSE s[i + 1]
      /\ \A i \in 1 .. Len(s) - 1 : t[i] # s[n]
  BY WithoutIs, Zenon
<1> HIDE DEF t
<1>2. DOMAIN t = 1 .. Len(s) - 1 /\ Len(s) \in Nat /\ DOMAIN s = 1 .. Len(s) /\ n \in 1 .. Len(s)
  <2>1. DOMAIN t = 1 .. Len(t)
    BY <1>1, DistinctIs, Zenon
  <2> QED BY <1>1, <2>1, DistinctIs
<1> DEFINE f == [i \in DOMAIN t |-> IF i < n THEN i ELSE i + 1]
<1>3. f \in [DOMAIN t -> DOMAIN s] /\ \A i \in DOMAIN t : f[i] = IF i < n THEN i ELSE i + 1
  BY <1>2
<1> HIDE DEF f
<1>4. \A i \in DOMAIN t : t[i] = s[f[i]]
  BY <1>1, <1>2, <1>3, Zenon
<1>5. \A i, j \in DOMAIN t : i < j => f[i] < f[j]
  BY <1>2, <1>3
<1>6. Part(t, s)
  BY <1>3, <1>4, <1>5, Zenon DEF Part
<1> QED BY <1>1, <1>2, <1>6, Zenon DEF t

\* Lists that share no timer share none after one of them shrinks.
LEMMA PartApart ==
    ASSUME NEW s, NEW t, NEW u, Part(t, s), Apart(s, u), Apart(u, s)
    PROVE  Apart(t, u) /\ Apart(u, t)
<1>1. PICK f \in [DOMAIN t -> DOMAIN s] : \A i \in DOMAIN t : t[i] = s[f[i]]
  BY Zenon DEF Part
<1>2. \A i \in DOMAIN t : f[i] \in DOMAIN s
  OBVIOUS
<1>3. ASSUME NEW i \in DOMAIN t, NEW j \in DOMAIN u PROVE t[i] # u[j] /\ u[j] # t[i]
  <2>1. f[i] \in DOMAIN s /\ t[i] = s[f[i]]
    BY <1>1, <1>2, Zenon
  <2>2. s[f[i]] # u[j]
    BY <2>1, Zenon DEF Apart
  <2> QED BY <2>1, <2>2, Zenon
<1> QED BY <1>3, Zenon DEF Apart

\* A manager's list becomes a part of what it was and the links of the rest stay.
LEMMA PartShape ==
    ASSUME NEW ts, NEW l, NEW fr, NEW ad, NEW op, Shape(l, fr, ad, op, ts), NEW m \in Managers,
           NEW t, Distinct(t), Part(t, ad[m]), NEW a \in Lists, a.fired = l.fired,
           NEW gr, gr \subseteq Nodes, NEW oq, Links(a, m, t, m \in oq),
           \A k \in Managers : k # m => Links(a, k, ad[k], k \in oq),
           \A i \in DOMAIN t : t[i] \notin gr,
           \A k \in Managers : k # m => \A i \in DOMAIN ad[k] : ad[k][i] \notin gr,
           \A n \in gr : a.next[n] = NoNode /\ a.prev[n] = NoNode
    PROVE  Shape(a, gr, [ad EXCEPT ![m] = t], oq, ts)
<1> DEFINE b == [ad EXCEPT ![m] = t]
<1>0. ad \in [Managers -> Seq(Nodes)] /\ t \in Seq(Nodes)
  BY Zenon DEF Shape, Distinct
<1>1. b \in [Managers -> Seq(Nodes)] /\ b[m] = t /\ \A k \in Managers : k # m => b[k] = ad[k]
  BY <1>0
<1> HIDE DEF b
<1>2. Good(a, gr, m, t, m \in oq, ts)
  <2>1. Good(l, fr, m, ad[m], m \in op, ts)
    BY Zenon DEF Shape
  <2> QED BY <2>1, PartGood, Zenon
<1>3. ASSUME NEW k \in Managers, k # m PROVE Good(a, gr, k, ad[k], k \in oq, ts)
  <2>1. Good(l, fr, k, ad[k], k \in op, ts) /\ Distinct(ad[k])
    BY Zenon DEF Shape, Good
  <2>2. Part(ad[k], ad[k])
    BY <2>1, SelfPart, Zenon
  <2>3. Links(a, k, ad[k], k \in oq) /\ \A i \in DOMAIN ad[k] : ad[k][i] \notin gr
    BY <1>3, Zenon
  <2> QED BY <2>1, <2>2, <2>3, PartGood, Zenon
<1>4. ASSUME NEW k \in Managers PROVE Good(a, gr, k, b[k], k \in oq, ts)
  BY <1>1, <1>2, <1>3, Zenon
<1>5. ASSUME NEW k \in Managers, k # m PROVE Apart(t, ad[k]) /\ Apart(ad[k], t)
  <2>1. Apart(ad[m], ad[k]) /\ Apart(ad[k], ad[m])
    BY <1>5, Zenon DEF Shape
  <2> QED BY <2>1, PartApart, Zenon
<1>6. ASSUME NEW k \in Managers, NEW j \in Managers, k # j PROVE Apart(b[k], b[j])
  <2>1. Apart(ad[k], ad[j])
    BY <1>6, Zenon DEF Shape
  <2> QED BY <1>1, <1>5, <1>6, <2>1, Zenon
<1> QED BY <1>1, <1>4, <1>6, Zenon DEF Shape, b

\* A node in neither list
Outside(n, ad) == \A k \in Managers : \A i \in DOMAIN ad[k] : ad[k][i] # n

\* HandleTimeout takes the head of the list out: the shape, with the list open.
LEMMA TakeShape ==
    ASSUME NEW ts, NEW l, NEW fr, NEW ad, NEW op, Shape(l, fr, ad, op, ts), NEW m \in Managers, m \in op,
           ad[m] # <<>>
    PROVE  /\ Shape([l EXCEPT !.head[m] = l.next[ad[m][1]]], fr, [ad EXCEPT ![m] = Tail(@)], op, ts)
           /\ ad[m][1] \in Nodes /\ ad[m][1] \notin fr
           /\ Outside(ad[m][1], [ad EXCEPT ![m] = Tail(@)])
<1> DEFINE s == ad[m]
           a == [l EXCEPT !.head[m] = l.next[s[1]]]
           b == [ad EXCEPT ![m] = Tail(@)]
<1>1. /\ l \in Lists /\ fr \subseteq Nodes /\ Distinct(s) /\ DOMAIN ad = Managers
      /\ Links(l, m, s, m \in op) /\ (m \in op) \in BOOLEAN
      /\ \A i \in DOMAIN s : s[i] \in Nodes /\ s[i] \notin fr
      /\ \A n \in fr : l.next[n] = NoNode /\ l.prev[n] = NoNode
  BY ShapeIs
<1>2. DOMAIN b = Managers /\ b[m] = Tail(s) /\ \A k \in Managers : k # m => b[k] = ad[k]
  BY <1>1, Zenon
<1>3. /\ a \in Lists /\ a.next = l.next /\ a.prev = l.prev /\ a.fired = l.fired
      /\ a.tail = l.tail /\ \A k \in Managers : k # m => a.head[k] = l.head[k]
      /\ Links(a, m, Tail(s), TRUE)
  BY <1>1, TakenLinks, Zenon
<1>4. b = [ad EXCEPT ![m] = Tail(s)]
  OBVIOUS
<1> HIDE DEF a, b
<1>5. 1 \in DOMAIN s
  BY <1>1, DistinctIs
<1>6. Part(Tail(s), s) /\ Distinct(Tail(s)) /\ \A i \in DOMAIN Tail(s) : Tail(s)[i] # s[1]
  BY <1>1, TailPart, TailIs, Zenon
<1>7. \A i \in DOMAIN Tail(s) : Tail(s)[i] \notin fr
  BY <1>1, <1>6 DEF Part
<1>8. (m \in op) = TRUE
  OBVIOUS
<1>9. ASSUME NEW k \in Managers, k # m
      PROVE  /\ Links(a, k, ad[k], k \in op) /\ \A i \in DOMAIN ad[k] : ad[k][i] \notin fr
             /\ Apart(s, ad[k])
  <2>1. /\ Links(l, k, ad[k], k \in op) /\ (k \in op) \in BOOLEAN /\ Apart(s, ad[k])
        /\ \A i \in DOMAIN ad[k] : ad[k][i] \notin fr
    BY <1>9, ShapeIs
  <2> QED BY <1>1, <1>3, <1>9, <2>1, SameLinks, Zenon
<1>10. Links(a, m, Tail(s), m \in op)
  BY <1>3, <1>8, Zenon
<1>11. \A n \in fr : a.next[n] = NoNode /\ a.prev[n] = NoNode
  BY <1>1, <1>3, Zenon
<1>12. Shape(a, fr, [ad EXCEPT ![m] = Tail(s)], op, ts)
  BY <1>1, <1>3, <1>6, <1>7, <1>9, <1>10, <1>11, PartShape, Zenon
<1>13. ASSUME NEW k \in Managers, NEW i \in DOMAIN b[k] PROVE b[k][i] # s[1]
  <2>1. CASE k = m
    BY <1>2, <1>6, <2>1, Zenon
  <2>2. CASE k # m
    <3>1. Apart(s, ad[k]) /\ b[k] = ad[k]
      BY <1>2, <1>9, <2>2, Zenon
    <3> QED BY <1>5, <3>1, Zenon DEF Apart
  <2> QED BY <2>1, <2>2
<1>14. Outside(s[1], b)
  BY <1>13, Zenon DEF Outside
<1> QED BY <1>1, <1>4, <1>5, <1>12, <1>14, Zenon DEF a, b

\* A node outside the lists is returned to the pool.
LEMMA ResetShape ==
    ASSUME NEW ts, NEW l, NEW fr, NEW ad, NEW op, Shape(l, fr, ad, op, ts), NEW n \in Nodes,
           Outside(n, ad)
    PROVE  Shape(Reset(l, n), fr \cup {n}, ad, op, ts)
<1> DEFINE a == Reset(l, n)
<1>1. /\ l \in Lists /\ fr \subseteq Nodes /\ ad \in [Managers -> Seq(Nodes)]
      /\ \A x \in fr : l.next[x] = NoNode /\ l.prev[x] = NoNode
      /\ \A k, j \in Managers : k # j => Apart(ad[k], ad[j])
      /\ \A k \in Managers : Good(l, fr, k, ad[k], k \in op, ts)
  BY Zenon DEF Shape
<1>2. /\ a \in Lists /\ a.fired = l.fired /\ a.head = l.head /\ a.tail = l.tail
      /\ \A x \in Nodes : /\ a.next[x] = IF x = n THEN NoNode ELSE l.next[x]
                          /\ a.prev[x] = IF x = n THEN NoNode ELSE l.prev[x]
  BY <1>1, ResetIs, Zenon
<1>3. \A x \in fr \cup {n} : a.next[x] = NoNode /\ a.prev[x] = NoNode
  <2> HIDE DEF a
  <2> QED BY <1>1, <1>2, Zenon
<1>4. ASSUME NEW k \in Managers PROVE Good(a, fr \cup {n}, k, ad[k], k \in op, ts)
  <2>1. /\ Good(l, fr, k, ad[k], k \in op, ts) /\ Distinct(ad[k]) /\ Links(l, k, ad[k], k \in op)
        /\ \A i \in DOMAIN ad[k] : ad[k][i] \notin fr
    BY <1>1, Zenon DEF Good
  <2>2. Links(a, k, ad[k], k \in op)
    <3>1. (k \in op) \in BOOLEAN
      OBVIOUS
    <3>2. \A i \in DOMAIN ad[k] : ad[k][i] # n
      BY Zenon DEF Outside
    <3> QED BY <1>1, <2>1, <3>1, <3>2, ResetLeaves, ZenonT(40)
  <2>3. Part(ad[k], ad[k]) /\ \A i \in DOMAIN ad[k] : ad[k][i] \notin fr \cup {n}
    BY <2>1, SelfPart, Zenon DEF Outside
  <2> HIDE DEF a
  <2> QED BY <1>2, <2>1, <2>2, <2>3, PartGood, Zenon
<1>5. fr \cup {n} \subseteq Nodes
  BY <1>1, Zenon
<1> QED BY <1>1, <1>2, <1>3, <1>4, <1>5, Zenon DEF Shape

\* RemoveTimer keeps the shape.
LEMMA RemoveShape ==
    ASSUME ConstantsOK, NEW ts, NEW l, NEW fr, NEW ad, NEW op, Shape(l, fr, ad, op, ts),
           NEW m \in Managers,
           m \notin op, NEW i \in DOMAIN ad[m]
    PROVE  Shape(Reset(Unlink(l, m, ad[m][i]), ad[m][i]), fr \cup {ad[m][i]},
                 [ad EXCEPT ![m] = Without(@, i)], op, ts)
<1> DEFINE s == ad[m]
           n == s[i]
           a == Reset(Unlink(l, m, s[i]), s[i])
           gr == fr \cup {n}
<1>1. /\ l \in Lists /\ fr \subseteq Nodes /\ Distinct(s) /\ DOMAIN ad = Managers
      /\ Links(l, m, s, m \in op)
      /\ \A j \in DOMAIN s : s[j] \in Nodes /\ s[j] \notin fr
      /\ \A x \in fr : l.next[x] = NoNode /\ l.prev[x] = NoNode
  BY ShapeIs
<1>2. (m \in op) = FALSE
  OBVIOUS
<1>3. /\ a \in Lists /\ a.fired = l.fired /\ a.next[n] = NoNode /\ a.prev[n] = NoNode
      /\ Links(a, m, Without(s, i), FALSE)
      /\ \A x \in Nodes : (\A j \in DOMAIN s : s[j] # x) =>
            a.next[x] = l.next[x] /\ a.prev[x] = l.prev[x]
      /\ \A k \in Managers : k # m => a.head[k] = l.head[k] /\ a.tail[k] = l.tail[k]
  <2>1. Links(l, m, s, FALSE)
    BY <1>1, <1>2, Zenon
  <2>2. Removed(a, l, m, s, i)
    BY <1>1, <2>1, RemoveLinks, Zenon
  <2> HIDE DEF a
  <2> QED BY <2>2, Zenon DEF Removed
<1> HIDE DEF a
<1>4. /\ Part(Without(s, i), s) /\ Distinct(Without(s, i))
      /\ \A j \in DOMAIN Without(s, i) : Without(s, i)[j] # n
  BY <1>1, WithoutPart, WithoutIs, Zenon
<1>5. \A j \in DOMAIN Without(s, i) : Without(s, i)[j] \notin fr
  BY <1>1, <1>4 DEF Part
<1>6. ASSUME NEW k \in Managers, k # m
      PROVE  /\ Links(a, k, ad[k], k \in op) /\ \A j \in DOMAIN ad[k] : ad[k][j] \notin gr
  <2>1. /\ Links(l, k, ad[k], k \in op) /\ (k \in op) \in BOOLEAN /\ Apart(s, ad[k])
        /\ \A j \in DOMAIN ad[k] : ad[k][j] \in Nodes /\ ad[k][j] \notin fr
    BY <1>6, ShapeIs
  <2>2. \A j \in DOMAIN ad[k] : \A p \in DOMAIN s : s[p] # ad[k][j]
    BY <2>1, Zenon DEF Apart
  <2>3. \A j \in DOMAIN ad[k] : a.next[ad[k][j]] = l.next[ad[k][j]] /\ a.prev[ad[k][j]] = l.prev[ad[k][j]]
    BY <1>3, <2>1, <2>2, Zenon
  <2>4. Links(a, k, ad[k], k \in op)
    BY <1>1, <1>3, <1>6, <2>1, <2>3, SameLinks, ZenonT(40)
  <2> QED BY <2>1, <2>2, <2>4, Zenon
<1>7. \A x \in gr : a.next[x] = NoNode /\ a.prev[x] = NoNode
  <2>1. ASSUME NEW x \in fr PROVE a.next[x] = NoNode /\ a.prev[x] = NoNode
    <3>1. x \in Nodes /\ \A j \in DOMAIN s : s[j] # x
      BY <1>1, Zenon
    <3> QED BY <1>1, <1>3, <3>1, Zenon
  <2> QED BY <1>3, <2>1, Zenon
<1>8. gr \subseteq Nodes /\ \A j \in DOMAIN Without(s, i) : Without(s, i)[j] \notin gr
  BY <1>1, <1>4, <1>5, Zenon
<1>9. Links(a, m, Without(s, i), m \in op)
  BY <1>2, <1>3, Zenon
<1>10. Shape(a, gr, [ad EXCEPT ![m] = Without(s, i)], op, ts)
  <2> HIDE DEF gr
  <2> QED BY <1>3, <1>4, <1>6, <1>7, <1>8, <1>9, PartShape, Zenon
<1> QED BY <1>10, Zenon DEF a

\* HandleTimeout ends: the list is closed.
LEMMA CloseShape ==
    ASSUME ConstantsOK, NEW ts, NEW l, NEW fr, NEW ad, NEW m \in Managers, Shape(l, fr, ad, {m}, ts)
    PROVE  Shape(IF l.head[m] = NoNode THEN [l EXCEPT !.tail[m] = NoNode]
                 ELSE [l EXCEPT !.prev[l.head[m]] = NoNode], fr, ad, {}, ts)
<1> DEFINE s == ad[m]
           a == IF l.head[m] = NoNode THEN [l EXCEPT !.tail[m] = NoNode]
                ELSE [l EXCEPT !.prev[l.head[m]] = NoNode]
<1>1. /\ l \in Lists /\ fr \subseteq Nodes /\ Distinct(s) /\ DOMAIN ad = Managers
      /\ Links(l, m, s, m \in {m})
      /\ \A j \in DOMAIN s : s[j] \in Nodes /\ s[j] \notin fr
      /\ \A x \in fr : l.next[x] = NoNode /\ l.prev[x] = NoNode
  BY ShapeIs
<1>2. (m \in {m}) = TRUE /\ (m \in {}) = FALSE
  OBVIOUS
<1>3. /\ l.next \in [Nodes -> Nodes \cup {NoNode}] /\ l.prev \in [Nodes -> Nodes \cup {NoNode}]
      /\ l.head \in [Managers -> Nodes \cup {NoNode}] /\ l.tail \in [Managers -> Nodes \cup {NoNode}]
  BY <1>1 DEF Lists
<1>4. /\ l.head[m] = IF s = <<>> THEN NoNode ELSE s[1]
      /\ s # <<>> => l.tail[m] = s[Len(s)]
      /\ \A i \in DOMAIN s :
            /\ l.next[s[i]] = IF i = Len(s) THEN NoNode ELSE s[i + 1]
            /\ i > 1 => l.prev[s[i]] = s[i - 1]
  BY <1>1, Zenon DEF Links
<1>5. (s # <<>> => 1 \in DOMAIN s) /\ (s = <<>> => DOMAIN s = {})
  BY <1>1, DistinctIs
<1>6. (s = <<>> <=> l.head[m] = NoNode) /\ (s # <<>> => s[1] \in Nodes /\ s[1] # NoNode)
  BY <1>1, <1>4, <1>5, Zenon DEF ConstantsOK
<1>7. /\ a \in Lists /\ a.next = l.next /\ a.fired = l.fired /\ a.head = l.head
      /\ a.prev = IF s = <<>> THEN l.prev ELSE [l.prev EXCEPT ![s[1]] = NoNode]
      /\ a.tail = IF s = <<>> THEN [l.tail EXCEPT ![m] = NoNode] ELSE l.tail
  <2>1. CASE s = <<>>
    <3>1. a = [l EXCEPT !.tail[m] = NoNode]
      BY <1>6, <2>1, Zenon
    <3> HIDE DEF a
    <3> QED BY <1>1, <1>3, <2>1, <3>1, ZenonT(40) DEF Lists
  <2>2. CASE s # <<>>
    <3>1. a = [l EXCEPT !.prev[s[1]] = NoNode]
      BY <1>4, <1>6, <2>2, Zenon
    <3> HIDE DEF a
    <3> QED BY <1>1, <1>3, <1>6, <2>2, <3>1, ZenonT(40) DEF Lists
  <2> QED BY <2>1, <2>2, Zenon
<1> HIDE DEF a
<1>8. Links(a, m, s, m \in {})
  <2>1. ASSUME NEW i \in DOMAIN s
        PROVE  /\ a.next[s[i]] = IF i = Len(s) THEN NoNode ELSE s[i + 1]
               /\ i > 1 => a.prev[s[i]] = s[i - 1]
               /\ i = 1 => a.prev[s[i]] = NoNode
    <3>1. s # <<>> /\ a.prev = [l.prev EXCEPT ![s[1]] = NoNode] /\ s[i] \in Nodes /\ i \in Nat
      BY <1>1, <1>5, <1>7, DistinctIs
    <3>2. i > 1 => s[i] # s[1]
      BY <1>5, <3>1, <1>1 DEF Distinct
    <3> QED BY <1>3, <1>4, <1>7, <3>1, <3>2, SMTT(30)
  <2>2. /\ a.head[m] = IF s = <<>> THEN NoNode ELSE s[1]
        /\ s # <<>> => a.tail[m] = s[Len(s)]
        /\ s = <<>> => a.tail[m] = NoNode
    BY <1>3, <1>4, <1>7
  <2> QED BY <2>1, <2>2, Zenon DEF Links
<1>9. ASSUME NEW k \in Managers, k # m
      PROVE  Links(a, k, ad[k], k \in {}) /\ \A i \in DOMAIN ad[k] : ad[k][i] \notin fr
  <2>1. /\ Links(l, k, ad[k], k \in {m}) /\ Apart(s, ad[k])
        /\ \A j \in DOMAIN ad[k] : ad[k][j] \in Nodes /\ ad[k][j] \notin fr
    BY <1>9, ShapeIs
  <2>2. (k \in {m}) = FALSE /\ (k \in {}) = FALSE
    BY <1>9
  <2>3. s # <<>> => \A j \in DOMAIN ad[k] : ad[k][j] # s[1]
    BY <1>5, <2>1, Zenon DEF Apart
  <2>4. \A j \in DOMAIN ad[k] : a.next[ad[k][j]] = l.next[ad[k][j]] /\ a.prev[ad[k][j]] = l.prev[ad[k][j]]
    BY <1>3, <1>7, <2>1, <2>3
  <2>5. a.head[k] = l.head[k] /\ a.tail[k] = l.tail[k]
    BY <1>3, <1>7, <1>9
  <2>6. Links(l, k, ad[k], FALSE)
    BY <2>1, <2>2, Zenon
  <2>7. Links(a, k, ad[k], FALSE)
    BY <1>1, <1>7, <2>4, <2>5, <2>6, SameLinks, ZenonT(40)
  <2> QED BY <2>1, <2>2, <2>7, Zenon
<1>10. \A n \in fr : a.next[n] = NoNode /\ a.prev[n] = NoNode
  <2>1. ASSUME NEW n \in fr PROVE a.next[n] = NoNode /\ a.prev[n] = NoNode
    <3>1. n \in Nodes /\ l.next[n] = NoNode /\ l.prev[n] = NoNode /\ (s # <<>> => n # s[1])
      BY <1>1, <1>5, Zenon
    <3> QED BY <1>3, <1>7, <3>1
  <2> QED BY <2>1, Zenon
<1>11. Part(s, s)
  BY <1>1, SelfPart, Zenon
<1>12. Shape(a, fr, [ad EXCEPT ![m] = s], {}, ts)
  BY <1>1, <1>7, <1>8, <1>9, <1>10, <1>11, PartShape, Zenon
<1>13. [ad EXCEPT ![m] = s] = ad
  <2>1. ad \in [Managers -> Seq(Nodes)]
    BY Zenon DEF Shape
  <2> QED BY <2>1
<1> QED BY <1>12, <1>13, Zenon DEF a

\* HandleTimeout starts: the list counts as open.
LEMMA OpenShape ==
    ASSUME NEW ts, NEW l, NEW fr, NEW ad, NEW m \in Managers, Shape(l, fr, ad, {}, ts)
    PROVE  Shape(l, fr, ad, {m}, ts)
<1>1. ASSUME NEW k \in Managers PROVE Good(l, fr, k, ad[k], k \in {m}, ts)
  <2>1. Good(l, fr, k, ad[k], k \in {}, ts)
    BY Zenon DEF Shape
  <2>2. (k \in {}) = FALSE
    OBVIOUS
  <2>3. Links(l, k, ad[k], FALSE)
    BY <2>1, <2>2, Zenon DEF Good
  <2>4. Links(l, k, ad[k], k \in {m})
    BY <2>3, Zenon DEF Links
  <2> QED BY <2>1, <2>4, Zenon DEF Good
<1> QED BY <1>1, Zenon DEF Shape

\* Time passes.
LEMMA TimeShape ==
    ASSUME ConstantsOK, NEW ts \in Nat, NEW tt \in Nat, ts <= tt, NEW l, NEW fr, NEW ad, NEW op,
           Shape(l, fr, ad, op, ts)
    PROVE  Shape(l, fr, ad, op, tt)
<1>1. ASSUME NEW k \in Managers PROVE Good(l, fr, k, ad[k], k \in op, tt)
  <2>1. Good(l, fr, k, ad[k], k \in op, ts) /\ l \in Lists
    BY Zenon DEF Shape
  <2>2. ASSUME NEW i \in DOMAIN ad[k] PROVE l.fired[ad[k][i]] <= tt + Timeout[k]
    <3>1. l.fired[ad[k][i]] <= ts + Timeout[k] /\ ad[k][i] \in Nodes
      BY <2>1, DistinctIs, Zenon DEF Good
    <3>2. l.fired[ad[k][i]] \in Nat /\ Timeout[k] \in Nat
      BY <2>1, <3>1 DEF Lists, ConstantsOK
    <3> QED BY <3>1, <3>2
  <2> QED BY <2>1, <2>2, Zenon DEF Good
<1> QED BY <1>1, Zenon DEF Shape

\* The managers whose HandleTimeout runs
Open(m) == \E h \in handling : h.mgr = m

Busy == {m \in Managers : Open(m)}

\* One call runs at a time.
OneCall == /\ \A h, k \in handling : h = k
           /\ handling # {} => clearing = {}

\* The inductive invariant of the timers
Books ==
    /\ Shape(list, free, added, Busy, now) /\ now \in Nat
    /\ handling \subseteq [mgr : Managers, now : Nat] /\ clearing \subseteq Managers
    /\ OneCall

\* Without a HandleTimeout under way no list is open.
LEMMA IdleBusy ==
    /\ handling = {} => Busy = {}
    /\ handling' = {} => Busy' = {}
  BY Zenon DEF Busy, Open

\* One HandleTimeout runs at a time, and only its list is open.
LEMMA OneBusy ==
    ASSUME Books, NEW h \in handling
    PROVE  handling = {h} /\ h.mgr \in Managers /\ h.now \in Nat /\ Busy = {h.mgr}
<1>1. handling = {h}
  BY Zenon DEF Books, OneCall
<1>2. h \in [mgr : Managers, now : Nat]
  BY Zenon DEF Books
<1>3. h.mgr \in Managers /\ h.now \in Nat
  BY <1>2
<1>4. \A m \in Managers : Open(m) <=> m = h.mgr
  BY <1>1, Zenon DEF Open
<1> QED BY <1>1, <1>3, <1>4, Zenon DEF Busy

\* Freshly constructed managers are in order.
LEMMA TimersInit ==
    ASSUME ConstantsOK, Init PROVE Books
<1>1. Busy = {} /\ OneCall /\ now \in Nat
  BY Zenon DEF Init, Busy, Open, OneCall
<1>1a. now \in Nat
  BY DEF Init
<1>2. /\ list \in Lists /\ free \subseteq Nodes /\ added \in [Managers -> Seq(Nodes)]
      /\ \A n \in free : list.next[n] = NoNode /\ list.prev[n] = NoNode
      /\ \A m \in Managers : added[m] = <<>> /\ list.head[m] = NoNode /\ list.tail[m] = NoNode
  BY DEF Init, Lists
<1>3. <<>> \in Seq(Nodes) /\ DOMAIN <<>> = {}
  OBVIOUS
<1>4. ASSUME NEW m \in Managers PROVE Good(list, free, m, added[m], m \in {}, now)
  BY <1>2, <1>3, Zenon DEF Good, Links, Distinct
<1>5. ASSUME NEW m \in Managers, NEW k \in Managers PROVE Apart(added[m], added[k])
  BY <1>2, <1>3, Zenon DEF Apart
<1>6. Shape(list, free, added, {}, now)
  BY <1>2, <1>4, <1>5, Zenon DEF Shape
<1> QED BY <1>1, <1>1a, <1>6, Zenon DEF Books, Init

\* Every step of AddTimer, RemoveTimer, HandleTimeout and ClearAndGetUserArg leaves them
\* in order.
LEMMA TimersStep ==
    ASSUME ConstantsOK, Books, Next PROVE Books'
<1> USE DEF Books
<1>1. ASSUME NEW m \in Managers, NEW n \in Nodes, AddTimer(m, n) PROVE Books'
  <2>1. Busy = {} /\ Busy' = {} /\ handling' = handling /\ clearing' = clearing /\ now' = now
    BY <1>1, IdleBusy, Zenon DEF AddTimer, Idle
  <2>2. Shape(list', free', added', {}, now)
    <3>1. Shape(list, free, added, {}, now) /\ m \notin {} /\ n \in free
      BY <1>1, <2>1, Zenon DEF AddTimer
    <3>2. /\ list' = Add(list, m, n) /\ free' = free \ {n}
          /\ added' = [added EXCEPT ![m] = Append(@, n)]
      BY <1>1, Zenon DEF AddTimer
    <3> QED BY <3>1, <3>2, AddShape, Zenon
  <2> QED BY <2>1, <2>2, Zenon DEF OneCall
<1>2. ASSUME NEW m \in Managers, NEW i \in DOMAIN added[m], handling = {}, Remove(m, i),
             UNCHANGED <<now, handling, clearing>>
      PROVE  Books'
  <2>1. Busy = {} /\ Busy' = {} /\ handling' = handling /\ clearing' = clearing /\ now' = now
    BY <1>2, IdleBusy, Zenon
  <2>2. Shape(list', free', added', {}, now)
    <3>1. Shape(list, free, added, {}, now) /\ m \notin {}
      BY <2>1, Zenon
    <3>2. /\ list' = Reset(Unlink(list, m, added[m][i]), added[m][i])
          /\ free' = free \cup {added[m][i]}
          /\ added' = [added EXCEPT ![m] = Without(@, i)]
      BY <1>2, Zenon DEF Remove
    <3> QED BY <3>1, <3>2, RemoveShape, Zenon
  <2> QED BY <2>1, <2>2, Zenon DEF OneCall
<1>3. ASSUME NEW m \in Managers, NEW i \in DOMAIN added[m], RemoveTimer(m, i) PROVE Books'
  BY <1>2, <1>3, Zenon DEF RemoveTimer, Idle
<1>4. ASSUME NEW m \in Managers, ClearHead(m) PROVE Books'
  <2>1. handling = {}
    BY <1>4, Zenon DEF ClearHead, OneCall
  <2> QED BY <1>2, <1>4, <2>1, Zenon DEF ClearHead
<1>5. ASSUME NEW m \in Managers, HandleStart(m) PROVE Books'
  <2>1. /\ list' = list /\ free' = free /\ now' = now /\ clearing' = clearing /\ added' = added
        /\ handling' = {[mgr |-> m, now |-> now]} /\ clearing = {} /\ Busy = {}
    BY <1>5, IdleBusy, Zenon DEF HandleStart, Idle
  <2>2. handling' \subseteq [mgr : Managers, now : Nat] /\ [mgr |-> m, now |-> now].mgr = m
    BY <2>1
  <2>3. \A k \in Managers : Open(k)' <=> k = m
    BY <2>1, <2>2, Zenon DEF Open
  <2>4. Busy' = {m}
    BY <2>3, Zenon DEF Busy
  <2>5. Shape(list', free', added', {m}, now)
    BY <2>1, OpenShape, Zenon
  <2>6. OneCall'
    BY <2>1, Zenon DEF OneCall
  <2> QED BY <2>1, <2>2, <2>4, <2>5, <2>6, Zenon
<1>6. ASSUME NEW h \in handling, HandleFire(h) PROVE Books'
  <2> DEFINE m == h.mgr
             old == list.head[m]
             taken == [list EXCEPT !.head[m] = list.next[old]]
             fired == [added EXCEPT ![m] = Tail(@)]
  <2>1. handling' = handling /\ clearing' = clearing /\ now' = now
    BY <1>6, Zenon DEF HandleFire
  <2>2. Busy = {m} /\ Busy' = {m} /\ m \in Managers
    <3>1. Busy = {m} /\ m \in Managers
      BY OneBusy, Zenon
    <3>2. Busy' = Busy
      BY <2>1, Zenon DEF Busy, Open
    <3> QED BY <3>1, <3>2, Zenon
  <2>3. old # NoNode
    BY <1>6, Zenon DEF HandleFire, Due
  <2>4. Shape(list, free, added, {m}, now)
    BY <2>2, Zenon
  <2>5. added[m] # <<>> /\ old = added[m][1]
    <3>1. Links(list, m, added[m], m \in {m})
      BY <2>2, <2>4, ShapeIs
    <3> QED BY <2>3, <3>1, Zenon DEF Links
  <2>6. /\ Shape(taken, free, fired, {m}, now) /\ old \in Nodes /\ old \notin free
        /\ Outside(old, fired)
    <3>1. taken = [list EXCEPT !.head[m] = list.next[added[m][1]]]
      BY <2>5, Zenon
    <3>2. m \in {m}
      OBVIOUS
    <3> HIDE DEF m, taken, old
    <3>3. /\ Shape([list EXCEPT !.head[m] = list.next[added[m][1]]], free, fired, {m}, now)
          /\ added[m][1] \in Nodes /\ added[m][1] \notin free
          /\ Outside(added[m][1], fired)
      BY <2>2, <2>4, <2>5, <3>2, TakeShape, Zenon
    <3> HIDE DEF fired
    <3> QED BY <2>5, <3>1, <3>3, Zenon
  <2>7. \/ /\ m = "req"
           /\ \E n \in free : /\ list' = Reset(Add(taken, "mem", n), old)
                              /\ free' = (free \ {n}) \cup {old}
                              /\ added' = [fired EXCEPT !["mem"] = Append(@, n)]
        \/ m = "mem" /\ list' = Reset(taken, old) /\ free' = free \cup {old} /\ added' = fired
    BY <1>6, Zenon DEF HandleFire
  <2> HIDE DEF taken, fired, old, m
  <2>8. CASE m = "mem" /\ list' = Reset(taken, old) /\ free' = free \cup {old} /\ added' = fired
    BY <2>6, <2>8, ResetShape, <2>1, <2>2, Zenon DEF OneCall
  <2>9. ASSUME m = "req", NEW n \in free, list' = Reset(Add(taken, "mem", n), old),
               free' = (free \ {n}) \cup {old}, added' = [fired EXCEPT !["mem"] = Append(@, n)]
        PROVE  Books'
    <3>1. "mem" \in Managers /\ "mem" \notin {m}
      BY <2>9 DEF Managers
    <3> DEFINE a == Add(taken, "mem", n)
               b == [fired EXCEPT !["mem"] = Append(@, n)]
    <3>2. Shape(a, free \ {n}, b, {m}, now)
      BY <2>6, <3>1, AddShape, Zenon
    <3>3. Outside(old, b)
      <4>1. /\ fired \in [Managers -> Seq(Nodes)] /\ n # old
            /\ \A i \in DOMAIN fired["mem"] : fired["mem"][i] # old
        <5>1. fired \in [Managers -> Seq(Nodes)]
          BY <2>6, Zenon DEF Shape
        <5> QED BY <2>6, <3>1, <5>1, Zenon DEF Outside
      <4>2. fired["mem"] \in Seq(Nodes)
        BY <3>1, <4>1
      <4>3. b["mem"] = Append(fired["mem"], n) /\ \A k \in Managers : k # "mem" => b[k] = fired[k]
        BY <3>1, <4>1
      <4>4. \A i \in DOMAIN Append(fired["mem"], n) : Append(fired["mem"], n)[i] # old
        BY <4>1, <4>2
      <4> QED BY <2>6, <4>3, <4>4, Zenon DEF Outside
    <3> HIDE DEF a, b
    <3>4. Shape(Reset(a, old), (free \ {n}) \cup {old}, b, {m}, now)
      BY <2>6, <3>2, <3>3, ResetShape, Zenon
    <3>5. Shape(list', free', added', {m}, now)
      BY <2>9, <3>4, Zenon DEF a, b
    <3> QED BY <2>1, <2>2, <3>5, Zenon DEF OneCall
  <2> QED BY <2>7, <2>8, <2>9, Zenon
<1>7. ASSUME NEW h \in handling, HandleEnds(h) PROVE Books'
  <2> DEFINE m == h.mgr
  <2>1. /\ handling' = {} /\ free' = free /\ clearing' = clearing /\ now' = now /\ added' = added
        /\ list' = IF list.head[m] = NoNode THEN [list EXCEPT !.tail[m] = NoNode]
                   ELSE [list EXCEPT !.prev[list.head[m]] = NoNode]
    BY <1>7, Zenon DEF HandleEnds
  <2>2. Busy = {m} /\ Busy' = {} /\ m \in Managers
    BY <2>1, OneBusy, IdleBusy, Zenon
  <2>3. Shape(list, free, added, {m}, now)
    BY <2>2, Zenon
  <2> HIDE DEF m
  <2>4. Shape(list', free', added', {}, now)
    BY <2>1, <2>2, <2>3, CloseShape, Zenon
  <2> QED BY <2>1, <2>2, <2>4, Zenon DEF OneCall
<1>8. ASSUME NEW m \in Managers, ClearStart(m) \/ ClearEnds(m) PROVE Books'
  <2>1. /\ list' = list /\ free' = free /\ now' = now /\ handling' = handling /\ added' = added
        /\ clearing' \subseteq {m} /\ (handling # {} => clearing' = {})
    BY <1>8, Zenon DEF ClearStart, ClearEnds, Idle
  <2>2. Busy' = Busy
    BY <2>1, Zenon DEF Busy, Open
  <2> QED BY <2>1, <2>2, Zenon DEF OneCall
<1>9. ASSUME Tick PROVE Books'
  <2>1. /\ list' = list /\ free' = free /\ clearing' = clearing /\ handling' = handling
        /\ added' = added /\ now' = now + 1
    BY <1>9, Zenon DEF Tick
  <2>2. now' \in Nat /\ now <= now'
    BY <2>1
  <2>3. Busy' = Busy
    BY <2>1, Zenon DEF Busy, Open
  <2>4. Shape(list, free, added, Busy, now')
    BY <2>2, TimeShape, Zenon
  <2> QED BY <2>1, <2>2, <2>3, <2>4, Zenon DEF OneCall
<1> QED BY <1>1, <1>3, <1>4, <1>5, <1>6, <1>7, <1>8, <1>9, Zenon DEF Next

\* The books give the lists and, when HandleTimeout ends, that every due timer was fired.
LEMMA BooksList ==
    ASSUME Books PROVE TimerLists
<1>1. SUFFICES ASSUME handling = {}
               PROVE  /\ \A m \in Managers : Links(list, m, added[m], FALSE)
                      /\ \A n \in free : list.next[n] = NoNode /\ list.prev[n] = NoNode
  BY Zenon DEF TimerLists
<1>2. Shape(list, free, added, {}, now)
  BY <1>1, IdleBusy, Zenon DEF Books
<1>3. \A m \in Managers : (m \in {}) = FALSE
  OBVIOUS
<1> QED BY <1>2, <1>3, Zenon DEF Shape, Good

\* When HandleTimeout ends, every timer left is still to expire.
LEMMA BooksFire ==
    ASSUME ConstantsOK, Books PROVE DueTimersFire
<1> SUFFICES ASSUME NEW h \in handling, HandleEnds(h), NEW n \in Range(added'[h.mgr])
             PROVE  list.fired[n] > h.now
  BY Zenon DEF DueTimersFire
<1> DEFINE m == h.mgr
           s == added[m]
<1>1. m \in Managers /\ h.now \in Nat
  BY OneBusy, Zenon
<1>2. added' = added /\ ~Due(h)
  BY Zenon DEF HandleEnds
<1>3. PICK i \in DOMAIN s : n = s[i]
  BY <1>2, Zenon DEF Range
<1>4. Good(list, free, m, s, m \in Busy, now) /\ list \in Lists
  BY <1>1, Zenon DEF Books, Shape
<1>5. Distinct(s) /\ Links(list, m, s, m \in Busy)
      /\ \A j, k \in DOMAIN s : j < k => list.fired[s[j]] <= list.fired[s[k]]
  BY <1>4, Zenon DEF Good
<1>6. 1 \in DOMAIN s /\ s # <<>> /\ (i = 1 \/ 1 < i)
  BY <1>3, <1>5, DistinctIs
<1>7. list.head[m] = s[1] /\ s[1] \in Nodes /\ s[i] \in Nodes
  BY <1>5, <1>6, DistinctIs, Zenon DEF Links
<1>8. ~(h.now >= list.fired[s[1]])
  BY <1>2, <1>7, Zenon DEF Due, ConstantsOK
<1>9. list.fired[s[1]] \in Nat /\ list.fired[s[i]] \in Nat
  BY <1>4, <1>7 DEF Lists
<1>10. list.fired[s[1]] <= list.fired[s[i]]
  <2>1. CASE i = 1
    BY <1>9, <2>1
  <2>2. CASE 1 < i
    BY <1>5, <1>6, <2>2, Zenon
  <2> QED BY <1>6, <2>1, <2>2
<1> HIDE DEF s, m
<1> QED BY <1>1, <1>3, <1>8, <1>9, <1>10

\* Two managers of timer_manager.cc on one pool, for any number of nodes, any timeouts and
\* however long the clock runs: between two calls the links of each list, both ways, are the
\* timers added and neither removed nor fired, in order, and pooled nodes have no links;
\* and when HandleTimeout ends, no timer that was due when it started is left.
THEOREM TimersStayExact ==
    ASSUME ConstantsOK PROVE Spec => [](TypeOK /\ TimerLists) /\ TimersExact
<1>1. Init => Books
  BY TimersInit
<1>2. Books /\ [Next]_vars => Books'
  <2>1. CASE Next
    BY <2>1, TimersStep
  <2>2. CASE UNCHANGED vars
    <3>1. Busy' = Busy
      BY <2>2, Zenon DEF vars, Busy, Open
    <3> QED BY <2>2, <3>1, Zenon DEF vars, Books, OneCall
  <2> QED BY <2>1, <2>2
<1>3. Books => TypeOK /\ TimerLists
  BY BooksList, Zenon DEF Books, Shape, TypeOK
<1>4. Books' => TimerLists'
  BY <1>3, PTL
<1>5. Books /\ [Next]_vars => [TimerLists' /\ DueTimersFire]_vars
  BY <1>2, <1>4, BooksFire, Zenon
<1> QED BY <1>1, <1>2, <1>3, <1>5, PTL DEF Spec, TimersExact

(***************************************************************************)
(* UdsListener: messages arrive whole                                       *)
(***************************************************************************)
CONSTANTS Clients, Text, Ending, ExpectedMsgLen

VARIABLES l_phase, l_thread, l_events, l_reading, l_buf, l_woken, l_conn, l_gone, l_sent,
          l_taken, l_handled, l_replied

\* The listener; constants and their assumption by their own names
Listener == INSTANCE UdsListener WITH
    phase <- l_phase, thread <- l_thread, events <- l_events, reading <- l_reading,
    buf <- l_buf, woken <- l_woken, conn <- l_conn, gone <- l_gone, sent <- l_sent,
    taken <- l_taken, handled <- l_handled, replied <- l_replied

ListenerInvariant == Listener!TypeOK /\ Listener!ReadsInOrder /\ Listener!MessagesIntact

\* What a client writes: bytes, the message first.
LEMMA WireIs ==
    ASSUME Listener!ConstantsOK, NEW c \in Clients
    PROVE  /\ Text[c] \in Seq(Nat) /\ Ending \in Seq(Nat) /\ Len(Text[c]) = ExpectedMsgLen
           /\ ExpectedMsgLen \in Nat /\ Len(Ending) \in Nat
           /\ Listener!Wire(c) \in Seq(Nat)
           /\ Len(Listener!Wire(c)) = ExpectedMsgLen + Len(Ending)
           /\ \A i \in 1 .. ExpectedMsgLen : Listener!Wire(c)[i] = Text[c][i]
<1>1. /\ Text[c] \in Seq(Nat) /\ Ending \in Seq(Nat) /\ Len(Text[c]) = ExpectedMsgLen
      /\ ExpectedMsgLen \in Nat /\ Len(Ending) \in Nat
  BY DEF Listener!ConstantsOK
<1> DEFINE t == Text[c]
           w == t \o Ending
<1>2. Listener!Wire(c) = w
  BY DEF Listener!Wire
<1>3. /\ w \in Seq(Nat) /\ Len(w) = Len(t) + Len(Ending)
      /\ \A i \in 1 .. Len(t) + Len(Ending) :
            w[i] = IF i <= Len(t) THEN t[i] ELSE Ending[i - Len(t)]
  BY <1>1, ConcatProperties, Zenon
<1> HIDE DEF w, t
<1>4. t = Text[c]
  BY DEF t
<1>5. ASSUME NEW i \in 1 .. ExpectedMsgLen PROVE w[i] = t[i]
  <2>1. i \in 1 .. Len(t) + Len(Ending) /\ i <= Len(t)
    BY <1>1, <1>4
  <2> QED BY <1>3, <2>1, Zenon
<1> QED BY <1>1, <1>2, <1>3, <1>4, <1>5

\* The bytes read first, as many as a message has, are the message.
LEMMA MessageFirst ==
    ASSUME Listener!ConstantsOK, NEW c \in Clients, NEW n \in Nat, n <= Len(Listener!Wire(c)),
           ExpectedMsgLen <= n
    PROVE  SubSeq(SubSeq(Listener!Wire(c), 1, n), 1, ExpectedMsgLen) = Text[c]
<1> DEFINE w == Listener!Wire(c)
           b == SubSeq(w, 1, n)
           m == SubSeq(b, 1, ExpectedMsgLen)
<1>1. w \in Seq(Nat) /\ \A i \in 1 .. n : w[i] \in Nat
  BY WireIs
<1>2. b \in Seq(Nat) /\ Len(b) = n /\ \A i \in 1 .. n : b[i] = w[i]
  BY <1>1, SubSeqProperties
<1>3. m \in Seq(Nat) /\ Len(m) = ExpectedMsgLen /\ \A i \in 1 .. ExpectedMsgLen : m[i] = w[i]
  BY <1>2, WireIs, SubSeqProperties
<1> HIDE DEF m
<1> QED BY <1>3, WireIs, SeqEqual DEF m

\* One more read appends what comes next.
LEMMA ReadAppends ==
    ASSUME Listener!ConstantsOK, NEW c \in Clients, NEW k \in Nat, NEW n \in Nat, k <= n,
           n <= Len(Listener!Wire(c))
    PROVE  SubSeq(Listener!Wire(c), 1, k) \o SubSeq(Listener!Wire(c), k + 1, n)
              = SubSeq(Listener!Wire(c), 1, n)
<1>1. Listener!Wire(c) \in Seq(Nat) /\ Len(Listener!Wire(c)) \in Nat
  BY WireIs
<1>2. 1 \in 1 .. Len(Listener!Wire(c)) + 1 /\ k \in 1 - 1 .. Len(Listener!Wire(c))
      /\ n \in k .. Len(Listener!Wire(c))
  BY <1>1
<1> QED BY <1>1, <1>2, ConcatAdjacentSubSeq, SMTT(30)

\* How long what was read is.
LEMMA ReadLength ==
    ASSUME Listener!ConstantsOK, NEW c \in Clients, NEW n \in Nat, n <= Len(Listener!Wire(c))
    PROVE  Len(SubSeq(Listener!Wire(c), 1, n)) = n
<1>1. Listener!Wire(c) \in Seq(Nat) /\ \A i \in 1 .. n : Listener!Wire(c)[i] \in Nat
  BY WireIs
<1> QED BY <1>1, SubSeqProperties

\* A listener that was never started has handed on nothing.
LEMMA InitIntact == Listener!ConstantsOK /\ Listener!Init => ListenerInvariant
<1> SUFFICES ASSUME Listener!ConstantsOK, Listener!Init PROVE ListenerInvariant
  OBVIOUS
<1>1. \A c \in Clients : Len(Listener!Wire(c)) >= 0
  BY WireIs
<1>2. Listener!TypeOK
  BY DEF Listener!Init, Listener!TypeOK
<1>3. Listener!ReadsInOrder
  BY <1>1 DEF Listener!Init, Listener!ReadsInOrder
<1>4. Listener!MessagesIntact
  BY DEF Listener!Init, Listener!MessagesIntact
<1> QED BY <1>2, <1>3, <1>4 DEF ListenerInvariant

\* The owner, the clients and the thread between two messages: nothing is read.
LEMMA RestIntact ==
    ASSUME Listener!ConstantsOK, ListenerInvariant,
           \/ Listener!Start \/ Listener!StopWakes \/ Listener!StopJoined
           \/ Listener!EpollWait \/ Listener!EventsDone \/ Listener!WakeupEvent
           \/ Listener!AcceptEvent \/ Listener!ReadFails
           \/ \E c \in Clients : Listener!Connect(c) \/ Listener!Dies(c)
    PROVE  ListenerInvariant'
<1>1. Listener!MessagesIntact'
  BY DEF ListenerInvariant, Listener!MessagesIntact, Listener!Start, Listener!StopWakes,
         Listener!StopJoined,
         Listener!EpollWait, Listener!EventsDone, Listener!WakeupEvent, Listener!AcceptEvent,
         Listener!ReadFails, Listener!Connect, Listener!Dies
<1>2. Listener!TypeOK'
  BY DEF ListenerInvariant, Listener!TypeOK, Listener!Start, Listener!StopWakes, Listener!StopJoined,
         Listener!EpollWait, Listener!EventsDone, Listener!WakeupEvent, Listener!AcceptEvent,
         Listener!ReadFails, Listener!Connect, Listener!Dies
<1> SUFFICES Listener!ReadsInOrder'
  BY <1>1, <1>2 DEF ListenerInvariant
<1>3. CASE Listener!Start \/ Listener!StopWakes \/ Listener!EventsDone \/ Listener!WakeupEvent
  BY <1>3 DEF ListenerInvariant, Listener!TypeOK, Listener!ReadsInOrder, Listener!Start,
              Listener!StopWakes,
         Listener!EventsDone, Listener!WakeupEvent
<1>4. CASE Listener!StopJoined
  BY <1>4 DEF ListenerInvariant, Listener!TypeOK, Listener!ReadsInOrder, Listener!StopJoined
<1>5. CASE Listener!EpollWait
  <2>1. Clients \cap {Listener!Wakeup, Listener!ListenFd} = {}
    BY DEF Listener!ConstantsOK
  <2>2. \A c \in Clients \cap Listener!Ready : l_conn[c] = "open"
    BY <2>1 DEF Listener!Ready
  <2> QED BY <1>5, <2>2 DEF ListenerInvariant, Listener!TypeOK, Listener!ReadsInOrder, Listener!EpollWait
<1>6. CASE Listener!AcceptEvent
  BY <1>6 DEF ListenerInvariant, Listener!TypeOK, Listener!ReadsInOrder, Listener!AcceptEvent
<1>7. CASE Listener!ReadFails
  BY <1>7 DEF ListenerInvariant, Listener!TypeOK, Listener!ReadsInOrder, Listener!ReadFails
<1>8. CASE \E c \in Clients : Listener!Connect(c) \/ Listener!Dies(c)
  BY <1>8 DEF ListenerInvariant, Listener!TypeOK, Listener!ReadsInOrder, Listener!Connect, Listener!Dies
<1> QED BY <1>3, <1>4, <1>5, <1>6, <1>7, <1>8
\* The clients write.
LEMMA WriteIntact ==
    ASSUME Listener!ConstantsOK, ListenerInvariant, NEW c \in Clients, Listener!Write(c)
    PROVE  ListenerInvariant'
<1>1. PICK n \in l_sent[c] + 1 .. Len(Listener!Wire(c)) : l_sent' = [l_sent EXCEPT ![c] = n]
  BY Zenon DEF Listener!Write
<1>2. n \in Nat /\ n > l_sent[c] /\ n <= Len(Listener!Wire(c))
  BY <1>1, WireIs DEF ListenerInvariant, Listener!TypeOK
<1>3. Listener!TypeOK'
  BY <1>1, <1>2 DEF ListenerInvariant, Listener!TypeOK, Listener!Write
<1>4. Listener!ReadsInOrder'
  BY <1>1, <1>2 DEF ListenerInvariant, Listener!TypeOK, Listener!ReadsInOrder, Listener!Write
<1>5. Listener!MessagesIntact'
  BY <1>1, <1>2 DEF ListenerInvariant, Listener!TypeOK, Listener!MessagesIntact, Listener!Write
<1> QED BY <1>3, <1>4, <1>5 DEF ListenerInvariant

\* ReadFd begins: nothing was read of the connection before.
LEMMA ReadEventIntact ==
    ASSUME Listener!ConstantsOK, ListenerInvariant, NEW c \in Clients, Listener!ReadEvent(c)
    PROVE  ListenerInvariant'
<1>1. l_conn[c] = "open" /\ l_taken[c] = 0
  BY SMTT(30) DEF ListenerInvariant, Listener!TypeOK, Listener!ReadsInOrder, Listener!ReadEvent
<1>2. <<>> = SubSeq(Listener!Wire(c), 1, 0)
  BY SubSeqEmpty
<1>3. Listener!TypeOK' /\ Listener!MessagesIntact'
  BY DEF ListenerInvariant, Listener!TypeOK, Listener!MessagesIntact, Listener!ReadEvent
<1>4. Listener!ReadsInOrder'
  BY <1>1, <1>2 DEF ListenerInvariant, Listener!TypeOK, Listener!ReadsInOrder, Listener!ReadEvent
<1> QED BY <1>3, <1>4 DEF ListenerInvariant

\* ReadFd ends with len bytes of what it read, if at all with a message's.
LEMMA FinishIntact ==
    ASSUME Listener!ConstantsOK, ListenerInvariant, NEW c \in Clients, NEW len, NEW n \in Nat,
           l_thread = "read", c = l_reading, l_taken' = [l_taken EXCEPT ![c] = n], n <= l_sent[c],
           l_buf' = SubSeq(Listener!Wire(c), 1, n),
           len = ExpectedMsgLen => len <= n,
           Listener!Finish(c, len),
           UNCHANGED <<l_phase, l_events, l_woken, l_gone, l_sent>>
    PROVE  ListenerInvariant'
<1>1. n <= Len(Listener!Wire(c))
  BY WireIs DEF ListenerInvariant, Listener!TypeOK, Listener!ReadsInOrder
<1>2. len = ExpectedMsgLen => SubSeq(l_buf', 1, len) = Text[c]
  BY <1>1, MessageFirst, Zenon
<1>3. /\ l_handled' = l_handled \/ l_handled' = [l_handled EXCEPT ![c] = @ \cup {Text[c]}]
      /\ l_replied' = IF l_handled' # l_handled THEN l_replied \cup {c} ELSE l_replied
      /\ l_conn' = [l_conn EXCEPT ![c] = "closed"] /\ l_thread' = "events"
  BY <1>2, Zenon DEF Listener!Finish, Listener!ToHandler
<1>4. l_handled \in [Clients -> SUBSET Listener!Messages] /\ Text[c] \in Listener!Messages
  BY DEF ListenerInvariant, Listener!TypeOK, Listener!Messages
<1>5. Listener!ReadsInOrder'
  BY <1>3 DEF ListenerInvariant, Listener!TypeOK, Listener!ReadsInOrder
<1>6. /\ l_handled' \in [Clients -> SUBSET Listener!Messages]
      /\ \A d \in Clients : l_handled'[d] = l_handled[d] \/ l_handled'[d] = l_handled[d] \cup {Text[d]}
      /\ l_replied' = l_replied \/ (l_replied' = l_replied \cup {c} /\ l_handled'[c] # {})
  <2>1. CASE l_handled' = l_handled
    <3>1. l_replied' = l_replied
      BY <1>3, <2>1, Zenon
    <3>2. l_handled' \in [Clients -> SUBSET Listener!Messages]
      BY <1>4, <2>1, Zenon
    <3> QED BY <2>1, <3>1, <3>2, Zenon
  <2>2. CASE l_handled' = [l_handled EXCEPT ![c] = @ \cup {Text[c]}]
    <3>1. l_handled[c] \cup {Text[c]} \in SUBSET Listener!Messages
      BY <1>4
    <3>2. l_handled' \in [Clients -> SUBSET Listener!Messages]
      BY <1>4, <2>2, <3>1
    <3>3. \A d \in Clients :
             l_handled'[d] = IF d = c THEN l_handled[c] \cup {Text[c]} ELSE l_handled[d]
      BY <1>4, <2>2
    <3>4. l_handled'[c] # {}
      BY <3>3
    <3> QED BY <1>3, <3>2, <3>3, <3>4
  <2> QED BY <1>3, <2>1, <2>2
<1>7. Listener!TypeOK'
  BY <1>3, <1>6, Zenon DEF ListenerInvariant, Listener!TypeOK
<1>8. Listener!MessagesIntact'
  <2>1. /\ \A d \in Clients : l_handled[d] \subseteq {Text[d]}
        /\ \A d \in l_replied : l_handled[d] # {}
        /\ \A d \in Clients : l_taken[d] <= l_sent[d]
        /\ l_replied \subseteq Clients /\ l_taken \in [Clients -> Nat]
    BY Zenon DEF ListenerInvariant, Listener!TypeOK, Listener!MessagesIntact
  <2>2. \A d \in Clients : l_handled'[d] \subseteq {Text[d]}
    BY <1>6, <2>1, Zenon
  <2>3. \A d \in l_replied' : l_handled'[d] # {}
    BY <1>6, <2>1, Zenon
  <2>4. \A d \in Clients : l_taken'[d] <= l_sent'[d]
    BY <2>1
  <2> QED BY <2>2, <2>3, <2>4, Zenon DEF Listener!MessagesIntact
<1> QED BY <1>5, <1>7, <1>8 DEF ListenerInvariant

\* One read of ReadFd.
LEMMA ReadSomeIntact ==
    ASSUME Listener!ConstantsOK, ListenerInvariant, Listener!ReadSome
    PROVE  ListenerInvariant'
<1> DEFINE c == l_reading
<1>1. l_thread = "read" /\ c \in Clients /\ l_buf = SubSeq(Listener!Wire(c), 1, l_taken[c])
  BY DEF ListenerInvariant, Listener!ReadsInOrder, Listener!ReadSome
<1>2. PICK n \in l_taken[c] + 1 .. l_sent[c] :
          /\ l_taken' = [l_taken EXCEPT ![c] = n]
          /\ l_buf' = l_buf \o SubSeq(Listener!Wire(c), l_taken[c] + 1, n)
  BY Zenon DEF Listener!ReadSome
<1>3. l_taken[c] \in Nat /\ l_sent[c] \in Nat /\ l_sent[c] <= Len(Listener!Wire(c))
  BY <1>1 DEF ListenerInvariant, Listener!TypeOK, Listener!ReadsInOrder
<1>4. n \in Nat /\ l_taken[c] <= n /\ n <= l_sent[c] /\ n <= Len(Listener!Wire(c))
  BY <1>1, <1>3, WireIs, SMTT(30)
<1>5. l_buf' = SubSeq(Listener!Wire(c), 1, n) /\ Len(l_buf') = n
  BY <1>1, <1>2, <1>3, <1>4, ReadAppends, ReadLength, Zenon
<1>6. UNCHANGED <<l_phase, l_events, l_woken, l_gone, l_sent>>
  BY DEF Listener!ReadSome
<1>7. CASE Listener!Finish(c, Listener!Ended(l_buf'))
  <2>1. Listener!Ended(l_buf') = ExpectedMsgLen => Listener!Ended(l_buf') <= n
    BY <1>1, <1>4, <1>5, WireIs DEF Listener!Ended
  <2> QED BY <1>1, <1>2, <1>4, <1>5, <1>6, <1>7, <2>1, FinishIntact, Zenon
<1>8. CASE UNCHANGED <<l_thread, l_reading, l_conn, l_handled, l_replied>>
  <2>1. Listener!TypeOK' /\ Listener!MessagesIntact'
    BY <1>2, <1>4, <1>6, <1>8, Zenon DEF ListenerInvariant, Listener!TypeOK, Listener!MessagesIntact
  <2>2. Listener!ReadsInOrder'
    BY <1>1, <1>2, <1>4, <1>5, <1>6, <1>8, Zenon DEF ListenerInvariant, Listener!TypeOK,
                                                     Listener!ReadsInOrder
  <2> QED BY <2>1, <2>2 DEF ListenerInvariant
<1> QED BY <1>7, <1>8 DEF Listener!ReadSome

\* The client is gone: what was read is the message, or not even that.
LEMMA ReadEndIntact ==
    ASSUME Listener!ConstantsOK, ListenerInvariant, Listener!ReadEnd
    PROVE  ListenerInvariant'
<1> DEFINE c == l_reading
           n == l_taken[c]
<1>1. l_thread = "read" /\ c \in Clients /\ l_buf = SubSeq(Listener!Wire(c), 1, n)
  BY DEF ListenerInvariant, Listener!ReadsInOrder, Listener!ReadEnd
<1>2. n \in Nat /\ n <= l_sent[c] /\ l_sent[c] \in Nat /\ l_sent[c] <= Len(Listener!Wire(c))
  BY <1>1 DEF ListenerInvariant, Listener!TypeOK, Listener!ReadsInOrder, Listener!MessagesIntact
<1>3. n <= Len(Listener!Wire(c)) /\ Len(l_buf) = n
  BY <1>1, <1>2, WireIs, ReadLength
<1>4. /\ UNCHANGED <<l_phase, l_events, l_woken, l_gone, l_sent>> /\ l_buf' = l_buf
      /\ l_taken' = [l_taken EXCEPT ![c] = n]
  BY DEF Listener!ReadEnd, ListenerInvariant, Listener!TypeOK
<1>5. PICK len : /\ Listener!Finish(c, len)
                 /\ len = Len(l_buf) \/ len = Listener!Ended(l_buf)
  BY DEF Listener!ReadEnd
<1>6. len = ExpectedMsgLen => len <= n
  BY <1>1, <1>2, <1>3, <1>5, WireIs, SMTT(30) DEF Listener!Ended
<1> HIDE DEF c
<1> QED BY <1>1, <1>2, <1>4, <1>5, <1>6, FinishIntact, Zenon DEF c

\* Every step keeps what was handed on whole.
LEMMA ListenerStep ==
    ASSUME Listener!ConstantsOK, ListenerInvariant, [Listener!Next]_(Listener!vars)
    PROVE  ListenerInvariant'
<1>1. CASE UNCHANGED Listener!vars
  BY <1>1 DEF ListenerInvariant, Listener!TypeOK, Listener!ReadsInOrder, Listener!MessagesIntact,
              Listener!vars
<1>2. CASE Listener!Next
  BY <1>2, RestIntact, WriteIntact, ReadEventIntact, ReadSomeIntact, ReadEndIntact
     DEF Listener!Next
<1> QED BY <1>1, <1>2

\* However the bytes of the clients arrive and whichever of them go away: the handler is
\* given whole messages of the client it answers, and never those of another
\* (UdsListener::ReadFd, HandleEvent).
THEOREM ListenerStaysIntact ==
    ASSUME Listener!ConstantsOK PROVE Listener!Spec => []Listener!MessagesIntact
<1>1. Listener!Init => ListenerInvariant
  BY InitIntact
<1>2. ListenerInvariant /\ [Listener!Next]_(Listener!vars) => ListenerInvariant'
  BY ListenerStep
<1>3. ListenerInvariant => Listener!MessagesIntact
  BY Zenon DEF ListenerInvariant
<1> QED BY <1>1, <1>2, <1>3, PTL DEF Listener!Spec

(***************************************************************************)
(* QatErrSim: errors as asked                                               *)
(***************************************************************************)
CONSTANTS Unit, UnitIds, Codes, MaxCnt, MaxInject

VARIABLES e_sim, e_now, e_injected, e_broken, e_want, e_given

\* The simulation of errors
Errors == INSTANCE ErrSimulation WITH
    Ids <- UnitIds,
    sim <- e_sim, now <- e_now, injected <- e_injected, broken <- e_broken, want <- e_want,
    given <- e_given

ErrorsInvariant == Errors!TypeOK /\ Errors!SetAsAsked /\ Errors!ErrorsAsAsked

\* The flags say what was packed into them.
LEMMA FlagsUnpack ==
    ASSUME NEW s \in 0 .. 3, NEW o \in 0 .. 1
    PROVE  /\ Errors!PackQatErrSimUdsFlags(s, o) % 4 = s
           /\ (Errors!PackQatErrSimUdsFlags(s, o) \div 4) % 2 = o
<1>1. s \in {0, 1, 2, 3} /\ o \in {0, 1}
  OBVIOUS
<1> QED BY <1>1, SMT DEF Errors!PackQatErrSimUdsFlags

\* Units, ids and codes are what the socket's messages carry.
LEMMA UnitsAre ==
    ASSUME Errors!ConstantsOK
    PROVE  /\ \A u \in DOMAIN Unit : Unit[u] \in [pf : Nat, vf : Nat, inst : Nat]
           /\ UnitIds \subseteq [pf : Nat, vf : Nat, inst : Nat] /\ MaxCnt \in Nat
           /\ Codes \subseteq Int \ {0, 6}
<1>1. Unit \in Seq([pf : Nat, vf : Nat, inst : Nat])
  BY Zenon DEF Errors!ConstantsOK
<1>2. \A u \in DOMAIN Unit : Unit[u] \in [pf : Nat, vf : Nat, inst : Nat]
  <2>1. DOMAIN Unit = 1 .. Len(Unit)
    BY <1>1
  <2> QED BY <1>1, <2>1, ElementOfSeq, Zenon
<1>3. Codes \subseteq Int \ {0, 6}
  BY Zenon DEF Errors!ConstantsOK, Errors!OK, Errors!Timeout
<1> QED BY <1>2, <1>3, Zenon DEF Errors!ConstantsOK

\* The message reaches the units the tool means, with its operation.
LEMMA ReachesMeant ==
    ASSUME Errors!ConstantsOK, NEW a \in Errors!Args
    PROVE  LET m == Errors!ParseIntoMsg(a)
           IN  /\ m.type = a.type /\ m.code = a.code /\ m.cnt = a.cnt
               /\ (m.flags \div 4) % 2 = 1 <=> a.op = "ls"
               /\ m.flags % 4 = 3 <=> a.specify = "inst"
               /\ Errors!GetQatUnit(m) = {u \in DOMAIN Unit : Errors!Meant(a, u)}
<1> DEFINE m == Errors!ParseIntoMsg(a)
           p == Errors!ParseSpecify(a)
           o == Errors!Ops[a.op]
<1>1. a.specify \in {"all", "pf", "vf", "inst"} /\ a.op \in {"inject", "ls"} /\ a.id \in UnitIds
  BY DEF Errors!Args, Errors!Select, Errors!Ops
<1>2. /\ p.selection = Errors!Select[a.specify]
      /\ p.pf = IF a.specify = "all" THEN 255 ELSE a.id.pf
      /\ p.vf = IF a.specify \in {"all", "pf"} THEN 255 ELSE a.id.vf
      /\ p.inst = IF a.specify # "inst" THEN 255 ELSE a.id.inst
  BY DEF Errors!ParseSpecify
<1>3. p.selection = IF a.specify = "all" THEN 0 ELSE IF a.specify = "pf" THEN 1
                    ELSE IF a.specify = "vf" THEN 2 ELSE 3
  BY <1>1, <1>2 DEF Errors!Select
<1>4. o = IF a.op = "ls" THEN 1 ELSE 0
  BY <1>1 DEF Errors!Ops
<1>5. /\ m.flags = Errors!PackQatErrSimUdsFlags(p.selection, o)
      /\ m.pf = p.pf /\ m.vf = p.vf /\ m.inst = p.inst
      /\ m.type = a.type /\ m.code = a.code /\ m.cnt = a.cnt
  BY DEF Errors!ParseIntoMsg, Errors!PackQatErrSimUdsMsg
<1> HIDE DEF m, p, o
<1>6. m.flags % 4 = p.selection /\ (m.flags \div 4) % 2 = o
  BY <1>3, <1>4, <1>5, FlagsUnpack
<1>7. ASSUME NEW u \in DOMAIN Unit
      PROVE  u \in Errors!GetQatUnit(m) <=> Errors!Meant(a, u)
  <2>1. u \in Errors!GetQatUnit(m) <=>
            /\ p.selection >= 1 => Unit[u].pf = p.pf
            /\ p.selection >= 2 => Unit[u].vf = p.vf
            /\ p.selection = 3 => Unit[u].inst = p.inst
    BY <1>5, <1>6 DEF Errors!GetQatUnit
  <2>2. Unit[u] = a.id <=> Unit[u].pf = a.id.pf /\ Unit[u].vf = a.id.vf /\ Unit[u].inst = a.id.inst
    BY <1>1, UnitsAre
  <2>3. Errors!Meant(a, u) <=>
            \/ a.specify = "all"
            \/ a.specify = "pf" /\ Unit[u].pf = a.id.pf
            \/ a.specify = "vf" /\ Unit[u].pf = a.id.pf /\ Unit[u].vf = a.id.vf
            \/ a.specify = "inst" /\ Unit[u] = a.id
    BY <1>1, Zenon DEF Errors!Meant
  <2>4. CASE a.specify = "all"
    BY <1>2, <1>3, <2>1, <2>3, <2>4
  <2>5. CASE a.specify = "pf"
    BY <1>2, <1>3, <2>1, <2>3, <2>5
  <2>6. CASE a.specify = "vf"
    BY <1>2, <1>3, <2>1, <2>3, <2>6
  <2>7. CASE a.specify = "inst"
    BY <1>2, <1>3, <2>1, <2>2, <2>3, <2>7
  <2> QED BY <1>1, <2>4, <2>5, <2>6, <2>7
<1>8. Errors!GetQatUnit(m) \subseteq DOMAIN Unit
  BY DEF Errors!GetQatUnit
<1> QED BY <1>1, <1>3, <1>4, <1>5, <1>6, <1>7, <1>8 DEF m

ErrSet == [type : Errors!Types \cup {"num"}, code : Codes \cup {0, 6}, cnt : Nat, until : Nat]
AskedSet == [type : Errors!Types \cup {"num"}, code : Codes \cup {0, 6}, cnt : Nat, at : Nat]

\* What the invariant says of one unit, of its error s, of what was asked w and of the
\* number g of errors given at time t.
AsAsked(s, w, g, t) ==
    /\ s.code # 0 =>
          /\ s.type = w.type /\ s.code = w.code /\ s.cnt > 0
          /\ s.code = 6 => s.until = w.at + w.cnt
    /\ w.code = 0 => s.code = 0
    /\ w.code = 6 => s.code = 6 \/ t > w.at + w.cnt
    /\ w.code \notin {0, 6} => g + s.cnt = w.cnt /\ (s.cnt > 0 => s.type = w.type /\ s.code = w.code)

\* The invariant, unit by unit
ErrorsPerUnit ==
    /\ e_sim \in [DOMAIN Unit -> ErrSet] /\ e_want \in [DOMAIN Unit -> AskedSet]
    /\ e_given \in [DOMAIN Unit -> Nat] /\ e_now \in Nat
    /\ \A u \in DOMAIN Unit : AsAsked(e_sim[u], e_want[u], e_given[u], e_now)

\* The invariant, unit by unit.
LEMMA ErrorsUnits == ErrorsInvariant <=> ErrorsPerUnit
<1> DEFINE A(u) == LET w == e_want[u]
                  IN  CASE w.code = 0 -> e_sim[u].code = 0
                        [] w.code = 6 -> e_sim[u].code = 6 \/ e_now > w.at + w.cnt
                        [] OTHER -> e_given[u] + e_sim[u].cnt = w.cnt
                             /\ (e_sim[u].cnt > 0 => e_sim[u].type = w.type /\ e_sim[u].code = w.code)
           B(u) == e_sim[u].code # 0 =>
                      /\ e_sim[u].type = e_want[u].type /\ e_sim[u].code = e_want[u].code
                      /\ e_sim[u].cnt > 0
                      /\ e_sim[u].code = 6 => e_sim[u].until = e_want[u].at + e_want[u].cnt
<1>1. Errors!ErrorsAsAsked <=> \A u \in DOMAIN Unit : A(u)
  BY Zenon DEF Errors!ErrorsAsAsked, Errors!OK, Errors!Timeout
<1>2. Errors!SetAsAsked <=> \A u \in DOMAIN Unit : B(u)
  BY Zenon DEF Errors!SetAsAsked, Errors!OK, Errors!Timeout
<1>3. Errors!TypeOK <=> /\ e_sim \in [DOMAIN Unit -> ErrSet] /\ e_want \in [DOMAIN Unit -> AskedSet]
                        /\ e_given \in [DOMAIN Unit -> Nat] /\ e_now \in Nat
  BY Zenon DEF Errors!TypeOK, ErrSet, AskedSet, Errors!OK, Errors!Timeout
<1>4. ASSUME NEW u \in DOMAIN Unit
      PROVE  AsAsked(e_sim[u], e_want[u], e_given[u], e_now) <=> A(u) /\ B(u)
  BY DEF AsAsked
<1> HIDE DEF A, B
<1> QED BY <1>1, <1>2, <1>3, <1>4, Zenon DEF ErrorsInvariant, ErrorsPerUnit

\* No error was asked for, none is given.
LEMMA ErrorsInit == Errors!Init => ErrorsPerUnit
<1> SUFFICES ASSUME Errors!Init PROVE ErrorsPerUnit
  OBVIOUS
<1>1. /\ e_sim = [u \in DOMAIN Unit |-> [type |-> "num", code |-> 0, cnt |-> 0, until |-> 0]]
      /\ e_want = [u \in DOMAIN Unit |-> [type |-> "num", code |-> 0, cnt |-> 0, at |-> 0]]
      /\ e_given = [u \in DOMAIN Unit |-> 0] /\ e_now = 0
  BY Zenon DEF Errors!Init, Errors!NoSim, Errors!OK
<1>2. /\ [type |-> "num", code |-> 0, cnt |-> 0, until |-> 0] \in ErrSet
      /\ [type |-> "num", code |-> 0, cnt |-> 0, at |-> 0] \in AskedSet
  BY DEF ErrSet, AskedSet
<1>3. e_sim \in [DOMAIN Unit -> ErrSet] /\ e_want \in [DOMAIN Unit -> AskedSet]
  BY <1>1, <1>2
<1>4. ASSUME NEW u \in DOMAIN Unit
      PROVE  AsAsked(e_sim[u], e_want[u], e_given[u], e_now)
  BY <1>1 DEF AsAsked
<1> QED BY <1>1, <1>3, <1>4 DEF ErrorsPerUnit

\* Time goes on.
LEMMA ErrorsTick == ErrorsPerUnit /\ Errors!Tick => ErrorsPerUnit'
<1> SUFFICES ASSUME ErrorsPerUnit, Errors!Tick PROVE ErrorsPerUnit'
  OBVIOUS
<1>1. e_now' = e_now + 1 /\ UNCHANGED <<e_sim, e_want, e_given>>
  BY Zenon DEF Errors!Tick
<1>2. /\ e_sim \in [DOMAIN Unit -> ErrSet] /\ e_want \in [DOMAIN Unit -> AskedSet]
      /\ e_given \in [DOMAIN Unit -> Nat] /\ e_now \in Nat
      /\ \A u \in DOMAIN Unit : AsAsked(e_sim[u], e_want[u], e_given[u], e_now)
  BY Zenon DEF ErrorsPerUnit
<1>3. ASSUME NEW u \in DOMAIN Unit
      PROVE  AsAsked(e_sim[u], e_want[u], e_given[u], e_now)'
  <2>1. AsAsked(e_sim[u], e_want[u], e_given[u], e_now) /\ e_want[u] \in AskedSet
    BY <1>2
  <2> QED BY <1>1, <1>2, <2>1 DEF AsAsked, AskedSet
<1>4. e_now' \in Nat
  BY <1>1, <1>2
<1> QED BY <1>1, <1>2, <1>3, <1>4, Zenon DEF ErrorsPerUnit

\* A thread gets the error of a unit.
LEMMA ErrorsGet ==
    ASSUME NEW u \in DOMAIN Unit, NEW type \in Errors!Types, ErrorsPerUnit,
           Errors!GetErr(u, type)
    PROVE  ErrorsPerUnit'
<1>1. /\ e_sim \in [DOMAIN Unit -> ErrSet] /\ e_want \in [DOMAIN Unit -> AskedSet]
      /\ e_given \in [DOMAIN Unit -> Nat] /\ e_now \in Nat
      /\ \A v \in DOMAIN Unit : AsAsked(e_sim[v], e_want[v], e_given[v], e_now)
  BY Zenon DEF ErrorsPerUnit
<1>2. /\ e_sim[u].code # 0 /\ e_sim' = [e_sim EXCEPT ![u] = Errors!AfterErr(e_sim[u])]
      /\ e_given' = [e_given EXCEPT ![u] = e_given[u] + 1]
      /\ UNCHANGED <<e_now, e_want>>
  BY Zenon DEF Errors!GetErr, Errors!OK
<1> DEFINE s == e_sim[u]
           w == e_want[u]
           g == e_given[u]
           r == Errors!AfterErr(s)
           cnt == IF s.code = 6 THEN (IF e_now > s.until THEN 0 ELSE s.cnt) ELSE s.cnt - 1
<1>3. s \in ErrSet /\ w \in AskedSet /\ g \in Nat /\ AsAsked(s, w, g, e_now) /\ s.code # 0
  BY <1>1, <1>2
<1>4. r = IF cnt = 0 THEN [type |-> "num", code |-> 0, cnt |-> 0, until |-> 0]
          ELSE [s EXCEPT !.cnt = cnt]
  BY Zenon DEF Errors!AfterErr, Errors!NoSim, Errors!OK, Errors!Timeout
<1> HIDE DEF s, w, g, r
<1>5. cnt \in Nat
  BY <1>1, <1>3 DEF AsAsked, ErrSet
<1>6. r \in ErrSet /\ AsAsked(r, w, g + 1, e_now)
  <2>1. CASE cnt = 0
    <3>1. r = [type |-> "num", code |-> 0, cnt |-> 0, until |-> 0]
      BY <1>4, <2>1, Zenon
    <3>2. r \in ErrSet
      BY <3>1 DEF ErrSet
    <3>3. AsAsked(r, w, g + 1, e_now)
      BY <1>1, <1>3, <2>1, <3>1 DEF AsAsked, ErrSet, AskedSet
    <3> QED BY <3>2, <3>3
  <2>2. CASE cnt # 0
    <3>1. r = [s EXCEPT !.cnt = cnt]
      BY <1>4, <2>2, Zenon
    <3> HIDE DEF cnt
    <3>2. r \in ErrSet /\ r.type = s.type /\ r.code = s.code /\ r.cnt = cnt /\ r.until = s.until
      BY <1>3, <1>5, <3>1 DEF ErrSet
    <3>3. CASE s.code = 6
      <4>1. cnt = s.cnt
        BY <2>2, <3>3, Zenon DEF cnt
      <4>2. AsAsked(r, w, g + 1, e_now)
        BY <1>3, <3>2, <3>3, <4>1 DEF AsAsked
      <4> QED BY <3>2, <4>2
    <3>4. CASE s.code # 6
      <4>1. cnt = s.cnt - 1
        BY <3>4, Zenon DEF cnt
      <4>2. AsAsked(r, w, g + 1, e_now)
        BY <1>3, <1>5, <2>2, <3>2, <3>4, <4>1 DEF AsAsked, ErrSet, AskedSet
      <4> QED BY <3>2, <4>2
    <3> QED BY <3>3, <3>4
  <2> QED BY <2>1, <2>2
<1>7. e_sim' \in [DOMAIN Unit -> ErrSet] /\ e_given' \in [DOMAIN Unit -> Nat]
  BY <1>1, <1>2, <1>3, <1>6 DEF s, g, r
<1>8. ASSUME NEW v \in DOMAIN Unit
      PROVE  AsAsked(e_sim[v], e_want[v], e_given[v], e_now)'
  <2>1. CASE v = u
    <3>1. e_sim'[v] = r /\ e_given'[v] = g + 1 /\ e_want'[v] = w /\ e_now' = e_now
      BY <1>1, <1>2, <2>1 DEF s, w, g, r
    <3> QED BY <1>6, <3>1 DEF AsAsked
  <2>2. CASE v # u
    <3>1. e_sim'[v] = e_sim[v] /\ e_given'[v] = e_given[v] /\ e_want'[v] = e_want[v] /\ e_now' = e_now
      BY <1>1, <1>2, <2>2
    <3> QED BY <1>1, <3>1 DEF AsAsked
  <2> QED BY <2>1, <2>2
<1> QED BY <1>1, <1>2, <1>7, <1>8, Zenon DEF ErrorsPerUnit

\* A message of the tool is handled.
LEMMA ErrorsInject ==
    ASSUME Errors!ConstantsOK, NEW a \in Errors!Args, ErrorsPerUnit, Errors!Inject(a)
    PROVE  ErrorsPerUnit'
<1>1. /\ e_sim \in [DOMAIN Unit -> ErrSet] /\ e_want \in [DOMAIN Unit -> AskedSet]
      /\ e_given \in [DOMAIN Unit -> Nat] /\ e_now \in Nat
      /\ \A v \in DOMAIN Unit : AsAsked(e_sim[v], e_want[v], e_given[v], e_now)
  BY Zenon DEF ErrorsPerUnit
<1> DEFINE m == Errors!ParseIntoMsg(a)
           hit(u) == a.op = "inject" /\ Errors!Meant(a, u)
           w == [type |-> a.type, code |-> a.code, cnt |-> a.cnt, at |-> e_now]
           s == [type |-> a.type, code |-> a.code, cnt |-> a.cnt,
                 until |-> IF a.code = 6 THEN e_now + a.cnt ELSE 0]
<1>2. /\ a.op \in {"inject", "ls"} /\ a.type \in Errors!Types /\ a.code \in Codes \cup {0, 6}
      /\ a.cnt \in Nat
  BY UnitsAre DEF Errors!Args, Errors!Ops, Errors!OK, Errors!Timeout
<1>3. /\ a.code = 6 => a.type = "result"
      /\ a.code # 0 => a.cnt # 0
  BY Zenon DEF Errors!Inject, Errors!ParseTypeCodeCnt, Errors!OK, Errors!Timeout
<1>4. /\ e_want' = [u \in DOMAIN Unit |-> IF hit(u) THEN w ELSE e_want[u]]
      /\ e_given' = [u \in DOMAIN Unit |-> IF hit(u) THEN 0 ELSE e_given[u]]
      /\ e_now' = e_now
  BY Zenon DEF Errors!Inject
<1>5. /\ m.type = a.type /\ m.code = a.code /\ m.cnt = a.cnt
      /\ (m.flags \div 4) % 2 = 1 <=> a.op = "ls"
      /\ Errors!GetQatUnit(m) = {u \in DOMAIN Unit : Errors!Meant(a, u)}
  BY ReachesMeant, Zenon
<1>6. Errors!SetError(m) = s
  BY <1>5, Zenon DEF Errors!SetError, Errors!Timeout
<1>7. Errors!HandleQatErrSim(m)
  BY Zenon DEF Errors!Inject
<1> HIDE DEF m, s, w
<1>8. e_sim' = [u \in DOMAIN Unit |-> IF hit(u) THEN s ELSE e_sim[u]]
  <2> DEFINE units == Errors!GetQatUnit(m)
             lists == (m.flags \div 4) % 2 = 1
             valid == /\ units # {}
                      /\ m.code = 6 => m.type = "result"
                      /\ m.cnt = 0 => m.code = 0
  <2>1. \/ m.flags % 4 = 3 /\ units = {} /\ e_sim' = e_sim
        \/ (lists \/ ~valid) /\ e_sim' = e_sim
        \/ ~lists /\ e_sim' = [u \in DOMAIN Unit |->
                                 IF u \in units THEN Errors!SetError(m) ELSE e_sim[u]]
    BY <1>7, Zenon DEF Errors!HandleQatErrSim, Errors!OK, Errors!Timeout
  <2>2. valid <=> units # {}
    BY <1>3, <1>5
  <2>3. \A u \in DOMAIN Unit : u \in units <=> Errors!Meant(a, u)
    BY <1>5
  <2>4. lists <=> a.op = "ls"
    BY <1>5, Zenon
  <2> HIDE DEF units, lists, valid
  <2>5. CASE units = {} \/ lists
    <3>1. \A u \in DOMAIN Unit : ~hit(u)
      BY <1>2, <2>3, <2>4, <2>5
    <3>2. units = {} => e_sim' = e_sim
      BY <1>1, <2>1
    <3>3. units # {} => e_sim' = e_sim
      BY <2>1, <2>2, <2>5, Zenon
    <3> HIDE DEF hit
    <3>4. e_sim' = e_sim
      BY <3>2, <3>3
    <3> QED BY <1>1, <3>1, <3>4
  <2>6. CASE units # {} /\ ~lists
    <3>1. e_sim' = [u \in DOMAIN Unit |-> IF u \in units THEN s ELSE e_sim[u]]
      BY <1>6, <2>1, <2>2, <2>6, Zenon
    <3>2. \A u \in DOMAIN Unit : u \in units <=> hit(u)
      BY <1>2, <2>3, <2>4, <2>6
    <3> HIDE DEF hit
    <3> QED BY <3>1, <3>2
  <2> QED BY <2>5, <2>6
<1> HIDE DEF hit
<1>9. s \in ErrSet /\ w \in AskedSet /\ AsAsked(s, w, 0, e_now)
  <2>1. s \in ErrSet
    BY <1>1, <1>2 DEF s, ErrSet
  <2>2. w \in AskedSet
    BY <1>1, <1>2 DEF w, AskedSet
  <2>3. AsAsked(s, w, 0, e_now)
    <3>1. /\ s.type = a.type /\ s.code = a.code /\ s.cnt = a.cnt
          /\ s.until = IF a.code = 6 THEN e_now + a.cnt ELSE 0
          /\ w.type = a.type /\ w.code = a.code /\ w.cnt = a.cnt /\ w.at = e_now
      BY Zenon DEF s, w
    <3>2. a.cnt \in Nat /\ (a.code # 0 => a.cnt > 0)
      BY <1>2, <1>3
    <3> QED BY <3>1, <3>2 DEF AsAsked
  <2> QED BY <2>1, <2>2, <2>3
<1>10. /\ e_sim' \in [DOMAIN Unit -> ErrSet] /\ e_want' \in [DOMAIN Unit -> AskedSet]
       /\ e_given' \in [DOMAIN Unit -> Nat]
  BY <1>1, <1>4, <1>8, <1>9
<1>11. ASSUME NEW u \in DOMAIN Unit
       PROVE  AsAsked(e_sim[u], e_want[u], e_given[u], e_now)'
  <2>1. CASE hit(u)
    <3>1. e_sim'[u] = s /\ e_want'[u] = w /\ e_given'[u] = 0 /\ e_now' = e_now
      BY <1>4, <1>8, <2>1
    <3> QED BY <1>9, <3>1 DEF AsAsked
  <2>2. CASE ~hit(u)
    <3>1. e_sim'[u] = e_sim[u] /\ e_want'[u] = e_want[u] /\ e_given'[u] = e_given[u] /\ e_now' = e_now
      BY <1>4, <1>8, <2>2
    <3> QED BY <1>1, <3>1 DEF AsAsked
  <2> QED BY <2>1, <2>2
<1> QED BY <1>1, <1>4, <1>10, <1>11, Zenon DEF ErrorsPerUnit

\* Every command, request and tick keeps the account of each unit.
LEMMA ErrorsStep ==
    ASSUME Errors!ConstantsOK
    PROVE  ErrorsInvariant /\ [Errors!Next]_(Errors!vars) => ErrorsInvariant'
<1>1. ErrorsPerUnit /\ UNCHANGED Errors!vars => ErrorsPerUnit'
  BY Zenon DEF Errors!vars, ErrorsPerUnit, AsAsked
<1>2. ErrorsPerUnit /\ Errors!Next => ErrorsPerUnit'
  BY ErrorsInject, ErrorsGet, ErrorsTick, Zenon DEF Errors!Next
<1>3. ErrorsPerUnit /\ [Errors!Next]_(Errors!vars) => ErrorsPerUnit'
  BY <1>1, <1>2, Zenon
<1> QED BY <1>3, ErrorsUnits, PTL

\* The threads of a unit get the simulated errors the tool asked of it last, each as often
\* as it said and a hang at least as long, whatever is asked of other units (QatErrSim::SetError,
\* GetErr, HandleQatErrSim).
THEOREM ErrorsStayAsAsked ==
    ASSUME Errors!ConstantsOK PROVE Errors!Spec => []Errors!ErrorsAsAsked
<1>1. Errors!Init => ErrorsInvariant
  BY ErrorsInit, ErrorsUnits, Zenon
<1>2. ErrorsInvariant /\ [Errors!Next]_(Errors!vars) => ErrorsInvariant'
  BY ErrorsStep
<1>3. ErrorsInvariant => Errors!ErrorsAsAsked
  BY Zenon DEF ErrorsInvariant
<1> QED BY <1>1, <1>2, <1>3, PTL DEF Errors!Spec

(***************************************************************************)
(* Init and Uninit: all or nothing                                          *)
(***************************************************************************)
CONSTANTS MaxCalls

VARIABLES y_sys, y_opts, y_returned, y_calls

\* Init and Uninit of the library
Library == INSTANCE Lifecycle WITH
    sys <- y_sys, opts <- y_opts, returned <- y_returned, calls <- y_calls

LibraryInvariant ==
    /\ Library!TypeOK /\ Library!AllOrNothing /\ Library!NothingDangles
    /\ Library!EnginesOwned

\* What UninitImpl stops
Stopped(s) ==
    ~s.codec /\ ~s.sw /\ ~s.df /\ ~s.dsa /\ ~s.cypher /\ ~s.uds /\ ~s.sched

\* WithoutCodecs leaves the driver, the pool and the log alone.
LEMMA CodecsStop ==
    ASSUME NEW s \in Library!Objects, s.dsa => s.df
    PROVE  LET t == Library!WithoutCodecs(s)
           IN  /\ t \in Library!Objects /\ Stopped(t)
               /\ t.logger = s.logger /\ t.registered = s.registered /\ t.flush = s.flush
               /\ t.pool = s.pool /\ t.regions = s.regions /\ t.user = s.user /\ t.inited = s.inited
<1> DEFINE a == [Library!CodecUninit(s) EXCEPT !.sched = FALSE]
           b == Library!DataFlowUninit(a)
           t == Library!WithoutCodecs(s)
<1>1. /\ a \in Library!Objects /\ ~a.codec /\ ~a.sw /\ ~a.sched
      /\ a.logger = s.logger /\ a.registered = s.registered /\ a.flush = s.flush
      /\ a.pool = s.pool /\ a.regions = s.regions /\ a.user = s.user /\ a.inited = s.inited
      /\ a.df = s.df /\ a.dsa = s.dsa
  BY Zenon DEF Library!CodecUninit, Library!Objects
<1> HIDE DEF a
<1>2. /\ b \in Library!Objects /\ ~b.codec /\ ~b.sw /\ ~b.sched /\ ~b.df /\ ~b.dsa
      /\ b.logger = s.logger /\ b.registered = s.registered /\ b.flush = s.flush
      /\ b.pool = s.pool /\ b.regions = s.regions /\ b.user = s.user /\ b.inited = s.inited
  <2>1. CASE a.df
    <3>1. b = [a EXCEPT !.df = FALSE, !.dsa = FALSE]
      BY <2>1, Zenon DEF Library!DataFlowUninit
    <3> HIDE DEF b
    <3> QED BY <1>1, <3>1, Zenon DEF Library!Objects
  <2>2. CASE ~a.df
    <3>1. b = [a EXCEPT !.crashed = a.crashed \/ a.logger = "null"]
      BY <2>2, Zenon DEF Library!DataFlowUninit, Library!Logged
    <3> HIDE DEF b
    <3> QED BY <1>1, <2>2, <3>1, ZenonT(40) DEF Library!Objects
  <2> QED BY <2>1, <2>2
<1>3. t = [[b EXCEPT !.cypher = FALSE] EXCEPT !.uds = FALSE]
  BY Zenon DEF Library!WithoutCodecs, Library!CypherStop, a
<1> HIDE DEF b, t
<1>4. /\ t \in Library!Objects /\ ~t.cypher /\ ~t.uds /\ ~t.codec /\ ~t.sw /\ ~t.sched /\ ~t.df /\ ~t.dsa
      /\ t.logger = b.logger /\ t.registered = b.registered /\ t.flush = b.flush
      /\ t.pool = b.pool /\ t.regions = b.regions /\ t.user = b.user /\ t.inited = b.inited
  BY <1>2, <1>3, Zenon DEF Library!Objects
<1> QED BY <1>2, <1>4, Zenon DEF t, Stopped

\* UninitImpl stops all but what a failing QatUserStop leaves, and when it gets to its end
\* nothing is left.
LEMMA UninitStops ==
    ASSUME NEW s \in Library!Objects, NEW stop \in BOOLEAN, s.dsa => s.df
    PROVE  LET t == Library!UninitImpl(s, stop)
           IN  /\ t \in Library!Objects /\ Stopped(t)
               /\ Library!UserStopFails(s, stop) =>
                     /\ t.logger = s.logger /\ t.registered = s.registered
                     /\ t.flush = s.flush /\ t.pool = s.pool /\ t.regions = s.regions /\ t.user = s.user
                     /\ t.inited = s.inited
               /\ ~Library!UserStopFails(s, stop) =>
                     /\ t.logger = "null" /\ ~t.registered /\ ~t.flush /\ ~t.pool
                     /\ ~t.user /\ ~t.inited
<1> DEFINE w == Library!WithoutCodecs(s)
           t == Library!UninitImpl(s, stop)
<1>1. /\ w \in Library!Objects /\ Stopped(w)
      /\ w.logger = s.logger /\ w.registered = s.registered /\ w.flush = s.flush
      /\ w.pool = s.pool /\ w.regions = s.regions /\ w.user = s.user /\ w.inited = s.inited
  BY CodecsStop, Zenon
<1> HIDE DEF w
<1>2. CASE Library!UserStopFails(s, stop)
  <2>1. t = [w EXCEPT !.crashed = w.crashed \/ w.logger = "null"]
    BY <1>1, <1>2, Zenon DEF Library!UninitImpl, Library!UserStopFails, Library!Logged, w
  <2> HIDE DEF t
  <2>2. /\ t \in Library!Objects
        /\ t.codec = w.codec /\ t.sw = w.sw /\ t.df = w.df /\ t.dsa = w.dsa
        /\ t.cypher = w.cypher /\ t.uds = w.uds /\ t.sched = w.sched
        /\ t.logger = w.logger /\ t.registered = w.registered /\ t.flush = w.flush
        /\ t.pool = w.pool /\ t.regions = w.regions /\ t.user = w.user /\ t.inited = w.inited
    BY <1>1, <2>1, ZenonT(40) DEF Library!Objects
  <2> QED BY <1>1, <1>2, <2>2, Zenon DEF t, Stopped
<1>3. CASE ~Library!UserStopFails(s, stop)
  <2> DEFINE v == [w EXCEPT !.user = FALSE]
             g == v.regions /\ ~v.pool
             x == [v EXCEPT !.pool = FALSE, !.regions = g, !.flush = FALSE]
  <2>1. t = [v EXCEPT !.pool = FALSE, !.regions = g, !.flush = FALSE,
                      !.logger = "null", !.registered = FALSE, !.inited = FALSE]
    BY <1>1, <1>3, Zenon DEF Library!UninitImpl, Library!UserStopFails, Library!WithoutPool, w
  <2> HIDE DEF t
  <2>2. /\ v \in Library!Objects /\ ~v.user
        /\ v.codec = w.codec /\ v.sw = w.sw /\ v.df = w.df /\ v.dsa = w.dsa
        /\ v.cypher = w.cypher /\ v.uds = w.uds /\ v.sched = w.sched
    BY <1>1, Zenon DEF Library!Objects
  <2> HIDE DEF v
  <2>6. g \in BOOLEAN
    OBVIOUS
  <2> HIDE DEF g
  <2>3. /\ x \in Library!Objects /\ ~x.flush /\ ~x.pool /\ ~x.user
        /\ x.codec = v.codec /\ x.sw = v.sw /\ x.df = v.df /\ x.dsa = v.dsa
        /\ x.cypher = v.cypher /\ x.uds = v.uds /\ x.sched = v.sched
    BY <2>2, <2>6, Zenon DEF Library!Objects
  <2>4. t = [x EXCEPT !.logger = "null", !.registered = FALSE, !.inited = FALSE]
    BY <2>1, <2>2
  <2> HIDE DEF x
  <2>5. /\ t \in Library!Objects
        /\ t.codec = w.codec /\ t.sw = w.sw /\ t.df = w.df /\ t.dsa = w.dsa
        /\ t.cypher = w.cypher /\ t.uds = w.uds /\ t.sched = w.sched
        /\ t.logger = "null" /\ ~t.registered /\ ~t.flush /\ ~t.pool
        /\ ~t.user /\ ~t.inited
    BY <2>2, <2>3, <2>4, ZenonT(40) DEF Library!Objects
  <2> QED BY <1>1, <1>3, <2>5, Zenon DEF t, Stopped
<1> QED BY <1>2, <1>3, Zenon DEF t

\* What nothing but the regions tells from Clean is a library that is not up.
LEMMA NothingLeft ==
    ASSUME NEW t \in Library!Objects, Stopped(t), t.logger # "set", ~t.registered, ~t.flush,
           ~t.pool, ~t.user, ~t.inited, ~t.crashed
    PROVE  Library!NothingRuns(t)
<1> DEFINE x == [t EXCEPT !.regions = FALSE, !.logger = "null"]
<1>1. /\ x \in Library!Objects /\ Stopped(x) /\ x.logger = "null" /\ ~x.regions
      /\ ~x.registered /\ ~x.flush /\ ~x.pool /\ ~x.user /\ ~x.inited /\ ~x.crashed
  BY Zenon DEF Library!Objects, Stopped
<1> HIDE DEF x
<1>2. x = Library!Clean
  BY <1>1 DEF Library!Objects, Library!Clean, Stopped
<1> QED BY <1>2, Zenon DEF Library!NothingRuns, x

\* NothingDangles and EnginesOwned of the objects s, and what AllOrNothing says of them
\* after an Init with the options o
Sound(s) ==
    /\ s.codec \/ s.uds => s.user /\ s.pool
    /\ s.dsa => s.pool /\ s.df
    /\ s.flush => s.logger = "set"
    /\ s.user => s.pool
    /\ s.pool => ~s.regions
Whole(s, o) ==
    /\ s.sched /\ s.flush /\ s.sw /\ s.df /\ s.cypher
    /\ o.pool => s.pool
    /\ o.qat => s.codec /\ s.user /\ s.pool
    /\ o.cypher => s.user
    /\ o.dsa => s.dsa /\ s.pool

\* Codecs on objects that have the pool, if any engine needs it, and the driver
LEMMA CodecsWhole ==
    ASSUME NEW u \in Library!Objects, NEW o \in Library!Options, NEW fail,
           u.sched, u.flush, u.logger = "set", o.pool => u.pool,
           o.qat \/ o.cypher => u.user, o.qat \/ o.cypher \/ o.dsa => u.pool, u.user => u.pool,
           u.pool => ~u.regions
    PROVE  LET r == Library!Codecs(u, o, fail)
           IN  r \in Library!Objects /\ Sound(r) /\ (r.inited => Whole(r, o))
<1> DEFINE a == [u EXCEPT !.sw = TRUE, !.codec = o.qat /\ fail # "codec"]
           b == [a EXCEPT !.df = TRUE, !.dsa = o.dsa]
           c == [b EXCEPT !.cypher = TRUE]
           d == [c EXCEPT !.uds = c.codec]
           i == ~(o.qat /\ fail = "codec") /\ ~(o.dsa /\ fail = "dsa")
                /\ ~(o.cypher /\ fail = "cypher")
           r == Library!Codecs(u, o, fail)
<1>1. r = [d EXCEPT !.inited = i]
  BY Zenon DEF Library!Codecs, Library!ListenerStart, Library!CypherStart, Library!DataFlowInit,
               Library!CodecInit
<1>2. o.pool \in BOOLEAN /\ o.qat \in BOOLEAN /\ o.dsa \in BOOLEAN /\ o.cypher \in BOOLEAN
  BY DEF Library!Options
<1>3. /\ a \in Library!Objects /\ a.sw /\ (a.codec <=> o.qat /\ fail # "codec")
      /\ a.logger = u.logger /\ a.flush = u.flush /\ a.sched = u.sched
      /\ a.pool = u.pool /\ a.regions = u.regions /\ a.user = u.user
  BY <1>2, Zenon DEF Library!Objects
<1> HIDE DEF a
<1>4. /\ b \in Library!Objects /\ b.sw /\ b.codec = a.codec /\ b.df /\ b.dsa = o.dsa
      /\ b.logger = a.logger /\ b.flush = a.flush /\ b.sched = a.sched
      /\ b.pool = a.pool /\ b.regions = a.regions /\ b.user = a.user
  BY <1>2, <1>3, Zenon DEF Library!Objects
<1> HIDE DEF b
<1>5. /\ c \in Library!Objects /\ c.sw /\ c.codec = b.codec /\ c.df /\ c.dsa = b.dsa /\ c.cypher
      /\ c.logger = b.logger /\ c.flush = b.flush /\ c.sched = b.sched
      /\ c.pool = b.pool /\ c.regions = b.regions /\ c.user = b.user
  BY <1>4, Zenon DEF Library!Objects
<1> HIDE DEF c
<1>6. /\ d \in Library!Objects /\ d.sw /\ d.codec = c.codec /\ d.df /\ d.dsa = c.dsa /\ d.cypher
      /\ d.uds = c.codec
      /\ d.logger = c.logger /\ d.flush = c.flush /\ d.sched = c.sched
      /\ d.pool = c.pool /\ d.regions = c.regions /\ d.user = c.user
  BY <1>5 DEF Library!Objects
<1> HIDE DEF d, r
<1>7. i \in BOOLEAN
  OBVIOUS
<1> HIDE DEF i
<1>8. /\ r \in Library!Objects /\ r.sw /\ r.codec = d.codec /\ r.df /\ r.dsa = d.dsa /\ r.cypher
      /\ r.uds = d.uds /\ r.inited = i
      /\ r.logger = d.logger /\ r.flush = d.flush /\ r.sched = d.sched
      /\ r.pool = d.pool /\ r.regions = d.regions /\ r.user = d.user
  BY <1>1, <1>6, <1>7 DEF Library!Objects
<1>9. r.codec <=> o.qat /\ fail # "codec"
  BY <1>3, <1>4, <1>5, <1>6, <1>8, Zenon
<1>10. /\ r.uds = r.codec /\ r.dsa = o.dsa /\ r.logger = u.logger /\ r.flush = u.flush
       /\ r.sched = u.sched /\ r.pool = u.pool /\ r.regions = u.regions /\ r.user = u.user
  BY <1>3, <1>4, <1>5, <1>6, <1>8, ZenonT(40)
<1>11. Sound(r)
  BY <1>2, <1>8, <1>9, <1>10, Zenon DEF Sound
<1>12. r.inited => Whole(r, o)
  BY <1>2, <1>8, <1>9, <1>10, Zenon DEF Whole, i
<1> QED BY <1>8, <1>11, <1>12, Zenon DEF r

\* Init up to its return leaves nothing dangling, and if it succeeds everything is there.
LEMMA StartedWhole ==
    ASSUME NEW s \in Library!Objects, NEW o \in Library!Options, NEW fail, Sound(s), ~s.inited
    PROVE  LET r == Library!Started(s, o, fail)
           IN  r \in Library!Objects /\ Sound(r) /\ (r.inited => Whole(r, o))
<1> DEFINE l == Library!InitLogging(s, fail)
           t == [l EXCEPT !.sched = TRUE]
           p == IF o.pool THEN Library!Preallocate(t, fail) ELSE t
           u == [p EXCEPT !.user = p.user \/ o.qat \/ o.cypher]
           r == Library!Started(s, o, fail)
<1>1. o.pool \in BOOLEAN /\ o.qat \in BOOLEAN /\ o.dsa \in BOOLEAN /\ o.cypher \in BOOLEAN
  BY DEF Library!Options
<1>2. /\ l \in Library!Objects
      /\ l.codec = s.codec /\ l.uds = s.uds /\ l.user = s.user /\ l.pool = s.pool /\ l.regions = s.regions
      /\ l.dsa = s.dsa /\ l.df = s.df /\ l.inited = s.inited
      /\ l.flush => l.logger = "set"
      /\ ~Library!LoggingFails(s, fail) => l.flush
  <2>1. CASE fail = "settings"
    BY <2>1, Zenon DEF Library!InitLogging, Library!LoggingFails, Sound
  <2>2. CASE fail # "settings" /\ Library!LoggingFails(s, fail)
    <3>1. l = [s EXCEPT !.logger = "set"]
      BY <2>2, Zenon DEF Library!InitLogging
    <3> HIDE DEF l
    <3> QED BY <2>2, <3>1 DEF Library!Objects
  <2>3. CASE fail # "settings" /\ ~Library!LoggingFails(s, fail)
    <3>1. l = [s EXCEPT !.logger = "set", !.registered = TRUE, !.flush = TRUE]
      BY <2>3, Zenon DEF Library!InitLogging
    <3> HIDE DEF l
    <3> QED BY <2>3, <3>1, Zenon DEF Library!Objects
  <2> QED BY <2>1, <2>2, <2>3, Zenon
<1> HIDE DEF l
<1>3. /\ t \in Library!Objects /\ t.sched
      /\ t.codec = l.codec /\ t.uds = l.uds /\ t.user = l.user /\ t.pool = l.pool /\ t.regions = l.regions
      /\ t.dsa = l.dsa /\ t.df = l.df /\ t.inited = l.inited
      /\ t.flush = l.flush /\ t.logger = l.logger
  BY <1>2, Zenon DEF Library!Objects
<1> HIDE DEF t
<1>4. /\ p \in Library!Objects /\ p.sched
      /\ p.codec = t.codec /\ p.uds = t.uds /\ p.user = t.user
      /\ p.dsa = t.dsa /\ p.df = t.df /\ p.inited = t.inited
      /\ p.flush = t.flush /\ p.logger = t.logger
      /\ t.pool => p.pool
      /\ p.pool => ~p.regions \/ (p.regions = t.regions /\ t.pool)
      /\ o.pool /\ ~Library!PoolFails(s, o, fail) => p.pool
  <2>1. CASE ~o.pool \/ t.pool
    <3>1. p = t
      BY <2>1, Zenon DEF Library!Preallocate
    <3> HIDE DEF p
    <3> QED BY <1>2, <1>3, <2>1, <3>1, Zenon
  <2>2. CASE o.pool /\ ~t.pool
    <3> DEFINE ok == fail \notin {"pool", "prealloc"}
               g == IF fail = "pool" THEN t.regions ELSE fail = "prealloc"
    <3>1. p = [t EXCEPT !.pool = ok, !.regions = g]
      BY <2>2, Zenon DEF Library!Preallocate
    <3>2. ok \in BOOLEAN /\ g \in BOOLEAN /\ (ok => ~g)
      BY <1>3 DEF Library!Objects
    <3>3. o.pool /\ ~Library!PoolFails(s, o, fail) => ok
      BY <1>2, <1>3, <2>2, Zenon DEF Library!PoolFails
    <3> HIDE DEF p, ok, g
    <3>4. /\ p \in Library!Objects /\ p.pool = ok /\ p.regions = g /\ p.sched = t.sched
          /\ p.codec = t.codec /\ p.uds = t.uds /\ p.user = t.user
          /\ p.dsa = t.dsa /\ p.df = t.df /\ p.inited = t.inited
          /\ p.flush = t.flush /\ p.logger = t.logger
      BY <1>3, <3>1, <3>2, ZenonT(40) DEF Library!Objects
    <3> QED BY <1>3, <2>2, <3>2, <3>3, <3>4, Zenon
  <2> QED BY <2>1, <2>2, Zenon
<1> HIDE DEF p
<1>5. /\ u \in Library!Objects /\ u.sched
      /\ (u.user <=> p.user \/ o.qat \/ o.cypher) /\ u.pool = p.pool /\ u.regions = p.regions
      /\ u.flush = p.flush /\ u.logger = p.logger
  BY <1>1, <1>4 DEF Library!Objects
<1> HIDE DEF u
<1>6. Sound(l) /\ ~l.inited
  BY <1>2, Zenon DEF Sound
<1>7. Sound(t) /\ ~t.inited
  BY <1>3, <1>6, Zenon DEF Sound
<1>8. Sound(p) /\ ~p.inited
  BY <1>4, <1>7, Zenon DEF Sound
<1>9. \/ r = l
      \/ r = t
      \/ r = p
      \/ /\ ~Library!LoggingFails(s, fail)
         /\ ~(~o.pool /\ (o.qat \/ o.cypher \/ o.dsa))
         /\ ~Library!PoolFails(s, o, fail)
         /\ r = Library!Codecs(u, o, fail)
  BY Zenon DEF Library!Started, l, t, p, u
<1> HIDE DEF r
<1>10. CASE /\ ~Library!LoggingFails(s, fail)
            /\ ~(~o.pool /\ (o.qat \/ o.cypher \/ o.dsa))
            /\ ~Library!PoolFails(s, o, fail)
            /\ r = Library!Codecs(u, o, fail)
  <2>1. u.flush /\ u.logger = "set"
    BY <1>2, <1>3, <1>4, <1>5, <1>10, Zenon
  <2>2. /\ o.pool => u.pool
        /\ o.qat \/ o.cypher => u.user
        /\ o.qat \/ o.cypher \/ o.dsa => u.pool
        /\ u.user => u.pool
        /\ u.pool => ~u.regions
    BY <1>1, <1>4, <1>5, <1>8, <1>10, Zenon DEF Sound
  <2> QED BY <1>5, <1>10, <2>1, <2>2, CodecsWhole, Zenon DEF r
<1> QED BY <1>2, <1>3, <1>4, <1>6, <1>7, <1>8, <1>9, <1>10, Zenon DEF r

\* The invariant in terms of the objects
LibraryParts ==
    /\ y_sys \in Library!Objects /\ y_opts \in Library!Options
    /\ y_returned \in [call : {"none", "Init", "Uninit"}, ok : BOOLEAN, finished : BOOLEAN]
    /\ Sound(y_sys)
    /\ ~y_sys.inited /\ y_returned.finished /\ ~y_sys.crashed =>
          Library!NothingRuns(y_sys)
    /\ y_sys.inited /\ y_returned.finished => Whole(y_sys, y_opts)

\* The invariant, as the conjunction the steps preserve one by one.
LEMMA LibraryInParts == LibraryInvariant <=> LibraryParts
  BY Zenon DEF LibraryInvariant, LibraryParts, Library!TypeOK, Library!AllOrNothing,
       Library!NothingDangles, Library!EnginesOwned, Sound, Whole

\* Before the first Init nothing exists.
LEMMA LibraryInit == Library!Init => LibraryParts
<1> SUFFICES ASSUME Library!Init PROVE LibraryParts
  OBVIOUS
<1> DEFINE d == [Library!Clean EXCEPT !.logger = "default"]
<1>1. /\ y_sys = d
      /\ y_opts = [pool |-> FALSE, qat |-> FALSE, dsa |-> FALSE, cypher |-> FALSE]
      /\ y_returned = [call |-> "none", ok |-> TRUE, finished |-> TRUE]
  BY Zenon DEF Library!Init
<1>2. /\ d \in Library!Objects /\ ~d.codec /\ ~d.uds /\ ~d.dsa /\ ~d.flush /\ ~d.user /\ ~d.inited
      /\ ~d.pool
  BY Zenon DEF Library!Clean, Library!Objects
<1>5. Library!NothingRuns(d)
  <2>1. d.logger # "set"
    BY DEF Library!Clean
  <2>2. Stopped(d) /\ ~d.registered /\ ~d.crashed
    BY Zenon DEF Library!Clean, Stopped
  <2> HIDE DEF d
  <2> QED BY <1>2, <2>1, <2>2, NothingLeft, Zenon
<1> HIDE DEF d
<1>3. y_opts \in Library!Options
  BY <1>1 DEF Library!Options
<1>4. y_returned \in [call : {"none", "Init", "Uninit"}, ok : BOOLEAN, finished : BOOLEAN]
  BY <1>1
<1> QED BY <1>1, <1>2, <1>3, <1>4, <1>5, Zenon DEF LibraryParts, Sound

\* What UninitImpl leaves keeps the invariant, if returned says whether it got to its end.
LEMMA UninitKeeps ==
    ASSUME NEW s \in Library!Objects, NEW stop \in BOOLEAN, Sound(s),
           NEW o \in Library!Options, NEW finished \in BOOLEAN,
           finished <=> ~Library!UserStopFails(s, stop)
    PROVE  LET t == Library!UninitImpl(s, stop)
           IN  /\ t \in Library!Objects /\ Sound(t)
               /\ ~t.inited /\ finished /\ ~t.crashed => Library!NothingRuns(t)
               /\ t.inited => ~finished
<1> DEFINE t == Library!UninitImpl(s, stop)
<1>1. s.dsa => s.df
  BY Zenon DEF Sound
<1>2. /\ t \in Library!Objects /\ Stopped(t)
      /\ Library!UserStopFails(s, stop) =>
            /\ t.logger = s.logger /\ t.registered = s.registered
            /\ t.flush = s.flush /\ t.pool = s.pool /\ t.regions = s.regions /\ t.user = s.user
            /\ t.inited = s.inited
      /\ ~Library!UserStopFails(s, stop) =>
            /\ t.logger = "null" /\ ~t.registered /\ ~t.flush /\ ~t.pool
            /\ ~t.user /\ ~t.inited
  BY <1>1, UninitStops, Zenon
<1> HIDE DEF t
<1>3. Sound(t)
  BY <1>2, Zenon DEF Sound, Stopped
<1>5. t.logger = "null" => t.logger # "set"
  OBVIOUS
<1>4. ~t.inited /\ finished /\ ~t.crashed => Library!NothingRuns(t)
  BY <1>2, <1>5, NothingLeft, Zenon
<1> QED BY <1>2, <1>3, <1>4, Zenon DEF t

\* vesal::Uninit
LEMMA LibraryUninit ==
    ASSUME NEW stop \in BOOLEAN, LibraryParts, Library!Uninit(stop)
    PROVE  LibraryParts'
<1> DEFINE ok == ~y_sys.inited \/ ~Library!UserStopFails(y_sys, stop)
           f == IF y_sys.inited THEN ok ELSE y_returned.finished
           t == Library!UninitImpl(y_sys, stop)
<1>1. /\ y_sys \in Library!Objects /\ y_opts \in Library!Options
      /\ y_returned \in [call : {"none", "Init", "Uninit"}, ok : BOOLEAN, finished : BOOLEAN]
      /\ Sound(y_sys)
  BY Zenon DEF LibraryParts
<1>2. /\ y_sys' = IF y_sys.inited THEN t ELSE y_sys
      /\ y_returned' = [call |-> "Uninit", ok |-> ok, finished |-> f]
      /\ y_opts' = y_opts
  BY Zenon DEF Library!Uninit
<1>3. y_returned.finished \in BOOLEAN /\ ok \in BOOLEAN /\ y_sys.inited \in BOOLEAN
  BY <1>1 DEF Library!Objects
<1>4. f \in BOOLEAN
  BY <1>3, Zenon
<1>5. y_sys.inited => (f <=> ~Library!UserStopFails(y_sys, stop))
  BY Zenon
<1>6. ~y_sys.inited => f = y_returned.finished
  BY Zenon
<1> HIDE DEF ok, f, t
<1>7. /\ y_returned' \in [call : {"none", "Init", "Uninit"}, ok : BOOLEAN, finished : BOOLEAN]
      /\ y_returned'.finished = f
  BY <1>2, <1>3, <1>4
<1>8. CASE y_sys.inited
  <2>1. /\ t \in Library!Objects /\ Sound(t)
        /\ ~t.inited /\ f /\ ~t.crashed => Library!NothingRuns(t)
        /\ t.inited => ~f
    BY <1>1, <1>4, <1>5, <1>8, UninitKeeps, Zenon DEF t
  <2>2. y_sys' = t
    BY <1>2, <1>8, Zenon
  <2> QED BY <1>1, <1>2, <1>7, <2>1, <2>2, Zenon DEF LibraryParts
<1>9. CASE ~y_sys.inited
  <2>1. y_sys' = y_sys /\ y_returned'.finished = y_returned.finished
    BY <1>2, <1>6, <1>7, <1>9, Zenon
  <2> QED BY <1>2, <1>7, <2>1, Zenon DEF LibraryParts
<1> QED BY <1>8, <1>9, Zenon

\* vesal::Init
LEMMA LibraryInitCall ==
    ASSUME NEW o \in Library!Options, NEW fail, NEW stop \in BOOLEAN, LibraryParts,
           Library!InitCall(o, fail, stop)
    PROVE  LibraryParts'
<1> DEFINE s == Library!Started(y_sys, o, fail)
           u == Library!UninitImpl(s, stop)
           t == IF ~s.inited THEN u ELSE s
           f == IF y_sys.inited THEN y_returned.finished
                ELSE ~(~s.inited /\ Library!UserStopFails(s, stop))
           ok == y_sys.inited \/ s.inited
<1>1. /\ y_sys \in Library!Objects /\ y_opts \in Library!Options
      /\ y_returned \in [call : {"none", "Init", "Uninit"}, ok : BOOLEAN, finished : BOOLEAN]
      /\ Sound(y_sys)
  BY Zenon DEF LibraryParts
<1>2. /\ y_sys' = IF y_sys.inited THEN y_sys ELSE t
      /\ y_returned' = [call |-> "Init", ok |-> ok, finished |-> f]
      /\ y_opts' = IF ~y_sys.inited /\ s.inited THEN o ELSE y_opts
  BY Zenon DEF Library!InitCall, Library!NeedsCleanup
<1>3. y_returned.finished \in BOOLEAN /\ ok \in BOOLEAN
  BY <1>1
<1>4. f \in BOOLEAN
  BY <1>3, Zenon
<1>5. y_sys.inited => f = y_returned.finished
  BY Zenon
<1>6. ~y_sys.inited => (f <=> s.inited \/ ~Library!UserStopFails(s, stop))
  BY Zenon
<1> HIDE DEF s, u, f, ok
<1>7. /\ y_returned' \in [call : {"none", "Init", "Uninit"}, ok : BOOLEAN, finished : BOOLEAN]
      /\ y_returned'.finished = f
  BY <1>2, <1>3, <1>4
<1>8. CASE y_sys.inited
  <2>1. y_sys' = y_sys /\ y_returned'.finished = y_returned.finished /\ y_opts' = y_opts
    BY <1>2, <1>5, <1>7, <1>8, Zenon
  <2> QED BY <1>7, <2>1, Zenon DEF LibraryParts
<1>9. CASE ~y_sys.inited
  <2>1. s \in Library!Objects /\ Sound(s) /\ (s.inited => Whole(s, o))
    BY <1>1, <1>9, StartedWhole, Zenon DEF s
  <2>2. CASE s.inited
    <3>1. y_sys' = s /\ y_opts' = o
      BY <1>2, <1>9, <2>2, Zenon
    <3> QED BY <1>7, <2>1, <2>2, <3>1, Zenon DEF LibraryParts
  <2>3. CASE ~s.inited
    <3>1. y_sys' = u /\ y_opts' = y_opts
      BY <1>2, <1>9, <2>3, Zenon
    <3>2. /\ u \in Library!Objects /\ Sound(u)
          /\ ~u.inited /\ f /\ ~u.crashed => Library!NothingRuns(u)
          /\ u.inited => ~f
      BY <1>1, <1>4, <1>6, <1>9, <2>1, <2>3, UninitKeeps, Zenon DEF u
    <3> QED BY <1>1, <1>7, <3>1, <3>2, Zenon DEF LibraryParts
  <2> QED BY <2>2, <2>3, Zenon
<1> QED BY <1>8, <1>9, Zenon

\* Init, its failures and Uninit keep the library whole.
LEMMA LibraryStep == LibraryInvariant /\ [Library!Next]_(Library!vars) => LibraryInvariant'
<1>1. LibraryParts /\ UNCHANGED Library!vars => LibraryParts'
  BY Zenon DEF Library!vars, LibraryParts, Sound, Whole
<1>2. LibraryParts /\ Library!Next => LibraryParts'
  BY LibraryInitCall, LibraryUninit, Zenon DEF Library!Next
<1>3. LibraryParts /\ [Library!Next]_(Library!vars) => LibraryParts'
  BY <1>1, <1>2, Zenon
<1> QED BY <1>3, LibraryInParts, PTL

\* However often and with whatever options Init and Uninit are called, and whichever part
\* of Init fails: after a call the library is up with every part the options ask for or,
\* unless QatUserStop failed, nothing of it is left but the regions of a Preallocate that
\* failed; and no part outlives the one it uses (Init, UninitImpl).
THEOREM LibraryStaysWhole ==
    Library!Spec => [](Library!AllOrNothing /\ Library!NothingDangles)
<1>1. Library!Init => LibraryInvariant
  BY LibraryInit, LibraryInParts, Zenon
<1>2. LibraryInvariant => Library!AllOrNothing /\ Library!NothingDangles
  BY Zenon DEF LibraryInvariant
<1> QED BY <1>1, <1>2, LibraryStep, PTL DEF Library!Spec
=============================================================================
