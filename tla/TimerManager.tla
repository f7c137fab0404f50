---------------------------- MODULE TimerManager ----------------------------
(***************************************************************************)
(* TimerManager (src/src/common/timer_manager.{h,cc}): a doubly linked list *)
(* of timers in the order they were added.  A channel has two managers: the *)
(* callback of the first ("req": a request times out) adds a timer to the   *)
(* second ("mem": its memory may be freed).  Their nodes come from one pool *)
(* of the thread, so that a node just returned by one is used by the other. *)
(***************************************************************************)
EXTENDS Integers, Sequences, Functions

CONSTANTS Nodes,    \* TimeoutContext objects of the thread's pool
          NoNode,   \* nullptr
          Timeout,  \* timeout_ts_ of each manager
          MaxTime   \* bound of the clock

Managers == {"req", "mem"}

\* nullptr is no node, and a timeout is a number of ticks.
ConstantsOK == NoNode \notin Nodes /\ Timeout \in [Managers -> Nat]

VARIABLES
    list,      \* [next, prev, fired: fields of the nodes; head, tail: fields of the managers]
    free,      \* nodes in the pool
    now,
    handling,  \* the managers whose HandleTimeout runs, with the time it read
    clearing,  \* the managers whose ClearAndGetUserArg runs
    added      \* history: the timers of each manager, oldest first

vars == <<list, free, now, handling, clearing, added>>

Init ==
    /\ list = [next |-> [n \in Nodes |-> NoNode], prev |-> [n \in Nodes |-> NoNode],
               fired |-> [n \in Nodes |-> 0],
               head |-> [m \in Managers |-> NoNode], tail |-> [m \in Managers |-> NoNode]]
    /\ free = Nodes /\ now = 0 /\ handling = {} /\ clearing = {}
    /\ added = [m \in Managers |-> <<>>]

\* TimeoutContext::Reset, before the node is returned
Reset(l, n) == [l EXCEPT !.next[n] = NoNode, !.prev[n] = NoNode]

\* Mutant: a new timer becomes the head.
AddFirst(l, m, n) ==
    LET t == [l EXCEPT !.fired[n] = now + Timeout[m], !.head[m] = n]
    IN  IF l.head[m] = NoNode THEN [t EXCEPT !.tail[m] = n]
        ELSE [t EXCEPT !.prev[l.head[m]] = n, !.next[n] = l.head[m]]

\* AddTimer, with the node n from the pool
Add(l, m, n) ==
    LET t == [l EXCEPT !.fired[n] = now + Timeout[m], !.tail[m] = n]
    IN  IF l.head[m] = NoNode THEN [t EXCEPT !.head[m] = n]
        ELSE [t EXCEPT !.next[l.tail[m]] = n, !.prev[n] = l.tail[m]]

\* RemoveTimer, up to the Reset
Unlink(l, m, n) ==
    CASE n = l.head[m] /\ n = l.tail[m] -> [l EXCEPT !.head[m] = NoNode, !.tail[m] = NoNode]
      [] n = l.head[m] /\ n # l.tail[m] -> [l EXCEPT !.head[m] = l.next[n], !.prev[l.next[n]] = NoNode]
      [] n # l.head[m] /\ n = l.tail[m] -> [l EXCEPT !.tail[m] = l.prev[n], !.next[l.prev[n]] = NoNode]
      [] OTHER -> [l EXCEPT !.next[l.prev[n]] = l.next[n], !.prev[l.next[n]] = l.prev[n]]

\* No call is under way.
Idle == handling = {} /\ clearing = {}

AddTimer(m, n) ==
    /\ Idle /\ n \in free
    /\ list' = Add(list, m, n)
    /\ free' = free \ {n}
    /\ added' = [added EXCEPT ![m] = Append(@, n)]
    /\ UNCHANGED <<now, handling, clearing>>

\* s without its i-th element
Without(s, i) == [j \in 1 .. Len(s) - 1 |-> IF j < i THEN s[j] ELSE s[j + 1]]

\* RemoveTimer of the i-th of m's timers
Remove(m, i) ==
    LET n == added[m][i]
    IN  /\ list' = Reset(Unlink(list, m, n), n)
        /\ free' = free \cup {n}
        /\ added' = [added EXCEPT ![m] = Without(@, i)]

\* The caller has the context of a timer that was not fired.
RemoveTimer(m, i) ==
    /\ Idle /\ i \in DOMAIN added[m]
    /\ Remove(m, i)
    /\ UNCHANGED <<now, handling, clearing>>

HandleStart(m) ==
    /\ Idle /\ handling' = {[mgr |-> m, now |-> now]}
    /\ UNCHANGED <<list, free, now, clearing, added>>

Due(h) == list.head[h.mgr] # NoNode /\ h.now >= list.fired[list.head[h.mgr]]

\* A turn of the loop: the head is taken out, the callback runs (that of "req" adds a
\* timer to "mem"), then the node is returned.
HandleFire(h) ==
    LET old == list.head[h.mgr]
        taken == [list EXCEPT !.head[h.mgr] = list.next[old]]
        fired == [added EXCEPT ![h.mgr] = Tail(@)]
    IN  /\ h \in handling /\ Due(h)
        /\ \/ /\ h.mgr = "req"
              /\ \E n \in free :
                    /\ list' = Reset(Add(taken, "mem", n), old)
                    /\ free' = (free \ {n}) \cup {old}
                    /\ added' = [fired EXCEPT !["mem"] = Append(@, n)]
           \/ /\ h.mgr = "mem"
              /\ list' = Reset(taken, old)
              /\ free' = free \cup {old}
              /\ added' = fired
        /\ UNCHANGED <<now, handling, clearing>>

\* Mutant: the new head keeps its link to a node that was returned.
HandleEndsUnlinked(h) ==
    /\ h \in handling /\ ~Due(h) /\ handling' = {}
    /\ list' = IF list.head[h.mgr] = NoNode THEN [list EXCEPT !.tail[h.mgr] = NoNode] ELSE list
    /\ UNCHANGED <<free, now, clearing, added>>

HandleEnds(h) ==
    /\ h \in handling /\ ~Due(h) /\ handling' = {}
    /\ list' = IF list.head[h.mgr] = NoNode THEN [list EXCEPT !.tail[h.mgr] = NoNode]
               ELSE [list EXCEPT !.prev[list.head[h.mgr]] = NoNode]
    /\ UNCHANGED <<free, now, clearing, added>>

\* ClearAndGetUserArg: RemoveTimer of the head until there is none
ClearStart(m) ==
    /\ Idle /\ clearing' = {m}
    /\ UNCHANGED <<list, free, now, handling, added>>

ClearHead(m) ==
    /\ m \in clearing /\ list.head[m] # NoNode
    /\ \E i \in DOMAIN added[m] : added[m][i] = list.head[m] /\ Remove(m, i)
    /\ UNCHANGED <<now, handling, clearing>>

ClearEnds(m) ==
    /\ m \in clearing /\ list.head[m] = NoNode /\ clearing' = {}
    /\ UNCHANGED <<list, free, now, handling, added>>

\* The clock runs at any time, also during a HandleTimeout.
Tick == now < MaxTime /\ now' = now + 1 /\ UNCHANGED <<list, free, handling, clearing, added>>

Next ==
    \/ \E m \in Managers : \/ \E n \in Nodes : AddTimer(m, n)
                           \/ \E i \in DOMAIN added[m] : RemoveTimer(m, i)
                           \/ HandleStart(m)
                           \/ ClearStart(m) \/ ClearHead(m) \/ ClearEnds(m)
    \/ \E h \in handling : HandleFire(h) \/ HandleEnds(h)
    \/ Tick

Spec == Init /\ [][Next]_vars
-----------------------------------------------------------------------------
\* The nodes' fields, and the managers'
Lists == [next : [Nodes -> Nodes \cup {NoNode}], prev : [Nodes -> Nodes \cup {NoNode}],
          fired : [Nodes -> Nat],
          head : [Managers -> Nodes \cup {NoNode}], tail : [Managers -> Nodes \cup {NoNode}]]

TypeOK ==
    /\ list \in Lists /\ free \subseteq Nodes /\ now \in Nat
    /\ handling \subseteq [mgr : Managers, now : Nat]
    /\ clearing \subseteq Managers
    /\ added \in [Managers -> Seq(Nodes)]

\* The links of manager m in l, both ways, are exactly the sequence s; while its
\* HandleTimeout runs (open) the new head still has its link to the node taken out
\* before it, and the tail of an emptied list is stale.
Links(l, m, s, open) ==
    /\ l.head[m] = IF s = <<>> THEN NoNode ELSE s[1]
    /\ s # <<>> => l.tail[m] = s[Len(s)]
    /\ s = <<>> /\ ~open => l.tail[m] = NoNode
    /\ \A i \in DOMAIN s :
          /\ l.next[s[i]] = IF i = Len(s) THEN NoNode ELSE s[i + 1]
          /\ i > 1 => l.prev[s[i]] = s[i - 1]
          /\ i = 1 /\ ~open => l.prev[s[i]] = NoNode

\* Between two calls each manager's list is what was added and neither removed nor
\* fired, in this order, and a node of the pool has no links: timers fired in the
\* middle of a list, by a callback that itself adds timers, leave no stale pointer.
TimerLists ==
    handling = {} =>
        /\ \A m \in Managers : Links(list, m, added[m], FALSE)
        /\ \A n \in free : list.next[n] = NoNode /\ list.prev[n] = NoNode

\* HandleTimeout leaves no timer that was due when it started, although it looks at heads
\* only: the order of the list is the order of expiry, whatever was added and removed.
DueTimersFire ==
    \A h \in handling : HandleEnds(h) => \A n \in Range(added'[h.mgr]) : list.fired[n] > h.now

\* Both, at every step of the channel's timers
TimersExact == [][TimerLists' /\ DueTimersFire]_vars
=============================================================================
