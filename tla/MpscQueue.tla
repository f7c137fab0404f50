----------------------------- MODULE MpscQueue -----------------------------
(***************************************************************************)
(* MPSCQueue (src/src/common/mpsc_queue.h): a linked queue with many        *)
(* producers and one consumer, which the shared mode uses to hand tasks to  *)
(* its poller threads.  Every load, store and exchange of a shared field is *)
(* a step.  Nodes are numbered in the order of the exchanges and stand for  *)
(* the elements they carry; 0 is nullptr.                                   *)
(***************************************************************************)
EXTENDS Integers, Sequences, FiniteSets

CONSTANTS
    Producers,  \* threads that push
    SizeMod,    \* 2 to the width of size_t
    MaxNode,    \* bound: the last node allocated
    MaxAnswers  \* bound: calls of the consumer

ASSUME SizeAssumption == SizeMod \in Nat \ {0}
ASSUME BoundAssumption == MaxNode \in Nat \ {0} /\ MaxAnswers \in Nat

VARIABLES
    head, tail, next, size,  \* the fields; next covers every node
    node,                    \* the last node allocated
    freed,                   \* nodes deleted
    ppc, pnode, oldhead,     \* the producers: inside Push
    cpc, nextTail,           \* the consumer: inside Pop or Empty
    queue,                   \* history: nodes pushed (exchanged) and not popped
    answers                  \* history: what Pop and Empty returned

nodeVars == <<head, next, node>>
prodVars == <<ppc, pnode, oldhead>>
consVars == <<tail, freed, cpc, nextTail, answers>>
vars == <<nodeVars, prodVars, consVars, size, queue>>

null == 0
Nodes == 1 .. MaxNode

Init ==
    /\ node = 1 /\ head = 1 /\ tail = 1
    /\ next = [n \in Nodes |-> null]
    /\ size = 0
    /\ freed = {}
    /\ ppc = [p \in Producers |-> "idle"]
    /\ pnode = [p \in Producers |-> null]
    /\ oldhead = [p \in Producers |-> null]
    /\ cpc = "idle" /\ nextTail = null
    /\ queue = <<>> /\ answers = <<>>

(***************************************************************************)
(* Push                                                                     *)
(***************************************************************************)
\* A new node, and head_.exchange.
PushExchange(p) ==
    /\ ppc[p] = "idle" /\ node < MaxNode
    /\ node' = node + 1
    /\ oldhead' = [oldhead EXCEPT ![p] = head]
    /\ head' = node + 1
    /\ pnode' = [pnode EXCEPT ![p] = node + 1]
    /\ ppc' = [ppc EXCEPT ![p] = "link"]
    /\ queue' = Append(queue, node + 1)
    /\ UNCHANGED <<next, size, consVars>>

\* Mutant: the new node is linked to what head_ is now.
PushLinkHead(p) ==
    /\ ppc[p] = "link"
    /\ next' = [next EXCEPT ![head] = pnode[p]]
    /\ ppc' = [ppc EXCEPT ![p] = "count"]
    /\ UNCHANGED <<head, node, pnode, oldhead, size, consVars, queue>>

\* oldhead->next.store
PushLink(p) ==
    /\ ppc[p] = "link"
    /\ next' = [next EXCEPT ![oldhead[p]] = pnode[p]]
    /\ ppc' = [ppc EXCEPT ![p] = "count"]
    /\ UNCHANGED <<head, node, pnode, oldhead, size, consVars, queue>>

\* size_.fetch_add
PushCount(p) ==
    /\ ppc[p] = "count"
    /\ size' = (size + 1) % SizeMod
    /\ ppc' = [ppc EXCEPT ![p] = "idle"]
    /\ UNCHANGED <<nodeVars, pnode, oldhead, consVars, queue>>

(***************************************************************************)
(* Pop                                                                      *)
(***************************************************************************)
\* currentTail->next.load
PopLoad ==
    /\ cpc = "idle" /\ Len(answers) < MaxAnswers
    /\ nextTail' = next[tail]
    /\ cpc' = IF next[tail] = null THEN "check" ELSE "take"
    /\ UNCHANGED <<nodeVars, prodVars, tail, freed, answers, size, queue>>

\* Mutant: a null next pointer is taken for an empty queue.
PopCheckNext ==
    /\ cpc = "check"
    /\ cpc' = "idle" /\ answers' = Append(answers, [op |-> "pop", r |-> null])
    /\ UNCHANGED <<nodeVars, prodVars, tail, freed, nextTail, size, queue>>

\* head_.load: is the queue empty, or a producer about to link its node?
PopCheck ==
    /\ cpc = "check"
    /\ IF head = tail
       THEN cpc' = "idle" /\ answers' = Append(answers, [op |-> "pop", r |-> null])
       ELSE cpc' = "spin" /\ UNCHANGED answers
    /\ UNCHANGED <<nodeVars, prodVars, tail, freed, nextTail, size, queue>>

\* Mutant: the loop tests what was loaded before it.
PopSpinStale ==
    /\ cpc = "spin" /\ nextTail # null
    /\ cpc' = "take"
    /\ UNCHANGED <<nodeVars, prodVars, tail, freed, nextTail, answers, size, queue>>

\* The last round of the spin-wait.
PopSpin ==
    /\ cpc = "spin" /\ next[tail] # null
    /\ nextTail' = next[tail]
    /\ cpc' = "take"
    /\ UNCHANGED <<nodeVars, prodVars, tail, freed, answers, size, queue>>

\* Mutant: the element of the stub is handed out.
PopTakeStub ==
    /\ cpc = "take"
    /\ next' = [next EXCEPT ![tail] = null]
    /\ answers' = Append(answers, [op |-> "pop", r |-> tail])
    /\ tail' = nextTail
    /\ freed' = freed \cup {tail}
    /\ queue' = Tail(queue)
    /\ cpc' = "count"
    /\ UNCHANGED <<head, node, prodVars, nextTail, size>>
\* Mutant: the node whose element was taken is deleted with the stub.
PopTakeFreesNext ==
    /\ cpc = "take"
    /\ next' = [next EXCEPT ![tail] = null]
    /\ answers' = Append(answers, [op |-> "pop", r |-> nextTail])
    /\ tail' = nextTail
    /\ freed' = freed \cup {tail, nextTail}
    /\ queue' = Tail(queue)
    /\ cpc' = "count"
    /\ UNCHANGED <<head, node, prodVars, nextTail, size>>

\* The element of the next node is taken, that node becomes the stub and the
\* old stub is deleted.
PopTake ==
    /\ cpc = "take"
    /\ next' = [next EXCEPT ![tail] = null]
    /\ answers' = Append(answers, [op |-> "pop", r |-> nextTail])
    /\ tail' = nextTail
    /\ freed' = freed \cup {tail}
    /\ queue' = Tail(queue)
    /\ cpc' = "count"
    /\ UNCHANGED <<head, node, prodVars, nextTail, size>>

\* Mutant: size_ stops at zero.
PopCountStops ==
    /\ cpc = "count"
    /\ size' = IF size = 0 THEN 0 ELSE size - 1
    /\ cpc' = "idle"
    /\ UNCHANGED <<nodeVars, prodVars, tail, freed, nextTail, answers, queue>>

\* size_.fetch_sub
PopCount ==
    /\ cpc = "count"
    /\ size' = (size - 1) % SizeMod
    /\ cpc' = "idle"
    /\ UNCHANGED <<nodeVars, prodVars, tail, freed, nextTail, answers, queue>>

(***************************************************************************)
(* Empty: head_ is only loaded when the next pointer is null.               *)
(***************************************************************************)
EmptyLoad ==
    /\ cpc = "idle" /\ Len(answers) < MaxAnswers
    /\ IF next[tail] = null
       THEN cpc' = "empty" /\ UNCHANGED answers
       ELSE /\ answers' = Append(answers, [op |-> "empty", r |-> FALSE])
            /\ UNCHANGED cpc
    /\ UNCHANGED <<nodeVars, prodVars, tail, freed, nextTail, size, queue>>

EmptyCheck ==
    /\ cpc = "empty"
    /\ answers' = Append(answers, [op |-> "empty", r |-> head = tail])
    /\ cpc' = "idle"
    /\ UNCHANGED <<nodeVars, prodVars, tail, freed, nextTail, size, queue>>

Push(p) == PushExchange(p) \/ PushLink(p) \/ PushCount(p)
Pop == PopLoad \/ PopCheck \/ PopSpin \/ PopTake \/ PopCount
Empty == EmptyLoad \/ EmptyCheck

Next == (\E p \in Producers : Push(p)) \/ Pop \/ Empty

Spec == Init /\ [][Next]_vars

\* A producer that has started a Push ends it, and the consumer goes on.
FairSpec == /\ Spec
            /\ \A p \in Producers : WF_vars(PushLink(p) \/ PushCount(p))
            /\ WF_vars(Pop)

-----------------------------------------------------------------------------
Answers == [op : {"pop"}, r : Nat] \cup [op : {"empty"}, r : BOOLEAN]

\* The types of the fields and of the threads' locals.
TypeOK ==
    /\ node \in Nodes /\ head \in Nodes /\ tail \in Nodes
    /\ next \in [Nodes -> Nodes \cup {null}]
    /\ size \in 0 .. SizeMod - 1
    /\ freed \subseteq Nodes
    /\ ppc \in [Producers -> {"idle", "link", "count"}]
    /\ pnode \in [Producers -> Nodes \cup {null}]
    /\ oldhead \in [Producers -> Nodes \cup {null}]
    /\ cpc \in {"idle", "check", "spin", "take", "count", "empty"}
    /\ nextTail \in Nodes \cup {null}
    /\ queue \in Seq(Nodes)
    /\ answers \in Seq(Answers)

\* A producer that was switched out between its exchange and its link still
\* writes to a live node, however far the consumer has gone, and the consumer
\* never stands on a deleted one.
NoUseAfterFree ==
    /\ tail \notin freed /\ head \notin freed
    /\ \A p \in Producers : ppc[p] = "link" => oldhead[p] \notin freed

\* The nodes from the stub tail_ to head_ are the stub and the queue, in order;
\* every earlier node is deleted.
QueueInOrder ==
    /\ head = node
    /\ node = tail + Len(queue)
    /\ \A i \in DOMAIN queue : queue[i] = tail + i
    /\ freed = 1 .. tail - 1

\* A walk from tail_ meets the queue, cut only where a producer has not linked
\* its node yet; every cut belongs to one producer.
Links ==
    /\ \A n \in Nodes : n >= node => next[n] = null
    /\ \A n \in tail .. node - 1 :
          \/ next[n] = n + 1
          \/ next[n] = null /\ \E p \in Producers : ppc[p] = "link" /\ oldhead[p] = n
    /\ \A p \in Producers : ppc[p] = "link" =>
          /\ oldhead[p] \in tail .. node - 1
          /\ pnode[p] = oldhead[p] + 1
          /\ next[oldhead[p]] = null
    /\ \A p, q \in Producers :
          ppc[p] = "link" /\ ppc[q] = "link" /\ oldhead[p] = oldhead[q] => p = q

\* What the consumer has read stays true until it acts on it.
ConsumerReads ==
    /\ cpc = "take" => queue # <<>> /\ nextTail = tail + 1 /\ next[tail] = nextTail
    /\ cpc = "spin" => queue # <<>>

\* What the properties rest on (proved in ConcurrencyProofs): the order of the
\* nodes, the links between them and the consumer's reads fit together after
\* every step of Push, Pop and Empty.
InductiveInvariant == TypeOK /\ QueueInOrder /\ Links /\ ConsumerReads

\* size_ is updated after the list, so Size may be read too low, even wrapped
\* around below zero; when no call is under way it is the length of the queue.
QuiescentSize ==
    (cpc # "count" /\ \A p \in Producers : ppc[p] = "idle")
        => size = Len(queue) % SizeMod

\* What makes it inductive: size_ lacks the pushes under way and has the pop that is
\* under way too many, modulo 2 to its width.
InPush == {p \in Producers : ppc[p] # "idle"}
SizeCounted ==
    /\ IsFiniteSet(InPush)
    /\ size = (Len(queue) - Cardinality(InPush) + IF cpc = "count" THEN 1 ELSE 0) % SizeMod

\* The queue is linearizable: Push takes effect at the exchange, Pop and Empty
\* where they answer; nothing is lost, duplicated or reordered and Pop returns
\* false only if the queue is empty.
Fifo == INSTANCE FifoQueue WITH Elems <- Nodes, Nothing <- null
FifoSpec == Fifo!Spec

\* "Eventually we'll unblock the consumer" (mpsc_queue.h): the spin-wait ends.
PopReturns == cpc = "spin" ~> cpc = "idle"
=============================================================================
