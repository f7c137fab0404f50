----------------------------- MODULE FifoQueue -----------------------------
(***************************************************************************)
(* What MPSCQueue (src/src/common/mpsc_queue.h) promises its users: a FIFO  *)
(* queue whose operations take effect at once.  answers is what the         *)
(* consumer has been told, by Pop and by Empty.                             *)
(***************************************************************************)
EXTENDS Sequences

CONSTANTS Elems,   \* elements that can be pushed
          Nothing  \* Pop's answer when it returns false

VARIABLES queue, answers

Init == queue = <<>> /\ answers = <<>>

Push(e) == queue' = Append(queue, e) /\ UNCHANGED answers

PopOne == /\ queue # <<>>
          /\ queue' = Tail(queue)
          /\ answers' = Append(answers, [op |-> "pop", r |-> Head(queue)])

PopNothing == /\ queue = <<>>
              /\ answers' = Append(answers, [op |-> "pop", r |-> Nothing])
              /\ UNCHANGED queue

Empty == /\ answers' = Append(answers, [op |-> "empty", r |-> queue = <<>>])
         /\ UNCHANGED queue

Next == (\E e \in Elems : Push(e)) \/ PopOne \/ PopNothing \/ Empty

Spec == Init /\ [][Next]_<<queue, answers>>
=============================================================================
