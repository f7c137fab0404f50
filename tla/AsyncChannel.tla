---------------------------- MODULE AsyncChannel ----------------------------
(***************************************************************************)
(* What an asynchronous channel promises its user (include/vesal/codec.h,   *)
(* SubmitAsync and Poll): an accepted request is delivered at most once,    *)
(* and requests are delivered in the order in which they were accepted.     *)
(***************************************************************************)
EXTENDS Integers, Sequences

VARIABLES accepted,   \* number of requests accepted so far
          delivered   \* the requests handed back, in the order of delivery

vars == <<accepted, delivered>>

Init == accepted = 0 /\ delivered = <<>>

Submit == accepted' = accepted + 1 /\ UNCHANGED delivered

\* One call of Poll hands back the next requests.
Poll == \E n \in Len(delivered) + 1 .. accepted :
            /\ delivered' = [i \in 1 .. n |-> IF i <= Len(delivered) THEN delivered[i] ELSE i]
            /\ UNCHANGED accepted

Next == Submit \/ Poll

Spec == Init /\ [][Next]_vars
=============================================================================
