----------------------------- MODULE MCDataFlow -----------------------------
(* Two channels and two work queues with room for one request each. *)
EXTENDS DsaDescriptors

CONSTANTS c1, c2

\* The hint of c2 names the second device, and a NUMA node without one.
MCOptions == [c \in Channels |->
    IF c = c1
    THEN {[engine_type |-> "kDsa", order_type |-> "kOrdered", schedule_hint |-> 0],
          [engine_type |-> "kDsa", order_type |-> "kUnordered", schedule_hint |-> 0],
          [engine_type |-> "kSoftware", order_type |-> "kOrdered", schedule_hint |-> 0]}
    ELSE {[engine_type |-> "kDsa", order_type |-> "kOrdered", schedule_hint |-> 1]}]
MCCapacity == <<1, 1>>
MCNuma == <<0, 0>>

Move(segs, crc, overlap) == [type |-> "move", segs |-> segs, crc |-> crc, overlap |-> overlap]
Crc == [type |-> "crc", segs |-> 0, crc |-> TRUE, overlap |-> FALSE]

\* Moves and checksums, overlapping or not.  c1's first request fills the internal
\* batch (of 7); one segment more would be refused.  c2's is one descriptor, which copies
\* and computes the checksum.
MCOps == [c \in Channels |->
    IF c = c1 THEN <<<<Move(2, TRUE, FALSE), Move(1, TRUE, TRUE)>>, <<Crc, Crc>>>>
              ELSE <<<<Move(1, TRUE, FALSE)>>>>]
=============================================================================
