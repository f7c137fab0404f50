----------------------------- MODULE ZstdHelper -----------------------------
(***************************************************************************)
(* The producer of zstd sequences (src/src/codec/zstd_helper/               *)
(* zstd_helper_impl.cc).  A block is compressed to LZ4s by a channel of its *)
(* own into one buffer of the memory pool, and decoded from there.  The     *)
(* channel is modelled by what it answers; the hardware may still write     *)
(* into the buffer of a request that was answered kTimeout, kDropped or     *)
(* kSliceHang (include/vesal/status.h, CanDeallocZeroCopyBuffer).           *)
(*                                                                          *)
(* Decoding itself is in Conversions.                                       *)
(***************************************************************************)
EXTENDS Integers, FiniteSets

CONSTANT MaxReq   \* bound: blocks given to the helper

VARIABLES
    helper,     \* "none", "open", "failed" (Init), "closed"
    data,       \* intermediate_data_: "null" or "held"
    channel,    \* channel_: "null", "open", "fatal", or "left" when Close fails
    at,         \* ProduceZstdSequence: "idle", "polling", "decoding", "crashed"
    nreq,       \* the block in work, or the last one
    late        \* requests that are answered and that the hardware still works on

vars == <<helper, data, channel, at, nreq, late>>

Init ==
    /\ helper = "none" /\ data = "null" /\ channel = "null"
    /\ at = "idle" /\ nreq = 0 /\ late = {}

\* Init: the size is refused, the pool has no block, or no channel can be created, which
\* gives the block back; or all is well.
HelperInit ==
    /\ helper = "none"
    /\ \/ helper' = "failed" /\ UNCHANGED <<data, channel>>
       \/ helper' = "open" /\ data' = "held" /\ channel' = "open"
    /\ UNCHANGED <<at, nreq, late>>

\* ProduceZstdSequence: the block is too large for the buffer, or the channel refuses it.
ProduceFails ==
    /\ helper = "open" /\ at = "idle" /\ nreq < MaxReq
    /\ nreq' = nreq + 1
    /\ UNCHANGED <<helper, data, channel, at, late>>

\* The channel takes the block; also after a Close that could not close it.
ProduceSubmits ==
    /\ helper = "open" /\ at = "idle" /\ nreq < MaxReq /\ channel \in {"open", "left"}
    /\ nreq' = nreq + 1 /\ at' = "polling"
    /\ UNCHANGED <<helper, data, channel, late>>

\* The hardware has written the block, and Poll returns kOk.  After a Close that failed
\* intermediate_data_ is null, and the result is copied to, or decoded from, no memory.
PollOk ==
    /\ at = "polling"
    /\ at' = IF data = "held" THEN "decoding" ELSE "crashed"
    /\ UNCHANGED <<helper, data, channel, nreq, late>>

\* Poll returns another status: the hardware is done with the request, or may not be.
PollFails ==
    /\ at = "polling"
    /\ late' \in {late, late \cup {nreq}}
    /\ at' = "idle"
    /\ UNCHANGED <<helper, data, channel, nreq>>

\* Poll returns -1: the engine has failed, and the channel takes no more requests.
PollFatal ==
    /\ at = "polling"
    /\ channel' = "fatal" /\ late' = late \cup {nreq} /\ at' = "idle"
    /\ UNCHANGED <<helper, data, nreq>>

\* DecodeLz4sToZstdSequence reads the buffer.
DecodeLz4s ==
    /\ at = "decoding"
    /\ at' = "idle"
    /\ UNCHANGED <<helper, data, channel, nreq, late>>

\* The hardware ends a request that was given up.
LateWrite ==
    \E r \in late : late' = late \ {r} /\ UNCHANGED <<helper, data, channel, at, nreq>>

\* Close gives the buffer back first; it may be called again if the channel cannot be closed.
Close ==
    /\ helper = "open" /\ at = "idle"
    /\ data' = "null"
    /\ \/ channel' = "null" /\ helper' = "closed"
       \/ channel # "null" /\ channel' = "left" /\ UNCHANGED helper
    /\ UNCHANGED <<at, nreq, late>>

Next ==
    \/ HelperInit \/ ProduceFails \/ ProduceSubmits \/ PollOk \/ PollFails \/ PollFatal
    \/ DecodeLz4s \/ LateWrite \/ Close

Spec == Init /\ [][Next]_vars

-----------------------------------------------------------------------------

\* A buffer is not used again while the hardware may write into it (include/vesal/status.h
\* on CanDeallocZeroCopyBuffer: "user should hold the hanging buffer and let it leak
\* because the hardware might be touching it").
BufferHeldForHardware == late # {} => data = "held" /\ at # "decoding"
=============================================================================
