-------------------------- MODULE DedicatedChannel --------------------------
(***************************************************************************)
(* A dedicated QAT channel (src/src/codec/qat/qat_codec_dedicated_channel   *)
(* .cc): asynchronous calls go to the engine, synchronous ones are a        *)
(* submission followed by Polls for one result.  One thread uses it.        *)
(*                                                                          *)
(* The engine is the channel that QatEngine is shown to implement: it       *)
(* answers what it accepted once and in order.  Its Poll may also fail.     *)
(***************************************************************************)
EXTENDS Integers, Sequences

CONSTANTS
    MaxInQat,  \* max_in_qat_size_
    MaxReq,    \* bound: requests
    MaxPoll    \* bound of max_num in Poll

VARIABLES
    accepted,  \* requests the engine has accepted
    ready,     \* those among them it has answered
    received,  \* the results its Poll has handed out, in this order
    caller,    \* the request a synchronous call waits for, or NoReq
    syncs,     \* history: [req, alone, res], res = 0 while it waits, -1 for no result
    called     \* history: the results user_cb was called for

vars == <<accepted, ready, received, caller, syncs, called>>

NoReq == 0

Init ==
    /\ accepted = 0 /\ ready = 0 /\ received = <<>>
    /\ caller = NoReq /\ syncs = <<>> /\ called = <<>>

Outstanding == accepted - Len(received)

\* The arguments are valid and the engine takes the request.  A call that fails
\* returns its status and changes nothing here.
CanSubmit == caller = NoReq /\ accepted < MaxReq /\ Outstanding < MaxInQat

\* CompressAsync, CompressSGLAsync, DecompressAsync, DecompressSGLAsync, SubmitAsync
SubmitAsync ==
    /\ CanSubmit
    /\ accepted' = accepted + 1
    /\ UNCHANGED <<ready, received, caller, syncs, called>>

\* Compress, CompressSGL, Decompress, DecompressSGL, Submit: the submission
SyncSubmit ==
    /\ CanSubmit
    /\ accepted' = accepted + 1
    /\ caller' = accepted + 1
    /\ syncs' = Append(syncs, [req |-> accepted + 1, alone |-> Outstanding = 0, res |-> 0])
    /\ UNCHANGED <<ready, received, called>>

\* The device, or a timeout in the engine, answers the next request.
EngineAnswers ==
    /\ ready < accepted
    /\ ready' = ready + 1
    /\ UNCHANGED <<accepted, received, caller, syncs, called>>

\* Poll: the results the engine hands out, and user_cb for each of them
Results(max_num) ==
    LET n == ready - Len(received)
    IN  [i \in 1 .. (IF n < max_num THEN n ELSE max_num) |-> Len(received) + i]

Poll(max_num) ==
    /\ caller = NoReq
    /\ Results(max_num) # <<>>
    /\ received' = received \o Results(max_num)
    /\ called' = called \o Results(max_num)
    /\ UNCHANGED <<accepted, ready, caller, syncs>>

Return(res) ==
    /\ syncs' = [syncs EXCEPT ![Len(syncs)].res = res]
    /\ caller' = NoReq

\* Mutant: the first Poll ends the wait.
SyncPollOnce ==
    /\ caller # NoReq
    /\ received' = received \o Results(1)
    /\ called' = called \o Results(1)
    /\ Return(IF Results(1) = <<>> THEN -2 ELSE Results(1)[1])
    /\ UNCHANGED <<accepted, ready>>

\* The Poll of a synchronous call that has a result; one that has none is repeated.
SyncPoll ==
    /\ caller # NoReq
    /\ Results(1) # <<>>
    /\ received' = received \o Results(1)
    /\ called' = called \o Results(1)
    /\ Return(Results(1)[1])
    /\ UNCHANGED <<accepted, ready>>

\* It fails: the call returns the result it began with, of status kUnknown.
SyncPollFails ==
    /\ caller # NoReq
    /\ Return(-1)
    /\ UNCHANGED <<accepted, ready, received, called>>

Next ==
    \/ SubmitAsync
    \/ SyncSubmit
    \/ EngineAnswers
    \/ \E max_num \in 1 .. MaxPoll : Poll(max_num)
    \/ SyncPoll
    \/ SyncPollFails

Spec == Init /\ [][Next]_vars

-----------------------------------------------------------------------------

\* A synchronous call made while the channel has nothing outstanding returns the
\* result of its own request, or none if Poll fails; and user_cb gets the result of each
\* asynchronous request that was handed out once, in the order of submission
\* (QatCodecDedicatedChannel::Submit and Poll).  Of synchronous requests see UserCbOnlyAsync.
SyncAloneOwnResult ==
    LET async == 1 .. accepted \ {syncs[k].req : k \in DOMAIN syncs}
        IsAsync(r) == r \in async
    IN  /\ \A k \in DOMAIN syncs : syncs[k].alone => syncs[k].res \in {syncs[k].req, 0, -1}
        /\ SelectSeq(called, IsAsync) = SelectSeq(received, IsAsync)
        /\ \A i \in 1 .. Len(called) - 1 : called[i] < called[i + 1]

\* A synchronous call returns its own result even when asynchronous requests are
\* outstanding (include/vesal/codec.h: "Synchronous API to compress/decompress.
\* Blocking until the result returned.").
SyncOwnResult == \A k \in DOMAIN syncs : syncs[k].res \in {syncs[k].req, 0, -1}

\* user_cb is called for the results of asynchronous requests only (include/vesal/codec.h:129).
\* The code does not do so: Poll does not know whom a result is for.
UserCbOnlyAsync ==
    \A i \in DOMAIN called, k \in DOMAIN syncs : called[i] # syncs[k].req
=============================================================================
