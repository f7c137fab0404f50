----------------------------- MODULE SwChannels -----------------------------
(***************************************************************************)
(* The software channels: the codec one (src/src/codec/sw/                  *)
(* sw_codec_channel.cc) works on the caller's thread and keeps the results  *)
(* of asynchronous calls for Poll; the cypher one (src/src/cypher/          *)
(* sw_cypher_channel.cc) answers by the status it returns.                  *)
(*                                                                          *)
(* The libraries are external.  What is modelled of them is when they fail, *)
(* and that LZ4's decompression context, reused by every call, remembers an *)
(* unfinished frame.  Data is what decides this: whether it is a whole      *)
(* frame ("whole"), the beginning of one ("part") or no frame ("bad"), and  *)
(* what room there is for it.                                               *)
(***************************************************************************)
EXTENDS Integers, Sequences

CONSTANTS
    Capacity,  \* result_queue_capacity_
    MaxReq,    \* bound: calls
    MaxPoll    \* bound of max_num in Poll

VARIABLES
    algo,      \* comp_algorithm, or the algorithm of a cypher channel
    closed,    \* closed_
    dctx,      \* dctx_: "none", "clean", "unfinished" or "freed"
    queue,     \* codec_results_: [req, status]
    calls,     \* history: what each call must answer
    answers    \* history: what their callers got, [req, status], in this order

vars == <<algo, closed, dctx, queue, calls, answers>>

Codecs == {"lz4", "deflate", "zlib"}
Cyphers == {"aes_xts", "sha256"}

\* A request: its data, and whether the destination can hold the result.
Requests ==
    [op : {"comp"}, form : {"invalid", "whole"}, room : {"none", "some", "enough"}]
    \cup [op : {"decomp"}, form : {"invalid", "whole", "part", "bad"},
          room : {"none", "some", "enough"}]

Init ==
    /\ algo \in Codecs \cup Cyphers \cup {"other"}
    /\ closed = TRUE /\ dctx = "none" /\ queue = <<>>
    /\ calls = <<>> /\ answers = <<>>

\* SwCypherChannel::Init
CypherInit == algo \in Cyphers /\ closed' = FALSE /\ UNCHANGED dctx

\* SwCodecChannel::Init.  An algorithm that is not supported leaves the channel closed,
\* and so does LZ4 when it gets no context.
CodecInit ==
    /\ algo \in Codecs
    /\ \/ closed' = FALSE /\ dctx' = IF algo = "lz4" THEN "clean" ELSE "none"
       \/ algo = "lz4" /\ closed' = TRUE /\ dctx' = "freed"

InitChannel ==
    /\ closed /\ dctx = "none"
    /\ CodecInit \/ CypherInit
    /\ UNCHANGED <<algo, queue, calls, answers>>

\* The test of src_len, and for a call with pieces ValidateSglArgs: no empty piece, at
\* most VESAL_MAX_SGL_NUM of them, as many lengths, a total below the limit.
ValidateSglArgs(r) == r.form # "invalid"

Fits(r) == r.room = "enough"

Gives(statuses) == {[status |-> s, dctx |-> dctx] : s \in statuses}

\* compress2 reports Z_BUF_ERROR, libdeflate a size of 0 and LZ4F_compressFrame
\* ERROR_dstMaxSize_tooSmall.
ZlibCompress(r) == Gives({IF Fits(r) THEN "ok" ELSE "overflow"})
Compress(r) == IF algo = "zlib" THEN ZlibCompress(r) ELSE Gives({IF Fits(r) THEN "ok" ELSE "overflow"})

\* uncompress2 keeps nothing between calls; it reports an input that ends too early like
\* a destination that is too small.
ZlibDecompress(r) ==
    Gives(CASE r.form = "bad"                -> {"bad_data"}
            [] r.form = "part"               -> {"overflow", "bad_data"}
            [] r.form = "whole" /\ ~Fits(r)  -> {"overflow"}
            [] OTHER                         -> {"ok"})

\* Nor does libdeflate_deflate_decompress_ex.
DeflateDecompress(r) ==
    Gives(CASE r.form = "bad"                -> {"bad_data"}
            [] r.form = "part"               -> {"overflow", "bad_data"}
            [] r.form = "whole" /\ ~Fits(r)  -> {"overflow"}
            [] OTHER                         -> {"ok"})

\* LZ4F_decompress: a context that holds an unfinished frame takes the new data for
\* its continuation.  Otherwise the loop of LZ4Decompress ends without room, with an
\* error, with all input used but the frame unfinished, or with a whole frame.
LZ4F_decompress(r) ==
    CASE r.room = "none"                      -> {"overflow"}
      [] r.room # "none" /\ dctx = "unfinished"
             -> {"ok", "bad_data", "channel_error", "overflow"}
      [] r.room # "none" /\ dctx # "unfinished" /\ r.form = "bad" -> {"channel_error"}
      [] r.room = "some" /\ dctx # "unfinished" /\ r.form # "bad" -> {"overflow", "bad_data"}
      [] r.room = "enough" /\ dctx # "unfinished" /\ r.form = "part" -> {"bad_data"}
      [] OTHER                                -> {"ok"}

\* Mutant: input that ends within a frame leaves the context as it is.
LZ4DecompressNoReset(r) ==
    {[status |-> s, dctx |-> IF s = "bad_data" THEN "unfinished" ELSE "clean"] :
        s \in LZ4F_decompress(r)}

\* The context is freed and made again.
ResetDecompressionCtx == "clean"

\* LZ4Decompress resets the context on every path that does not end a frame.
LZ4Decompress(r) ==
    {[status |-> s, dctx |-> IF s = "ok" THEN "clean" ELSE ResetDecompressionCtx] :
        s \in LZ4F_decompress(r)}

Decompress(r) ==
    CASE algo = "deflate" -> DeflateDecompress(r)
      [] algo = "lz4"     -> LZ4Decompress(r)
      [] OTHER            -> ZlibDecompress(r)

\* What a call may give; the pieces of CompressSGL and DecompressSGL are joined first.
Execute(r) ==
    IF ~ValidateSglArgs(r) THEN Gives({"invalid_argument"})
    ELSE IF r.op = "comp" THEN Compress(r) ELSE Decompress(r)

\* What a call must answer, by its own data alone.
Proper(r) ==
    CASE algo \in Cyphers -> {"ok", "unknown"}
      [] algo \in Codecs /\ ~ValidateSglArgs(r) -> {"invalid_argument"}
      [] algo \in Codecs /\ ValidateSglArgs(r) /\ (r.op = "comp" \/ r.form = "whole") ->
             IF Fits(r) THEN {"ok"} ELSE {"overflow", "bad_data"}
      [] OTHER -> {"bad_data", "overflow", "channel_error"}

CanCall == ~closed /\ Len(calls) < MaxReq

\* The synchronous calls
SyncCall ==
    /\ CanCall /\ algo \in Codecs
    /\ \E r \in Requests : \E e \in Execute(r) :
        /\ dctx' = e.dctx
        /\ calls' = Append(calls, Proper(r))
        /\ answers' = Append(answers, [req |-> Len(calls) + 1, status |-> e.status])
    /\ UNCHANGED <<algo, closed, queue>>

\* Mutant: a failed call is not answered.
PushedOk(q, n, e) == IF e.status = "ok" THEN Append(q, [req |-> n, status |-> e.status]) ELSE q

\* codec_results_.Push: a failed call is answered too.
Pushed(q, n, e) == Append(q, [req |-> n, status |-> e.status])

\* A full queue refuses the call; otherwise it is executed at once.
AsyncCall(op) ==
    /\ CanCall /\ algo \in Codecs /\ Len(queue) < Capacity
    /\ \E r \in Requests : \E e \in Execute(r) :
        /\ r.op = op
        /\ dctx' = e.dctx
        /\ calls' = Append(calls, Proper(r))
        /\ queue' = Pushed(queue, Len(calls) + 1, e)
    /\ UNCHANGED <<algo, closed, answers>>

\* CompressAsync and CompressSGLAsync, DecompressAsync and DecompressSGLAsync
CompressAsync == AsyncCall("comp")
DecompressAsync == AsyncCall("decomp")

\* SwCypherChannel::SubmitCypherReq and SubmitCypherSGLReq: OpenSSL may fail anywhere.
CypherCall ==
    /\ CanCall /\ algo \in Cyphers
    /\ \E r \in Requests, s \in {"ok", "unknown"} :
        /\ algo = "sha256" => s = "ok"
        /\ calls' = Append(calls, Proper(r))
        /\ answers' = Append(answers, [req |-> Len(calls) + 1, status |-> s])
    /\ UNCHANGED <<algo, closed, dctx, queue>>

\* Poll of the codec channel; user_cb gets the same results in the same order.
\* The one of the cypher channel returns nothing.
Poll(max_num) ==
    LET n == IF Len(queue) < max_num THEN Len(queue) ELSE max_num
    IN  /\ ~closed /\ algo \in Codecs /\ n > 0
        /\ answers' = answers \o SubSeq(queue, 1, n)
        /\ queue' = SubSeq(queue, n + 1, Len(queue))
        /\ UNCHANGED <<algo, closed, dctx, calls>>

\* Close; results that were not polled are dropped with the channel.
Close ==
    /\ ~closed
    /\ closed' = TRUE
    /\ dctx' = IF algo = "lz4" THEN "freed" ELSE dctx
    /\ UNCHANGED <<algo, queue, calls, answers>>

Next ==
    \/ InitChannel
    \/ SyncCall
    \/ CompressAsync
    \/ DecompressAsync
    \/ CypherCall
    \/ \E max_num \in 1 .. MaxPoll : Poll(max_num)
    \/ Close

Spec == Init /\ [][Next]_vars

-----------------------------------------------------------------------------

Answered(i) == {k \in DOMAIN answers : answers[k].req = i}
Queued(i) == {k \in DOMAIN queue : queue[k].req = i}

\* A reused channel forgets: whatever the calls before it did and however they
\* failed, a call is answered once or waits in the queue once, with a status that
\* follows from its own data, so that the unfinished frame of one call never becomes
\* the beginning of the next one's (SwCodecChannel, LZ4Decompress and
\* codec_results_).
CallsIndependent ==
    /\ \A k \in DOMAIN answers : answers[k].status \in calls[answers[k].req]
    /\ \A i \in DOMAIN calls :
          \/ \E k \in DOMAIN answers : Answered(i) = {k} /\ Queued(i) = {}
          \/ \E k \in DOMAIN queue : Queued(i) = {k} /\ Answered(i) = {}
    /\ \A j, k \in DOMAIN queue : j < k => queue[j].req < queue[k].req
    /\ ~closed /\ algo = "lz4" => dctx = "clean"
=============================================================================
