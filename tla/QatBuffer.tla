------------------------------ MODULE QatBuffer ------------------------------
(***************************************************************************)
(* QatBuf and QatBufCache (src/src/common/qat/qat_buffer.cc): the buffer    *)
(* lists one engine lends to its requests, how a request's scatter-gather   *)
(* source and its destination are mapped to DMA memory, copied back and     *)
(* released, and the two assertions that guard the release of the cache.    *)
(*                                                                          *)
(* The memory pool is shared with everything else, so an allocation may     *)
(* succeed or fail at any time; the model counts what was taken from it.    *)
(***************************************************************************)
EXTENDS Integers, Sequences, SequencesExt, FiniteSetsExt

CONSTANTS
    MaxInQat,   \* max_in_qat_size: requests the engine keeps in the hardware
    Vectors,    \* sources: sequences of the sizes of their blocks
    Frames,     \* <<header_size, footer_size>> of the formats
    DstSize,    \* bytes of a destination
    Slots       \* requests in flight at a time

VARIABLES
    svm,        \* QatUnit::SvmEnabled
    cache,      \* bufs_: the bufs in the cache, the first one on top
    in_cache,   \* in_cache_num_ (below 0 stands for a wrapped counter)
    num,        \* buf -> cpa_buffer_list_->numBuffers
    pieces,     \* buf -> the CpaFlatBuffers: [dma, at, len]
    reqs,       \* slot -> the request that holds two bufs, or NoReq
    allocated,  \* pieces of DMA memory taken from the memory pool
    user,       \* slot -> what the last request left in the user's destination
    aborted     \* the VESAL_CHECK that failed

vars == <<svm, cache, in_cache, num, pieces, reqs, allocated, user, aborted>>

NoReq == [src |-> 0, dst |-> 0, comp |-> FALSE, vec |-> <<>>, frame |-> <<0, 0>>]

\* buf_size_: two for each request and some for requests that hang
BufSize == 2 * MaxInQat + (MaxInQat \div 2)
Bufs == 1 .. BufSize

Sum(s) == FoldSeq(LAMBDA x, y : x + y, 0, s)
Upto(s, i) == Sum(SubSeq(s, 1, i))

Init ==
    /\ svm \in BOOLEAN /\ cache = <<>> /\ in_cache = 0 /\ allocated = 0
    /\ num = [b \in Bufs |-> 0] /\ pieces = [b \in Bufs |-> <<>>]
    /\ reqs = [s \in Slots |-> NoReq] /\ user = [s \in Slots |-> <<>>]
    /\ aborted = "no"

Idle == \A s \in Slots : reqs[s] = NoReq

-----------------------------------------------------------------------------
(* QatBufCache::Init and Clear *)

\* QatBufCache::Init when every InitMeta succeeds
CacheInit ==
    /\ aborted = "no" /\ cache = <<>> /\ Idle
    /\ cache' = [i \in Bufs |-> BufSize + 1 - i] /\ in_cache' = BufSize
    /\ allocated' = allocated + BufSize
    /\ UNCHANGED <<svm, num, pieces, reqs, user, aborted>>

\* QatBufCache::Init when InitMeta fails after i bufs: Clear takes them off a counter
\* that was not set yet
CacheInitFails(i) ==
    /\ aborted = "no" /\ cache = <<>> /\ Idle
    /\ in_cache' = 0 - i
    /\ aborted' = IF in_cache' = 0 THEN "no" ELSE "Clear"
    /\ UNCHANGED <<svm, cache, num, pieces, reqs, allocated, user>>

\* QatBufCache::Clear at the end of an engine: FreeMeta of each cached buf in turn
CacheClear ==
    /\ aborted = "no" /\ cache # <<>> /\ Idle
    /\ IF \E b \in Range(cache) : num[b] # 0
       THEN /\ aborted' = "FreeMeta" /\ UNCHANGED <<cache, in_cache, allocated>>
       ELSE /\ cache' = <<>> /\ in_cache' = in_cache - Len(cache)
            /\ allocated' = allocated - Len(cache)
            /\ aborted' = IF in_cache' = 0 THEN "no" ELSE "Clear"
    /\ UNCHANGED <<svm, num, pieces, reqs, user>>

-----------------------------------------------------------------------------
(* Mapping the user's memory *)

\* Mutant: the header's length is used in the block although blocks before it were skipped.
FindSglStartPointWhole(vec, front) ==
    IF front = 0 THEN <<1, 0>>
    ELSE <<Min({k \in DOMAIN vec : Upto(vec, k) > front}), front>>

\* FindSglStartPoint: the first block that is not all header, and the header's part of it
FindSglStartPoint(vec, front) ==
    IF front = 0 THEN <<1, 0>>
    ELSE LET i == Min({k \in DOMAIN vec : Upto(vec, k) > front})
         IN  <<i, front - Upto(vec, i - 1)>>

\* FindSglEndPoint: the last block that is not all footer, and its length before the footer
FindSglEndPoint(vec, back) ==
    IF back = 0 THEN <<Len(vec), Last(vec)>>
    ELSE LET j == Max({k \in DOMAIN vec : Sum(vec) - Upto(vec, k - 1) > back})
         IN  <<j, vec[j] - (back - (Sum(vec) - Upto(vec, j)))>>

\* The areas FillSrc passes to FillOneBuffer: [at, len], at counted from the first byte
SrcAreas(vec, front, back) ==
    LET b == FindSglStartPoint(vec, front)
        e == FindSglEndPoint(vec, back)
    IN  IF b[1] = e[1]
        THEN <<[at |-> Upto(vec, b[1] - 1) + b[2], len |-> e[2] - b[2]]>>
        ELSE [k \in 1 .. e[1] - b[1] + 1 |->
                LET i == b[1] + k - 1
                IN  CASE i = b[1] -> [at |-> Upto(vec, i - 1) + b[2], len |-> vec[i] - b[2]]
                      [] i = e[1] -> [at |-> Upto(vec, i - 1), len |-> e[2]]
                      [] OTHER -> [at |-> Upto(vec, i - 1), len |-> vec[i]]]

\* FillOneBuffer for each of the areas: used in place with SVM, otherwise in place when
\* the address table covers it or copied; the results when all succeed
Filled(areas) ==
    {[k \in DOMAIN areas |-> [dma |-> d[k], at |-> areas[k].at, len |-> areas[k].len]] :
        d \in {f \in [DOMAIN areas -> BOOLEAN] : svm => \A k \in DOMAIN areas : ~f[k]}}

\* FillOneBuffer can fail where it allocates; it must for an empty area (Allocate(0))
CanFail == ~svm
MustFail(areas) == ~svm /\ \E k \in DOMAIN areas : areas[k].len = 0

DmaPieces(ps) == {k \in DOMAIN ps : ps[k].dma}
DmaNum(ps) == Cardinality(DmaPieces(ps))

SrcFrame(r) == IF r.comp THEN <<0, 0>> ELSE r.frame
DstFrame(r) == IF r.comp THEN r.frame ELSE <<0, 0>>
SrcTooShort(r) == SrcFrame(r)[1] + SrcFrame(r)[2] >= Sum(r.vec)
DstTooShort(r) == DstFrame(r)[1] + DstFrame(r)[2] >= DstSize

\* The outcomes of FillSrc on buf b: [ok, num, pieces]; a failure part-way in a list of
\* several frees what it took, one in a single area leaves numBuffers alone
FillSrc(b, r) ==
    LET areas == SrcAreas(r.vec, SrcFrame(r)[1], SrcFrame(r)[2])
        failed == [ok |-> FALSE, num |-> IF Len(areas) = 1 THEN num[b] ELSE 0,
                   pieces |-> <<>>]
    IN  IF SrcTooShort(r)
        THEN {[ok |-> FALSE, num |-> num[b], pieces |-> pieces[b]]}
        ELSE (IF CanFail THEN {failed} ELSE {})
             \cup (IF MustFail(areas) THEN {}
                   ELSE {[ok |-> TRUE, num |-> Len(p), pieces |-> p] : p \in Filled(areas)})

\* The outcomes of FillDst on buf b: numBuffers is 1 before the area is mapped
FillDst(b, r) ==
    LET area == <<[at |-> DstFrame(r)[1], len |-> DstSize - DstFrame(r)[1] - DstFrame(r)[2]]>>
    IN  IF DstTooShort(r)
        THEN {[ok |-> FALSE, num |-> num[b], pieces |-> pieces[b]]}
        ELSE (IF CanFail THEN {[ok |-> FALSE, num |-> 1, pieces |-> <<>>]} ELSE {})
             \cup {[ok |-> TRUE, num |-> 1, pieces |-> p] : p \in Filled(area)}

\* FreeDataIfNecessary of a list with these pieces: the DMA memory it gives back
FreedBy(ps) == IF svm THEN 0 ELSE DmaNum(ps)

-----------------------------------------------------------------------------
(* The life of a request *)

\* SubmitAsync with fewer than two bufs in the cache: the one taken is returned
SubmitNoBuf(s) ==
    /\ aborted = "no" /\ ~(cache = <<>> /\ Idle) /\ Len(cache) < 2 /\ reqs[s] = NoReq
    /\ UNCHANGED vars

\* Mutant: when one of the two could not be filled the other keeps its DMA memory.
FreedOnFailureNone(f, g) == 0

\* What a submission that failed gives back of the list it could fill
FreedOnFailure(f, g) ==
    (IF f.ok THEN FreedBy(f.pieces) ELSE 0) + (IF g.ok THEN FreedBy(g.pieces) ELSE 0)

\* SubmitAsync: fill the source and the destination; if one fails, free the other,
\* and return both, the destination on top
Submit(s, comp, vec, frame) ==
    LET r == [src |-> cache[1], dst |-> cache[2], comp |-> comp, vec |-> vec, frame |-> frame]
        \* a list whose filling failed is not freed, one that was filled is
        Left(f) == IF f.ok THEN [num |-> 0, pieces |-> <<>>]
                   ELSE [num |-> f.num, pieces |-> f.pieces]
        taken(f) == IF f.ok THEN DmaNum(f.pieces) ELSE 0
    IN  /\ aborted = "no" /\ Len(cache) >= 2 /\ reqs[s] = NoReq
        /\ \E f \in FillSrc(r.src, r), g \in FillDst(r.dst, r) :
             IF f.ok /\ g.ok
             THEN /\ reqs' = [reqs EXCEPT ![s] = r]
                  /\ cache' = SubSeq(cache, 3, Len(cache)) /\ in_cache' = in_cache - 2
                  /\ num' = [num EXCEPT ![r.src] = f.num, ![r.dst] = g.num]
                  /\ pieces' = [pieces EXCEPT ![r.src] = f.pieces, ![r.dst] = g.pieces]
                  /\ allocated' = allocated + taken(f) + taken(g)
             ELSE /\ cache' = <<r.dst, r.src>> \o SubSeq(cache, 3, Len(cache))
                  /\ num' = [num EXCEPT ![r.src] = Left(f).num, ![r.dst] = Left(g).num]
                  /\ pieces' = [pieces EXCEPT ![r.src] = Left(f).pieces,
                                              ![r.dst] = Left(g).pieces]
                  /\ allocated' = allocated + taken(f) + taken(g) - FreedOnFailure(f, g)
                  /\ UNCHANGED <<reqs, in_cache>>
        /\ user' = [user EXCEPT ![s] = <<>>]
        /\ UNCHANGED <<svm, aborted>>

Bytes(what, n) == [i \in 1 .. n |-> <<what, i>>]

\* What the user finds at position i of the destination after the hardware wrote
\* `produced' bytes to piece p, with the bytes the host copies over it
HostCopy(dst, at, bytes) ==
    [i \in 1 .. Max({Len(dst), at + Len(bytes)}) |->
        IF i \in at + 1 .. at + Len(bytes) THEN bytes[i - at]
        ELSE IF i <= Len(dst) THEN dst[i] ELSE <<"unset", 0>>]

\* Mutant: the copy back forgets the header in front of the data.
CompCopyBackAtStart(p, dst, produced, frame) ==
    LET h == HostCopy(dst, 0, Bytes("header", frame[1]))
        d == IF p.dma THEN HostCopy(h, 0, Bytes("data", produced)) ELSE h
    IN  HostCopy(d, frame[1] + produced, Bytes("footer", frame[2]))

\* CompCopyBackIfNecessary
CompCopyBack(p, dst, produced, frame) ==
    LET h == HostCopy(dst, 0, Bytes("header", frame[1]))
        d == IF p.dma THEN HostCopy(h, frame[1], Bytes("data", produced)) ELSE h
    IN  HostCopy(d, frame[1] + produced, Bytes("footer", frame[2]))

\* DecompCopyBackIfNecessary
DecompCopyBack(p, dst, produced) ==
    IF p.dma THEN HostCopy(dst, 0, Bytes("data", produced)) ELSE dst

\* ~CallbackContext / Reset: FreeDataIfNecessary and ReturnOne, source first
Release(r) ==
    /\ cache' = <<r.dst, r.src>> \o cache /\ in_cache' = in_cache + 2
    /\ num' = [num EXCEPT ![r.src] = 0, ![r.dst] = 0]
    /\ pieces' = [pieces EXCEPT ![r.src] = <<>>, ![r.dst] = <<>>]
    /\ allocated' = allocated - FreedBy(pieces[r.src]) - FreedBy(pieces[r.dst])

\* The hardware wrote `produced' bytes to the destination's piece; the callback copies
\* them back and releases the lists
Complete(s, produced) ==
    LET r == reqs[s]
        p == pieces[r.dst][1]
        written == IF p.dma THEN <<>> ELSE HostCopy(<<>>, p.at, Bytes("data", produced))
    IN  /\ aborted = "no" /\ r # NoReq /\ produced <= p.len
        /\ user' = [user EXCEPT ![s] = IF r.comp THEN CompCopyBack(p, written, produced, r.frame)
                                       ELSE DecompCopyBack(p, written, produced)]
        /\ Release(r)
        /\ reqs' = [reqs EXCEPT ![s] = NoReq]
        /\ UNCHANGED <<svm, aborted>>

\* The request failed or was given up after its timeout: released without a copy
Fail(s) ==
    /\ aborted = "no" /\ reqs[s] # NoReq
    /\ Release(reqs[s])
    /\ reqs' = [reqs EXCEPT ![s] = NoReq]
    /\ UNCHANGED <<svm, user, aborted>>

Aborted == aborted # "no" /\ UNCHANGED vars

Next ==
    \/ CacheInit \/ CacheClear \/ Aborted
    \/ \E i \in 0 .. BufSize - 1 : CacheInitFails(i)
    \/ \E s \in Slots :
         \/ SubmitNoBuf(s) \/ Fail(s)
         \/ \E c \in BOOLEAN, v \in Vectors, f \in Frames : Submit(s, c, v, f)
         \/ \E n \in 1 .. DstSize : Complete(s, n)

Spec == Init /\ [][Next]_vars

-----------------------------------------------------------------------------
(* Properties *)

\* The memory taken from the pool is exactly the meta data of the bufs of the cache and
\* the pieces of the requests in flight: FillSrc, FillDst, their failures part-way and
\* FreeDataIfNecessary neither leak nor free twice, and the cache holds every buf that no
\* request holds, once.
DmaMemoryExact ==
    LET held == {s \in Slots : reqs[s] # NoReq}
        bufs == {reqs[s].src : s \in held} \cup {reqs[s].dst : s \in held}
        ready == cache # <<>> \/ held # {}
    IN  aborted = "no" =>
          /\ allocated = (IF ready THEN BufSize ELSE 0)
                         + MapThenSumSet(LAMBDA b : DmaNum(pieces[b]), bufs)
          /\ in_cache = Len(cache) /\ IsInjective(cache)
          /\ ready => Bufs \ Range(cache) = bufs /\ Cardinality(bufs) = 2 * Cardinality(held)

\* What the hardware reads is the user's data between header and footer, every byte once
\* and in order, however the blocks are cut (FindSglStartPoint, FindSglEndPoint, FillSrc),
\* and what the user finds in the destination is header, data and footer with nothing
\* between them, zero-copy or copied (CompCopyBackIfNecessary, DecompCopyBackIfNecessary).
DataExact ==
    /\ \A s \in Slots : reqs[s] # NoReq =>
         LET r == reqs[s]
             bytes(p) == [i \in 1 .. p.len |-> p.at + i]
             got == FlattenSeq([k \in DOMAIN pieces[r.src] |-> bytes(pieces[r.src][k])])
             f == SrcFrame(r)
         IN  got = [i \in 1 .. Sum(r.vec) - f[1] - f[2] |-> f[1] + i]
    /\ \A s \in Slots : user[s] # <<>> =>
         \E f \in Frames, n \in 1 .. DstSize :
            \/ user[s] = Bytes("header", f[1]) \o Bytes("data", n) \o Bytes("footer", f[2])
            \/ user[s] = Bytes("data", n)

\* No VESAL_CHECK of the cache fails: FreeMeta asserts that the data was freed ("Must free
\* data before reset meta", qat_buffer.cc:65) and Clear that it took every buf out.
ChecksHold == aborted = "no"

\* FreeMeta's assertion alone.
DataFreedBeforeMeta == aborted # "FreeMeta"
=============================================================================
