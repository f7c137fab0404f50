----------------------------- MODULE ChunkPool -----------------------------
(***************************************************************************)
(* The memory pool after its initialisation (src/src/common/chunk_pool.h,   *)
(* chunk_pool.cc).  A thread takes chunks from the central pool into its    *)
(* TLSCache and cuts them into blocks of one size.  Any thread may free a   *)
(* block: the owner at once, another thread by pushing it to the owner's    *)
(* queue.  When a thread exits its cache is destroyed if no block of it is  *)
(* in use, else it waits for another thread to adopt it.                    *)
(*                                                                          *)
(* The lists of chunks and blocks are sets of which the least is taken; the *)
(* queue's Push is two steps, linking the element and counting it           *)
(* (MpscQueue models the queue itself).                                     *)
(***************************************************************************)
EXTENDS Integers, Sequences, SequencesExt, FiniteSets, FiniteSetsExt

CONSTANTS
    Threads,
    ChunkNum,      \* chunks of the pool
    Classes,       \* block sizes
    BlockNum,      \* blocks of a chunk of each class
    FetchNum,      \* opt_.fetch_chunk_num
    Threshold,     \* opt_.cache_recycle_threshold_size_mb, in chunks
    RecycleNum,    \* opt_.recycle_chunk_num
    MaxCache       \* bound: TLSCaches ever made

Chunks == 1 .. ChunkNum
Caches == 1 .. MaxCache

VARIABLES
    chunks,    \* chunks_: chunks of the central pool
    chunk,     \* ChunkHeader: [cache, class, free (blocks in its chain)]
    cache,     \* TLSCache: [st, avail, recyc, total, recn, queue]
    orphans,   \* orphan_tls_caches_
    my,        \* g_tls_cache of each thread, 0 if none
    pc,        \* of each thread: <<"idle">>, <<"get", class>>, <<"exit">>, <<"detach">>,
               \* <<"count", cache>>
    held,      \* history: blocks the user has
    used_dead  \* history: a destroyed cache was used

vars == <<chunks, chunk, cache, orphans, my, pc, held, used_dead>>

Blocks(k) == 1 .. BlockNum[k]
NewCache == [st |-> "none", avail |-> {}, recyc |-> {}, total |-> 0, recn |-> 0, queue |-> <<>>]

Init ==
    /\ chunks = Chunks
    /\ chunk = [h \in Chunks |-> [cache |-> 0, class |-> CHOOSE k \in Classes : TRUE, free |-> {}]]
    /\ cache = [c \in Caches |-> NewCache]
    /\ orphans = <<>> /\ my = [t \in Threads |-> 0] /\ pc = [t \in Threads |-> <<"idle">>]
    /\ held = {} /\ used_dead = FALSE

Idle(t) == pc[t] = <<"idle">> /\ ~used_dead

\* GetOrNewTlsCache of a thread that has none: AdoptOrNewTlsCache, AttachThread
Attach(t) ==
    /\ Idle(t) /\ my[t] = 0
    /\ \/ /\ orphans # <<>>
          /\ my' = [my EXCEPT ![t] = Last(orphans)]
          /\ cache' = [cache EXCEPT ![Last(orphans)].st = "attached"]
          /\ orphans' = Front(orphans)
       \/ /\ orphans = <<>>
          /\ \E c \in {c \in Caches : cache[c].st = "none"} :
                /\ \A d \in Caches : d < c => cache[d].st # "none"
                /\ my' = [my EXCEPT ![t] = c]
                /\ cache' = [cache EXCEPT ![c].st = "attached"]
          /\ UNCHANGED orphans
    /\ UNCHANGED <<chunks, chunk, pc, held, used_dead>>

(***************************************************************************)
(* TLSCache::PutBlock of a block of the own cache, and Recycle              *)
(***************************************************************************)
\* Mutant: a chunk is recycled with a block still in use.
NowFreeEarly(h, free) == Cardinality(free) >= BlockNum[chunk[h].class] - 1

\* available_block_num == total_block_num
NowFree(h, free) == Cardinality(free) = BlockNum[chunk[h].class]

\* The cache c after block b of chunk h went back into its chain
Returned(c, h, free) ==
    IF NowFree(h, free)
    THEN [cache[c] EXCEPT !.avail = @ \ {h}, !.recyc = @ \cup {h}, !.recn = @ + 1]
    ELSE [cache[c] EXCEPT !.avail = @ \cup {h}]

MustRecycle(r) == r.total > Threshold /\ r.recn >= RecycleNum

\* Mutant: what was recycled still counts in the total.
RecycledKeepsTotal(r) == IF MustRecycle(r) THEN [r EXCEPT !.recyc = {}, !.recn = 0] ELSE r

\* Recycle: every recyclable chunk goes to the central pool
Recycled(r) == IF MustRecycle(r) THEN [r EXCEPT !.recyc = {}, !.total = @ - r.recn, !.recn = 0] ELSE r

\* PutChunks: a list of chunks goes back to the central pool
PutChunks(list) == chunks \cup list

PutOwn(c, b, queue) ==
    LET h == b[1]
        free == chunk[h].free \cup {b[2]}
        r == Returned(c, h, free)
    IN  /\ chunk' = [chunk EXCEPT ![h].free = free]
        /\ cache' = [cache EXCEPT ![c] = [Recycled(r) EXCEPT !.queue = queue]]
        /\ chunks' = IF MustRecycle(r) THEN PutChunks(r.recyc) ELSE chunks

(***************************************************************************)
(* Deallocate                                                               *)
(***************************************************************************)
Owner(b) == chunk[b[1]].cache

DeallocateOwn(t, b) ==
    /\ Idle(t) /\ my[t] # 0 /\ b \in held /\ Owner(b) = my[t]
    /\ PutOwn(my[t], b, cache[my[t]].queue)
    /\ held' = held \ {b}
    /\ UNCHANGED <<orphans, my, pc, used_dead>>

\* Cross thread deallocation is deferred: Push links the block into the owner's queue.
DeallocateForeign(t, b) ==
    /\ Idle(t) /\ my[t] # 0 /\ b \in held /\ Owner(b) # my[t]
    /\ cache' = [cache EXCEPT ![Owner(b)].queue = Append(@, b)]
    /\ held' = held \ {b}
    /\ pc' = [pc EXCEPT ![t] = <<"count", Owner(b)>>]
    /\ UNCHANGED <<chunks, chunk, orphans, my, used_dead>>

\* The end of Push: size_.fetch_add
PushCount(t) ==
    /\ pc[t][1] = "count"
    /\ used_dead' = (used_dead \/ cache[pc[t][2]].st = "dead")
    /\ pc' = [pc EXCEPT ![t] = <<"idle">>]
    /\ UNCHANGED <<chunks, chunk, cache, orphans, my, held>>

(***************************************************************************)
(* Allocate: GetBlock                                                       *)
(***************************************************************************)
Avail(c, k) == {h \in cache[c].avail : chunk[h].class = k}
Recyc(c, k) == {h \in cache[c].recyc : chunk[h].class = k}

\* A block of chunk h, which is of the cache r (available, or recyclable until now)
TakeBlock(t, r, h, ch) ==
    LET b == Min(ch[h].free)
        left == ch[h].free \ {b}
    IN  /\ chunk' = [ch EXCEPT ![h].free = left]
        /\ cache' = [cache EXCEPT ![my[t]] =
                        [r EXCEPT !.avail = IF left = {} THEN @ \ {h} ELSE @ \cup {h},
                                  !.recn = IF h \in r.recyc THEN @ - 1 ELSE @,
                                  !.recyc = @ \ {h}]]
        /\ held' = held \cup {<<h, b>>}
        /\ pc' = [pc EXCEPT ![t] = <<"idle">>]

\* The cache has a chunk with a block of the class
FromCache(t, k) ==
    LET c == my[t]
        from == IF Avail(c, k) # {} THEN Avail(c, k) ELSE Recyc(c, k)
    IN  from # {} /\ TakeBlock(t, cache[c], Min(from), chunk)

Allocate(t, k) ==
    /\ Idle(t) /\ my[t] # 0
    /\ \/ FromCache(t, k)
       \/ /\ Avail(my[t], k) \cup Recyc(my[t], k) = {}
          /\ pc' = [pc EXCEPT ![t] = <<"get", k>>]
          /\ UNCHANGED <<chunk, cache, held>>
    /\ UNCHANGED <<chunks, orphans, my, used_dead>>

\* DeferredDeallocate: a turn of its loop, in GetBlock or when the thread exits
Drain(t) ==
    LET c == my[t]
    IN  /\ pc[t][1] \in {"get", "exit"} /\ cache[c].queue # <<>>
        /\ PutOwn(c, Head(cache[c].queue), Tail(cache[c].queue))
        /\ UNCHANGED <<orphans, my, pc, held, used_dead>>

\* The queue is drained and the cache has something
AllocateDrained(t, k) ==
    /\ pc[t] = <<"get", k>> /\ cache[my[t]].queue = <<>>
    /\ FromCache(t, k)
    /\ UNCHANGED <<chunks, orphans, my, used_dead>>

\* GetChunks(fetch_chunk_num): the first chunks of the list, none if they do not suffice
GetChunks ==
    IF FetchNum > Cardinality(chunks) THEN {}
    ELSE {h \in chunks : Cardinality({g \in chunks : g < h}) < FetchNum}

\* The chunks are built into blocks of the class.
AllocateFetched(t, k) ==
    LET c == my[t]
    IN  /\ pc[t] = <<"get", k>> /\ cache[c].queue = <<>>
        /\ Avail(c, k) \cup Recyc(c, k) = {}
        /\ GetChunks # {}
        /\ chunks' = chunks \ GetChunks
        /\ TakeBlock(t, [cache[c] EXCEPT !.total = @ + FetchNum, !.recn = @ + FetchNum,
                                         !.recyc = @ \cup GetChunks],
                     Min(GetChunks),
                     [g \in Chunks |-> IF g \in GetChunks
                         THEN [cache |-> c, class |-> k, free |-> Blocks(k)] ELSE chunk[g]])
        /\ UNCHANGED <<orphans, my, used_dead>>

\* Not enough chunks: nullptr
AllocateFails(t, k) ==
    /\ pc[t] = <<"get", k>> /\ cache[my[t]].queue = <<>>
    /\ Avail(my[t], k) \cup Recyc(my[t], k) = {}
    /\ GetChunks = {}
    /\ pc' = [pc EXCEPT ![t] = <<"idle">>]
    /\ UNCHANGED <<chunks, chunk, cache, orphans, my, held, used_dead>>

(***************************************************************************)
(* The thread exits: ~TLSCacheGuard                                         *)
(***************************************************************************)
ExitStart(t) ==
    /\ Idle(t) /\ my[t] # 0
    /\ pc' = [pc EXCEPT ![t] = <<"exit">>]
    /\ UNCHANGED <<chunks, chunk, cache, orphans, my, held, used_dead>>

\* DeferredDeallocate found the queue empty; blocks may be pushed from now on.
ExitDrained(t) ==
    /\ pc[t] = <<"exit">> /\ cache[my[t]].queue = <<>>
    /\ pc' = [pc EXCEPT ![t] = <<"detach">>]
    /\ UNCHANGED <<chunks, chunk, cache, orphans, my, held, used_dead>>

\* Mutant: the cache is destroyed if nothing is queued.
RecyclableUnqueued(c) == cache[c].queue = <<>>

Recyclable(c) == cache[c].total = cache[c].recn

\* ~TLSCache: its Reset gives the chunks back
Destroyed(c) ==
    /\ cache' = [cache EXCEPT ![c] = [NewCache EXCEPT !.st = "dead"]]
    /\ chunks' = PutChunks(cache[c].recyc)
    /\ UNCHANGED orphans

\* AddOrphanTlsCache
Orphaned(c) ==
    /\ cache' = [cache EXCEPT ![c].st = "orphan"]
    /\ orphans' = Append(orphans, c)
    /\ UNCHANGED chunks

\* DetachThread, and the cache is destroyed or orphaned
ExitEnd(t) ==
    LET c == my[t]
    IN  /\ pc[t] = <<"detach">>
        /\ my' = [my EXCEPT ![t] = 0] /\ pc' = [pc EXCEPT ![t] = <<"idle">>]
        /\ IF Recyclable(c) THEN Destroyed(c) ELSE Orphaned(c)
        /\ UNCHANGED <<chunk, held, used_dead>>

Next ==
    \E t \in Threads :
        \/ Attach(t) \/ PushCount(t) \/ Drain(t) \/ ExitStart(t) \/ ExitDrained(t) \/ ExitEnd(t)
        \/ \E b \in held : DeallocateOwn(t, b) \/ DeallocateForeign(t, b)
        \/ \E k \in Classes : Allocate(t, k) \/ AllocateDrained(t, k) \/ AllocateFetched(t, k) \/ AllocateFails(t, k)

Spec == Init /\ [][Next]_vars
-----------------------------------------------------------------------------
\* A block is in its chunk's chain, with the user, or in the queue of the chunk's cache.
InUse(h) == {b \in held \cup UNION {Range(cache[c].queue) : c \in Caches} : b[1] = h}
OwnedBy(c) == {h \in Chunks \ chunks : chunk[h].cache = c}

\* Whoever frees what from which thread, at whatever moment of the owner's life: every
\* block has one place, a chunk is in the list its free blocks call for, the counters of
\* a cache are exact, and a chunk outside of the central pool has a cache that lives.
BlocksAccounted ==
    /\ \A h \in Chunks \ chunks :
          LET c == cache[chunk[h].cache]
              all == {<<h, i>> : i \in Blocks(chunk[h].class)}
          IN  /\ InUse(h) = all \ {<<h, i>> : i \in chunk[h].free}
              /\ c.st \in {"attached", "orphan"}
              /\ h \in c.recyc <=> InUse(h) = {}
              /\ h \in c.avail <=> InUse(h) # {} /\ InUse(h) # all
    /\ \A h \in chunks : InUse(h) = {}
    /\ \A c \in Caches : /\ cache[c].total = Cardinality(OwnedBy(c))
                         /\ cache[c].recn = Cardinality(cache[c].recyc)
                         /\ cache[c].avail \cup cache[c].recyc \subseteq OwnedBy(c)
                         /\ \A b \in Range(cache[c].queue) : Owner(b) = c

\* mpsc_queue.h:60: Push is "Multi producer safe": it is not still running on a cache
\* that was destroyed.
QueueOutlivesPush == ~used_dead
=============================================================================
