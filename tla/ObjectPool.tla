----------------------------- MODULE ObjectPool -----------------------------
(***************************************************************************)
(* TlsObjectPool (src/src/common/object_pool.h): the objects of one thread, *)
(* cut from chunks that are allocated and freed.  A returned object goes to *)
(* a cache of limited size, or is counted in its chunk; a chunk of which    *)
(* every object is counted is reused or freed.  Objects may outlive the     *)
(* pool, which is destroyed when the thread exits.                          *)
(***************************************************************************)
EXTENDS Integers, Sequences, SequencesExt, FiniteSets

CONSTANTS
    ObjectNum,    \* _object_num: objects of a chunk
    CacheSize,    \* OBJ_SIZE_IN_OBJECT_CACHE
    FreeChunks,   \* FREE_CHUNK_SIZE
    Chunks        \* bound: chunks allocated over the life of the thread

VARIABLES
    allocated,  \* chunks handed out by DefaultAllocate, 1 .. allocated
    freed,      \* chunk -> how often DefaultDeallocate was called for it
    used_num, free_num,
    current,    \* _current_chunk, 0 if none
    cache,      \* _free_obj_cache: objects [chunk, index]
    full_free,  \* _full_free_chunks
    shutdown,   \* g_single_thread_pool_shutdown
    live        \* history: objects the user has

vars == <<allocated, freed, used_num, free_num, current, cache, full_free, shutdown, live>>

Ids == 1 .. Chunks

Init ==
    /\ allocated = 0 /\ freed = [k \in Ids |-> 0]
    /\ used_num = [k \in Ids |-> 0] /\ free_num = [k \in Ids |-> 0]
    /\ current = 0 /\ cache = <<>> /\ full_free = <<>> /\ shutdown = FALSE /\ live = {}

\* LocalChunk::alloc_object of chunk k, which becomes the current one
AllocObject(k) ==
    /\ current' = k
    /\ used_num' = [used_num EXCEPT ![k] = @ + 1]
    /\ live' = live \cup {<<k, used_num[k]>>}

\* get_or_new_object: from the cache, the current chunk, a chunk that is free as a
\* whole, or a new chunk
GetCached ==
    /\ ~shutdown /\ cache # <<>>
    /\ live' = live \cup {Last(cache)} /\ cache' = Front(cache)
    /\ UNCHANGED <<allocated, freed, used_num, free_num, current, full_free, shutdown>>

CurrentHasRoom == current # 0 /\ used_num[current] < ObjectNum

GetFromChunk ==
    /\ ~shutdown /\ cache = <<>>
    /\ \/ CurrentHasRoom /\ AllocObject(current) /\ UNCHANGED <<allocated, full_free>>
       \/ /\ ~CurrentHasRoom /\ full_free # <<>>
          /\ AllocObject(Last(full_free)) /\ full_free' = Front(full_free)
          /\ UNCHANGED allocated
       \/ /\ ~CurrentHasRoom /\ full_free = <<>> /\ allocated < Chunks
          /\ AllocObject(allocated + 1) /\ allocated' = allocated + 1
          /\ UNCHANGED full_free
    /\ UNCHANGED <<freed, free_num, cache, shutdown>>

\* return_or_free_object
ReturnToCache(o) ==
    /\ ~shutdown /\ o \in live /\ Len(cache) < CacheSize
    /\ cache' = Append(cache, o) /\ live' = live \ {o}
    /\ UNCHANGED <<allocated, freed, used_num, free_num, current, full_free, shutdown>>

\* Mutant: off by one, the last object of a chunk is not waited for.
AllFreeEarly(k) == free_num[k] + 2 = ObjectNum

AllFree(k) == free_num[k] + 1 = ObjectNum

ReturnToChunk(o) ==
    LET k == o[1]
    IN  /\ ~shutdown /\ o \in live /\ Len(cache) >= CacheSize
        /\ live' = live \ {o}
        /\ IF ~AllFree(k)
           THEN /\ free_num' = [free_num EXCEPT ![k] = @ + 1]
                /\ UNCHANGED <<used_num, full_free, freed>>
           ELSE /\ free_num' = [free_num EXCEPT ![k] = 0]
                /\ used_num' = [used_num EXCEPT ![k] = 0]
                /\ \/ k = current /\ UNCHANGED <<full_free, freed>>
                   \/ /\ k # current /\ Len(full_free) < FreeChunks
                      /\ full_free' = Append(full_free, k) /\ UNCHANGED freed
                   \/ /\ k # current /\ Len(full_free) >= FreeChunks
                      /\ freed' = [freed EXCEPT ![k] = @ + 1] /\ UNCHANGED full_free
        /\ UNCHANGED <<allocated, current, cache, shutdown>>

Cached(k) == Cardinality({i \in DOMAIN cache : cache[i][1] = k})

\* Mutant: the current chunk is left to the objects.
FreedAtExitLess(k) ==
    \/ k \in Range(full_free)
    \/ Cached(k) > 0 /\ free_num[k] + Cached(k) = used_num[k]

\* The chunks ~TlsObjectPool frees: the current one if every object was counted, then
\* those that the cached objects complete, then those that are free as a whole
FreedAtExit(k) ==
    \/ k \in Range(full_free)
    \/ k = current /\ free_num[k] = used_num[k]
    \/ Cached(k) > 0 /\ free_num[k] + Cached(k) = used_num[k]

\* ~TlsObjectPool, when the thread exits
Exit ==
    /\ ~shutdown /\ shutdown' = TRUE
    /\ freed' = [k \in Ids |-> freed[k] + IF FreedAtExit(k) THEN 1 ELSE 0]
    /\ free_num' = [k \in Ids |-> free_num[k] + Cached(k)]
    /\ cache' = <<>> /\ full_free' = <<>>
    /\ UNCHANGED <<allocated, used_num, current, live>>

\* recycle_object: an object is returned after the pool is gone
Recycle(o) ==
    LET k == o[1]
    IN  /\ shutdown /\ o \in live /\ live' = live \ {o}
        /\ free_num' = [free_num EXCEPT ![k] = @ + 1]
        /\ freed' = [freed EXCEPT ![k] = @ + IF free_num[k] + 1 = used_num[k] THEN 1 ELSE 0]
        /\ UNCHANGED <<allocated, used_num, current, cache, full_free, shutdown>>

Next ==
    \/ GetCached \/ GetFromChunk \/ Exit
    \/ \E o \in live : ReturnToCache(o) \/ ReturnToChunk(o) \/ Recycle(o)

Spec == Init /\ [][Next]_vars
-----------------------------------------------------------------------------
\* A chunk is freed at most once and never while the user has an object of it or the
\* pool would hand one out; an object is not given to two users; and when the thread is
\* gone and every object returned, every chunk was freed.
ChunksFreedExactly ==
    /\ \A k \in Ids : freed[k] <= 1
    /\ \A o \in live \cup Range(cache) : freed[o[1]] = 0 /\ o[2] < used_num[o[1]]
    /\ \A k \in Range(full_free) : freed[k] = 0
    /\ ~shutdown /\ current # 0 => freed[current] = 0
    /\ live \cap Range(cache) = {}
    /\ \A k \in 1 .. allocated :
          freed[k] = 0 => Cardinality({o \in live \cup Range(cache) : o[1] = k}) = used_num[k] - free_num[k]
    /\ shutdown /\ live = {} => \A k \in 1 .. allocated : freed[k] = 1
=============================================================================
