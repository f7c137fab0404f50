---------------------------- MODULE AddressTable ----------------------------
(***************************************************************************)
(* Initialisation and reset of the memory pool (ChunkPool::Init,            *)
(* Preallocate, Reset in src/src/common/chunk_pool.cc) and the table of     *)
(* physical addresses (AddressManager, src/src/common/memory_pool_helper.cc)*)
(* with its copy in each thread.                                            *)
(*                                                                          *)
(* An address is a small number; a huge page is Size[type] addresses long   *)
(* and starts at a multiple of it.  The system maps a page to a frame that  *)
(* no earlier mapping had, so that a stale translation shows.               *)
(***************************************************************************)
EXTENDS Integers, Sequences, SequencesExt, FiniteSets, Functions

CONSTANTS
    Threads,
    MaxAddr,      \* addresses are 0 .. MaxAddr - 1
    Types,        \* page sizes, in the order of lookup
    Size,         \* type -> length
    PoolType,     \* opt_.prealloc_page_size
    MaxNums,      \* values of max_num
    Lens,         \* lengths of buffers
    PageNum,      \* pages to preallocate; a region is one page
    MaxFrame      \* bound: mappings over time

VARIABLES
    os,           \* the system's mappings: start -> [type, frame]
    frames,       \* mappings made so far
    initialized,
    left,         \* pages Preallocate has still to allocate, -1 when it is not running
    regions,      \* regions_
    chunks,       \* the chunks of the pool, one to a page
    table,        \* memory_info_by_vaddr_
    tls           \* t_tls_memory_info_by_vaddr_ of each thread

vars == <<os, frames, initialized, left, regions, chunks, table, tls>>

Empty == [a \in {} |-> 0]

Init ==
    /\ os = Empty /\ frames = 0 /\ initialized = FALSE /\ left = -1
    /\ regions = <<>> /\ chunks = <<>> /\ table = Empty
    /\ tls = [t \in Threads |-> Empty]

Put(map, a, e) == [x \in DOMAIN map \cup {a} |-> IF x = a THEN e ELSE map[x]]
Without(map, as) == [x \in DOMAIN map \ as |-> map[x]]

\* AlignPage
Align(a, type) == a - (a % Size[type])

\* Addresses where the system may map a page of the type
Unmapped(type) ==
    {a \in 0 .. MaxAddr - Size[type] :
        /\ Align(a, type) = a
        /\ \A b \in DOMAIN os : b + Size[os[b].type] <= a \/ a + Size[type] <= b}

Page(type) == [type |-> type, frame |-> frames + 1]

(***************************************************************************)
(* Init, Preallocate and Reset                                              *)
(***************************************************************************)
\* A new AddressManager; regions_ is what it was.
PreallocateStart ==
    /\ ~initialized /\ left = -1
    /\ left' = PageNum /\ table' = Empty
    /\ UNCHANGED <<os, frames, initialized, regions, chunks, tls>>

\* AllocHugepages, the frame is read from the page map, AddInternalEntry
AllocRegion(a) ==
    /\ left > 0 /\ frames < MaxFrame /\ a \in Unmapped(PoolType)
    /\ os' = Put(os, a, Page(PoolType)) /\ frames' = frames + 1
    /\ table' = Put(table, a, Page(PoolType))
    /\ regions' = Append(regions, a) /\ left' = left - 1
    /\ UNCHANGED <<initialized, chunks, tls>>

AllocFails ==
    /\ left > 0 /\ left' = -1
    /\ UNCHANGED <<os, frames, initialized, regions, chunks, table, tls>>

\* The physical address cannot be read: every region is unmapped.
PhysFails ==
    /\ left > 0 /\ left' = -1
    /\ os' = Without(os, Range(regions))
    /\ UNCHANGED <<frames, initialized, regions, chunks, table, tls>>

\* The regions are split into chunks.
Split ==
    /\ left = 0 /\ left' = -1
    /\ chunks' = regions /\ initialized' = TRUE
    /\ UNCHANGED <<os, frames, regions, table, tls>>

\* Mutant: the thread keeps its copy.
ClearTlsKept(t) == tls

\* AddressManager::Reset
ClearTls(t) == [tls EXCEPT ![t] = Empty]

\* Reset by thread t when all others have exited, as memory_pool.h asks for
Reset(t) ==
    /\ initialized /\ \A u \in Threads \ {t} : tls[u] = Empty
    /\ os' = Without(os, Range(regions))
    /\ regions' = <<>> /\ chunks' = <<>> /\ table' = Empty
    /\ tls' = ClearTls(t) /\ initialized' = FALSE
    /\ UNCHANGED <<frames, left>>

ThreadExits(t) ==
    /\ tls' = [tls EXCEPT ![t] = Empty]
    /\ UNCHANGED <<os, frames, initialized, left, regions, chunks, table>>

\* ValidateExternalMemInfo: whole pages of their alignment (addresses count from an
\* aligned base that is not nullptr)
ValidateExternalMemInfo(a, type) == Align(a, type) = a

\* The user maps a page of its own and registers it: AddExternalEntries.  It stays mapped.
Register(a, type) ==
    /\ initialized /\ frames < MaxFrame /\ a \in Unmapped(type)
    /\ ValidateExternalMemInfo(a, type)
    /\ os' = Put(os, a, Page(type)) /\ frames' = frames + 1
    /\ table' = Put(table, a, Page(type))
    /\ UNCHANGED <<initialized, left, regions, chunks, tls>>

(***************************************************************************)
(* Lookups                                                                  *)
(***************************************************************************)
\* TableLookUp: the start of the page that holds a, -1 if there is none
TableLookUp(map, a) ==
    LET hits == {i \in DOMAIN Types : Align(a, Types[i]) \in DOMAIN map
                                      /\ map[Align(a, Types[i])].type = Types[i]}
    IN  IF hits = {} THEN -1
        ELSE Align(a, Types[CHOOSE i \in hits : \A j \in hits : i <= j])

\* What thread t finds for address a: its copy first
Find(t, a) ==
    IF TableLookUp(tls[t], a) # -1 THEN tls[t][TableLookUp(tls[t], a)]
    ELSE table[TableLookUp(table, a)]
Found(t, a) == TableLookUp(tls[t], a) # -1 \/ TableLookUp(table, a) # -1

\* GetPhysAddr: what was found in the table is copied
LookUpAddr(t, a) ==
    /\ initialized /\ Found(t, a)
    /\ tls' = [tls EXCEPT ![t] = Put(@, Align(a, Find(t, a).type), Find(t, a))]
    /\ UNCHANGED <<os, frames, initialized, left, regions, chunks, table>>

\* How much of the n addresses from a lies in the page e
Piece(e, a, n) == IF (a - Align(a, e.type)) + n <= Size[e.type] THEN n
                  ELSE Size[e.type] - (a - Align(a, e.type))

\* The loop of GetPhysAddrBound from address a: the pieces of the n addresses, up to
\* the first page that is not found (an empty piece)
Missing == [page |-> -1, frame |-> 0, offset |-> 0, len |-> 0]
Pieces(t, addr, n) ==
    LET from[a \in 0 .. MaxAddr] ==
            IF a >= addr + n THEN <<>>
            ELSE IF a = MaxAddr \/ ~Found(t, a) THEN <<Missing>>
            ELSE LET e == Find(t, a)
                     p == Piece(e, a, addr + n - a)
                 IN  <<[page |-> Align(a, e.type), frame |-> e.frame,
                        offset |-> a - Align(a, e.type), len |-> p]>> \o from[a + p]
    IN  from[addr]

\* Mutant: off by one, the last segment of the caller is not used.
PhysAddrBoundShort(t, a, n, max_num) ==
    LET s == Pieces(t, a, n)
    IN  IF Missing \in Range(s) \/ Len(s) >= max_num THEN <<>> ELSE s

\* What it answers: nothing if a page is missing or there are more pieces than max_num
PhysAddrBound(t, a, n, max_num) ==
    LET s == Pieces(t, a, n)
    IN  IF Missing \in Range(s) \/ Len(s) > max_num THEN <<>> ELSE s

\* The pages it meets, max_num at most, are copied.
GetPhysAddrBound(t, a, n, max_num) ==
    LET s == Pieces(t, a, n)
        met == {s[i].page : i \in {i \in DOMAIN s : i <= max_num /\ s[i] # Missing}}
    IN  /\ initialized /\ ~(met \subseteq DOMAIN tls[t])
        /\ tls' = [tls EXCEPT ![t] = [x \in DOMAIN @ \cup met |-> Find(t, x)]]
        /\ UNCHANGED <<os, frames, initialized, left, regions, chunks, table>>

Next ==
    \/ PreallocateStart \/ AllocFails \/ PhysFails \/ Split
    \/ \E a \in 0 .. MaxAddr - 1 :
          \/ AllocRegion(a) \/ \E type \in Range(Types) : Register(a, type)
          \/ \E t \in Threads :
                \/ LookUpAddr(t, a)
                \/ \E n \in Lens, m \in MaxNums : GetPhysAddrBound(t, a, n, m)
    \/ \E t \in Threads : Reset(t) \/ ThreadExits(t)

Spec == Init /\ [][Next]_vars
-----------------------------------------------------------------------------
\* A translation, in the table or in a thread's copy, is the system's: no reset, new
\* initialisation or registration leaves a thread with the frame of an earlier mapping.
TranslationsCurrent ==
    initialized =>
        \A map \in {table} \cup {tls[t] : t \in Threads} :
            \A a \in DOMAIN map : a \in DOMAIN os /\ os[a] = map[a]

\* The system's translation of an address
Phys(a) ==
    LET s == CHOOSE s \in DOMAIN os : s <= a /\ a < s + Size[os[s].type]
    IN  <<os[s].frame, a - s>>

\* The physical addresses of a sequence of pieces
Addresses(segs) ==
    FlattenSeq([i \in DOMAIN segs |-> [k \in 1 .. segs[i].len |-> <<segs[i].frame, segs[i].offset + k - 1>>]])

\* What GetPhysAddrBound answers for a buffer that lies over pages of different sizes
\* is, address by address, the memory that was asked for, in pieces that are not empty;
\* and it answers whenever the pages are known and max_num suffices.
PiecesExact ==
    initialized =>
        \A t \in Threads, a \in 0 .. MaxAddr - 1, n \in Lens, m \in MaxNums :
            LET s == PhysAddrBound(t, a, n, m)
                pages == {b \in DOMAIN table : b < a + n /\ a < b + Size[table[b].type]}
                known == \A k \in a .. a + n - 1 : \E b \in pages : b <= k /\ k < b + Size[table[b].type]
            IN  /\ s # <<>> <=> known /\ Cardinality(pages) <= m
                /\ s # <<>> => /\ Addresses(s) = [k \in 1 .. n |-> Phys(a + k - 1)]
                               /\ \A i \in DOMAIN s : s[i].len > 0

\* vesal.h:80, "Caller can retry if failed": a pool that is initialised has each of its
\* chunks once, in memory that is mapped and has a physical address.
RetriedPoolIsUsable ==
    initialized =>
        /\ \A i, j \in DOMAIN chunks : chunks[i] = chunks[j] => i = j
        /\ \A i \in DOMAIN chunks : /\ chunks[i] \in DOMAIN os
                                    /\ TableLookUp(table, chunks[i]) = chunks[i]
=============================================================================
