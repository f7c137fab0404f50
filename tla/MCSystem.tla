------------------------------ MODULE MCSystem ------------------------------
(***************************************************************************)
(* The queue between threads, and the parts of the library around the       *)
(* channels: memory, addresses, buffers, timers, units, the library's life, *)
(* the tools and the functions.  A behaviour is one of them; part says      *)
(* which.  The queue has its own variables, which rest in the behaviours of *)
(* the others; these keep their state in s1, s2, ...                        *)
(***************************************************************************)
EXTENDS MpscQueue, TLC

CONSTANTS p1, p2, p3, t1, t2, n1, n2, n3, h1, h2, NoNode

VARIABLES part, s1, s2, s3, s4, s5, s6, s7, s8, s9, s10, s11, s12, s13

state == <<s1, s2, s3, s4, s5, s6, s7, s8, s9, s10, s11, s12, s13>>
all == <<part, vars, state>>

Id(pf, vf, inst) == [pf |-> pf, vf |-> vf, inst |-> inst]
Rec(ts) == [submit_ts_ns |-> ts, req_id |-> 1, truncated |-> FALSE, codec_algo |-> "kLz4",
            comp_level |-> 1, direction |-> "kComp"]
File(n, records) == [header |-> TRUE, entries |-> n, records |-> records]

\* Three nodes for two managers
Timers == INSTANCE TimerManager WITH
    Nodes <- {n1, n2, n3}, Timeout <- [req |-> 1, mem |-> 2], MaxTime <- 3,
    list <- s1, free <- s2, now <- s3, handling <- s4, clearing <- s5, added <- s6

\* Chunks of two objects
Objects == INSTANCE ObjectPool WITH
    ObjectNum <- 2, CacheSize <- 2, FreeChunks <- 1, Chunks <- 3,
    allocated <- s1, freed <- s2, used_num <- s3, free_num <- s4, current <- s5,
    cache <- s6, full_free <- s7, shutdown <- s8, live <- s9

\* Two threads, two chunks, of two small blocks or one big one
Pool == INSTANCE ChunkPool WITH
    Threads <- {t1, t2}, ChunkNum <- 2, Classes <- {"s", "b"}, BlockNum <- [s |-> 2, b |-> 1],
    FetchNum <- 1, Threshold <- 1, RecycleNum <- 1, MaxCache <- 3,
    chunks <- s1, chunk <- s2, cache <- s3, orphans <- s4, my <- s5, pc <- s6, held <- s7,
    used_dead <- s8

\* Pages of two and of four units
Addresses == INSTANCE AddressTable WITH
    Threads <- {t1, t2}, MaxAddr <- 6, Types <- <<"2MB", "1GB">>,
    Size <- ("2MB" :> 2 @@ "1GB" :> 4), PoolType <- "2MB", PageNum <- 2,
    MaxNums <- {1, 2}, Lens <- {1, 3}, MaxFrame <- 4,
    os <- s1, frames <- s2, initialized <- s3, left <- s4, regions <- s5, chunks <- s6,
    table <- s7, tls <- s8

\* Vectors with short and empty pieces; no frame, and headers of one and two
Buffers == INSTANCE QatBuffer WITH
    MaxInQat <- 1, DstSize <- 4, Slots <- {1, 2},
    Vectors <- {<<2>>, <<1, 2>>, <<2, 1>>, <<1, 0, 2>>, <<2, 1, 1>>, <<0, 3>>, <<3, 0>>},
    Frames <- {<<0, 0>>, <<1, 1>>, <<2, 1>>},
    svm <- s1, cache <- s2, in_cache <- s3, num <- s4, pieces <- s5, reqs <- s6,
    allocated <- s7, user <- s8, aborted <- s9

\* Three units on two devices
Units == INSTANCE QatUnits WITH
    UnitNum <- 3, Device <- <<"d1", "d1", "d2">>, Handles <- {h1, h2},
    Algos <- {"lz4", "zlib"}, AnyDevice <- "any",
    caps <- s1, listed <- s2, blacklisted <- s3, ref_cnt <- s4, pf_in_use <- s5, unit <- s6,
    cache <- s7, old_units <- s8, old_sess <- s9, result <- s10

\* Six calls of Init and Uninit
Library == INSTANCE Lifecycle WITH
    MaxCalls <- 6,
    sys <- s1, opts <- s2, returned <- s3, calls <- s4

\* Two units, and an instance that does not exist
Errors == INSTANCE ErrSimulation WITH
    Unit <- <<Id(0, 0, 0), Id(0, 1, 0)>>, Ids <- {Id(0, 0, 0), Id(0, 1, 0), Id(1, 1, 1)},
    Codes <- {3}, MaxCnt <- 2, MaxInject <- 2, MaxTime <- 3,
    sim <- s1, now <- s2, injected <- s3, broken <- s4, want <- s5, given <- s6

ASSUME TimersAssumption == Timers!ConstantsOK
ASSUME ErrorsAssumption == Errors!ConstantsOK

\* Buses with two devices, with a device id that reads as negative, and with none
Dsa == INSTANCE DsaUioConfig WITH
    Buses <- {<<"other", "dsa", "dsa">>, <<"dsa", "negative", "dsa">>, <<"other">>},
    Quotas <- {0, 2, -1}, MaxStarts <- 3,
    bus <- s1, hw <- s2, up <- s3, init <- s4, udi <- s5, uwi <- s6, avail <- s7,
    init_done <- s8, lost <- s9, at <- s10, list <- s11, phase <- s12, starts <- s13

Stub == INSTANCE DummyDriver WITH
    loaded <- s1, ptrs <- s2, codec_ok <- s3, cypher_ok <- s4, kae_ok <- s5, started <- s6,
    null <- s7

\* Three calls, two of which the queue holds
Software == INSTANCE SwChannels WITH
    Capacity <- 2, MaxReq <- 3, MaxPoll <- 2,
    algo <- s1, closed <- s2, dctx <- s3, queue <- s4, calls <- s5, answers <- s6

\* Four requests, two in the hardware
Dedicated == INSTANCE DedicatedChannel WITH
    MaxInQat <- 2, MaxReq <- 4, MaxPoll <- 2,
    accepted <- s1, ready <- s2, received <- s3, caller <- s4, syncs <- s5, called <- s6

\* Values that are not those of other flags
WantedFlags ==
    [max_in_qat_num |-> 100, sample_rate |-> 101, disable_poller_metrics |-> 1,
     console_output |-> 1, log_level |-> 102, min_counting_time_window_us |-> 103,
     sliding_time_window_sec |-> 104, trigger_error_num |-> 105,
     poller_op_process_num |-> 106, poller_num |-> 107, poller_sleep_time_us |-> 108]

\* A name that fits and one that does not, every engine and mode and one that does not exist;
\* the program sets no flag, one of the booleans or all
CInterface == INSTANCE CApi WITH
    Wanted <- WantedFlags, Chosen <- {{}, {"console_output"}, DOMAIN WantedFlags}, Names <- {0, 4}, StrSize <- 4, Engines <- {1, 2, 3},
    Modes <- {1, 2, 3}, Algorithms <- {1, 3}, Checksums <- {1, 3}, KeyLens <- {0, 16},
    SgNums <- {0, 1, 3}, SgLimit <- 2, MaxReq <- 2, MaxInit <- 2,
    svm <- s1, flags <- s2, given <- s3, inits <- s4, lib <- s5, chan <- s6, alive <- s7,
    reqs <- s8, got <- s9, lost <- s10, left <- s11, aborted <- s12

\* Two crash slots; a file of three records beside an empty one, two files of a record each,
\* records that are refused, a file cut short
Replay == INSTANCE DataReplay WITH
    Workers <- {"f1", "f2"}, LoopNum <- 1, InflightNum <- 3, MaxRecords <- 0, Slots <- 2,
    Statuses <- {"kTimeout"},
    Files <- {("f1" :> File(3, <<Rec(1), Rec(2), Rec(3)>>) @@ "f2" :> File(0, <<>>)),
              ("f1" :> File(1, <<Rec(2)>>) @@ "f2" :> File(1, <<Rec(1)>>)),
              ("f1" :> File(1, <<[Rec(1) EXCEPT !.truncated = TRUE]>>) @@
               "f2" :> File(1, <<[Rec(1) EXCEPT !.comp_level = 0]>>)),
              ("f1" :> File(1, <<Rec(1)>>) @@ "f2" :> File(2, <<Rec(1)>>))},
    mode <- s1, file <- s2, main <- s3, exit <- s4, worker <- s5, results <- s6, seq <- s7,
    slots <- s8, crash <- s9, shared <- s10

\* Two threads, three loops on two slots
Demo == INSTANCE QatLz4Simple WITH
    Threads <- {"a", "b"}, LoopNum <- 3, InflightNum <- 2, Interval <- 2,
    Statuses <- {"kTimeout"},
    thread <- s1, work <- s2, cb <- s3, stop <- s4, error <- s5, count <- s6, exit <- s7

\* Two threads, rings of two contexts, and batches that wrap around the chunks
Perf == INSTANCE PerfLoops WITH
    Threads <- {"a", "b"}, ChannelNum <- 2, InflightNum <- 2, ChunksNum <- 3,
    IterationNum <- 2, ChunkNum <- 5, BatchSize <- 2, Quota <- 6, PageSize <- 4, PageNum <- 3,
    Lens <- {1, 2, 3, 4},
    prog <- s1, thread <- s2, phase <- s3, timer <- s4, total <- s5, flow <- s6,
    offset <- s7, chunk <- s8

\* Block sizes around the unit, files of three lines, registers of six bits
Pure == INSTANCE Conversions WITH
    Unit <- 4, Blocks <- 5, MaxLines <- 3, MinConcurrency <- 2, DefaultConcurrency <- 3,
    MaxConcurrency <- 8, MaxChars <- 5, W <- 6, Row <- 2, Poly <- {0, 1, 2, 3, 5},
    InitCrc <- {0, 1, 2, 3, 4, 5}, Mask <- 3, Full <- 2, SgLimit <- 2,
    Lines <- [kind : {"ours", "other"}, value : {0}] \cup [kind : {"key"}, value : {1, 4, 9}],
    call <- s1

\* The variables from s_k on rest.
Idle(k) ==
    /\ k <= 1 => s1 = 0
    /\ k <= 2 => s2 = 0
    /\ k <= 3 => s3 = 0
    /\ k <= 4 => s4 = 0
    /\ k <= 5 => s5 = 0
    /\ k <= 6 => s6 = 0
    /\ k <= 7 => s7 = 0
    /\ k <= 8 => s8 = 0
    /\ k <= 9 => s9 = 0
    /\ k <= 10 => s10 = 0
    /\ k <= 11 => s11 = 0
    /\ k <= 12 => s12 = 0
    /\ k <= 13 => s13 = 0

SystemInit ==
    /\ Init
    /\ \/ part = "queue" /\ Idle(1)
       \/ part = "timers" /\ Timers!Init /\ Idle(7)
       \/ part = "objects" /\ Objects!Init /\ Idle(10)
       \/ part = "blocks" /\ Pool!Init /\ Idle(9)
       \/ part = "addresses" /\ Addresses!Init /\ Idle(9)
       \/ part = "buffers" /\ Buffers!Init /\ Idle(10)
       \/ part = "units" /\ Units!Init /\ Idle(11)
       \/ part = "library" /\ Library!Init /\ Idle(5)
       \/ part = "errors" /\ Errors!Init /\ Idle(7)
       \/ part = "dsa" /\ Dsa!Init
       \/ part = "stub" /\ Stub!Init /\ Idle(8)
       \/ part = "software" /\ Software!Init /\ Idle(7)
       \/ part = "dedicated" /\ Dedicated!Init /\ Idle(7)
       \/ part = "capi" /\ CInterface!Init /\ Idle(13)
       \/ part = "replay" /\ Replay!Init /\ Idle(11)
       \/ part = "demo" /\ Demo!Init /\ Idle(8)
       \/ part = "perf" /\ Perf!Init /\ Idle(9)
       \/ part = "functions" /\ Pure!Init /\ Idle(2)

SystemNext ==
    \/ part = "queue" /\ Next /\ UNCHANGED <<part, state>>
    \/ part = "timers" /\ Timers!Next
       /\ UNCHANGED <<part, vars, s7, s8, s9, s10, s11, s12, s13>>
    \/ part = "objects" /\ Objects!Next /\ UNCHANGED <<part, vars, s10, s11, s12, s13>>
    \/ part = "blocks" /\ Pool!Next /\ UNCHANGED <<part, vars, s9, s10, s11, s12, s13>>
    \/ part = "addresses" /\ Addresses!Next
       /\ UNCHANGED <<part, vars, s9, s10, s11, s12, s13>>
    \/ part = "buffers" /\ Buffers!Next /\ UNCHANGED <<part, vars, s10, s11, s12, s13>>
    \/ part = "units" /\ Units!Next /\ UNCHANGED <<part, vars, s11, s12, s13>>
    \/ part = "library" /\ Library!Next
       /\ UNCHANGED <<part, vars, s5, s6, s7, s8, s9, s10, s11, s12, s13>>
    \/ part = "errors" /\ Errors!Next
       /\ UNCHANGED <<part, vars, s7, s8, s9, s10, s11, s12, s13>>
    \/ part = "dsa" /\ Dsa!Next /\ UNCHANGED <<part, vars>>
    \/ part = "stub" /\ Stub!Next /\ UNCHANGED <<part, vars, s8, s9, s10, s11, s12, s13>>
    \/ part = "software" /\ Software!Next
       /\ UNCHANGED <<part, vars, s7, s8, s9, s10, s11, s12, s13>>
    \/ part = "dedicated" /\ Dedicated!Next
       /\ UNCHANGED <<part, vars, s7, s8, s9, s10, s11, s12, s13>>
    \/ part = "capi" /\ CInterface!Next /\ UNCHANGED <<part, vars, s13>>
    \/ part = "replay" /\ Replay!Next /\ UNCHANGED <<part, vars, s11, s12, s13>>
    \/ part = "demo" /\ Demo!Next /\ UNCHANGED <<part, vars, s8, s9, s10, s11, s12, s13>>
    \/ part = "perf" /\ Perf!Next /\ UNCHANGED <<part, vars, s9, s10, s11, s12, s13>>
    \/ part = "functions" /\ Pure!Next
       /\ UNCHANGED <<part, vars, s2, s3, s4, s5, s6, s7, s8, s9, s10, s11, s12, s13>>

\* Fairness matters to the queue only.
SystemSpec ==
    /\ SystemInit /\ [][SystemNext]_all
    /\ \A p \in Producers : WF_vars(part = "queue" /\ (PushLink(p) \/ PushCount(p)))
    /\ WF_vars(part = "queue" /\ Pop)

-----------------------------------------------------------------------------
\* The managers' lists are well formed whatever a callback adds or removes, and timers fire
\* when they are due and in order.
TimersExact == [][part = "timers" => Timers!TimerLists' /\ Timers!DueTimersFire]_all

\* A call on a software channel does not depend on the calls before it, and a synchronous
\* call on an idle dedicated channel gets its own result.  A call through the C interface
\* does what it says of flags, channels and requests.
CallsExact ==
    /\ part = "software" => Software!CallsIndependent
    /\ part = "dedicated" => Dedicated!SyncAloneOwnResult
    /\ part = "capi" => /\ CInterface!FlagsAsAsked /\ CInterface!ResultsOnce
                        /\ CInterface!ChannelsAccounted /\ CInterface!ChannelsKnown
                        /\ CInterface!SourceAlive

\* The object pool frees each of its chunks once, when nothing of it is in use; the chunk
\* pool loses no block and hands none out twice, across threads that come and go.
MemoryAccounted ==
    /\ part = "objects" => Objects!ChunksFreedExactly
    /\ part = "blocks" => Pool!BlocksAccounted

\* A translation is the system's mapping, and a range is cut where the memory is not
\* contiguous; a request's DMA memory is given back once, and its data passes through it
\* unchanged.
DmaExact ==
    /\ part = "addresses" => Addresses!TranslationsCurrent /\ Addresses!PiecesExact
    /\ part = "buffers" => Buffers!DmaMemoryExact /\ Buffers!DataExact

\* What the tools rely on: the table of crash records is exact, callbacks find the stack they
\* were given, and no context is reused while its request is under way.
RequestsOutlive ==
    /\ part = "replay" => Replay!CrashReportExact
    /\ part = "demo" => Demo!WindowsOutlive /\ Demo!ComparesOwnInput
    /\ part = "perf" => Perf!ContextsFree /\ Perf!ChunksInPages

\* What the tools report: success means that everything was done, and totals are complete.
ReportsExact ==
    /\ part = "replay" => Replay!SummaryExact
    /\ part = "demo" => Demo!SuccessExact
    /\ part = "perf" => Perf!RunsComplete /\ Perf!TotalsExact

\* Units are counted exactly, and a session runs on a unit that can do its work.
UnitsExact == part = "units" => Units!UnitsExact /\ Units!SessionsFitUnit

\* Init and Uninit leave the library as a whole or not at all.
AllOrNothing == part = "library" => Library!AllOrNothing /\ Library!NothingDangles

\* A unit gives the errors the tool asked of it, no more and no longer.
ErrorsAsAsked == part = "errors" => Errors!ErrorsAsAsked

\* Work queues are handed out once and come back.
QueuesAccounted == part = "dsa" => Dsa!QueuesAccounted

\* The stub's flags say what can be called.
StubCallsLoaded == part = "stub" => Stub!StubCallsLoaded

\* The pure functions compute what they are meant to.
ConversionsExact == part = "functions" => Pure!ConversionsExact
=============================================================================
