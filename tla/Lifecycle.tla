------------------------------ MODULE Lifecycle ------------------------------
(***************************************************************************)
(* vesal::Init and vesal::Uninit (src/src/common/vesal.cc) and the start    *)
(* and stop of what they own: logging, the scheduler, the memory pool, the  *)
(* QAT driver process, the codecs, the data-flow engines, the cypher and    *)
(* the error-simulation listener.                                           *)
(*                                                                          *)
(* Both calls hold one mutex, so each is one step; what makes them hard is  *)
(* the failures: each of some ten stages can fail, Init then runs the same  *)
(* UninitImpl as Uninit on what was started so far, UninitImpl itself can   *)
(* fail half-way, and the caller may call either again.                     *)
(***************************************************************************)
EXTENDS Integers, FiniteSets

CONSTANTS
    MaxCalls    \* bound: calls of Init and Uninit

VARIABLES
    sys,        \* the global objects
    opts,       \* the options of the Init that succeeded last
    returned,   \* [call, ok, finished]: the last call and whether its UninitImpl finished
    calls

vars == <<sys, opts, returned, calls>>

\* InitOptions: which engines are asked for, and whether the memory pool is
Options == [pool : BOOLEAN, qat : BOOLEAN, dsa : BOOLEAN, cypher : BOOLEAN]

\* logger: g_vesal_logger, spdlog's default one before the first Init and a null pointer
\* after ShutdownLogging.  flush, sched, pool, user: the flush task, the scheduler's
\* thread, MemoryPool::initialized_, g_qat_started.  regions: a pool that is not
\* initialized has regions_ and an addr_manager_.  codec, sw, df, dsa, cypher, uds: the
\* objects.  crashed: a message was logged through a null logger.
Clean == [logger |-> "null", registered |-> FALSE, flush |-> FALSE, sched |-> FALSE,
          pool |-> FALSE, regions |-> FALSE, user |-> FALSE, codec |-> FALSE, sw |-> FALSE,
          df |-> FALSE, dsa |-> FALSE, cypher |-> FALSE, uds |-> FALSE, inited |-> FALSE,
          crashed |-> FALSE]

Init ==
    /\ sys = [Clean EXCEPT !.logger = "default"]
    /\ opts = [pool |-> FALSE, qat |-> FALSE, dsa |-> FALSE, cypher |-> FALSE]
    /\ returned = [call |-> "none", ok |-> TRUE, finished |-> TRUE] /\ calls = 0

-----------------------------------------------------------------------------
(* The stages *)

\* Where Init can fail: InitLogging refuses the settings, mkdir or register_logger fails;
\* ValidateInitOption; Preallocate, when there are no more huge pages; QatUserStart after its
\* three rounds over the section names; the unit managers; the DSA engine
Stages == {"settings", "register", "pool", "prealloc", "user", "codec", "dsa", "cypher"}

\* VESAL_LOG
Logged(s) == [s EXCEPT !.crashed = @ \/ s.logger = "null"]

\* InitLogging; the logger is registered by name, which throws while an earlier one is
\* registered
LoggingFails(s, fail) == fail \in {"settings", "register"} \/ s.registered
InitLogging(s, fail) ==
    IF fail = "settings" THEN s
    ELSE IF LoggingFails(s, fail) THEN [s EXCEPT !.logger = "set"]
    ELSE [s EXCEPT !.logger = "set", !.registered = TRUE, !.flush = TRUE]

\* Codec::Init: nothing of the QatCodec is left when it cannot start
CodecInit(s, o, fail) == [s EXCEPT !.sw = TRUE, !.codec = o.qat /\ fail # "codec"]

\* DataFlowResourceManager::Init: init_ is set and the software engine made first, and a
\* DSA engine that cannot be initialized stays
DataFlowInit(s, o) == [s EXCEPT !.df = TRUE, !.dsa = o.dsa]

\* The Cypher stays when it cannot start
CypherStart(s) == [s EXCEPT !.cypher = TRUE]

\* UdsListener::Start, for a QAT codec that runs
ListenerStart(s) == [s EXCEPT !.uds = s.codec]

Codecs(s, o, fail) ==
    [ListenerStart(CypherStart(DataFlowInit(CodecInit(s, o, fail), o))) EXCEPT
        !.inited = ~(o.qat /\ fail = "codec") /\ ~(o.dsa /\ fail = "dsa")
                   /\ ~(o.cypher /\ fail = "cypher")]

\* Codec::Uninit; DataFlowResourceManager::Uninit, which warns when there is nothing to do;
\* Cypher::Stop
CodecUninit(s) == [s EXCEPT !.codec = FALSE, !.sw = FALSE]
DataFlowUninit(s) == IF s.df THEN [s EXCEPT !.df = FALSE, !.dsa = FALSE] ELSE Logged(s)
CypherStop(s) == [s EXCEPT !.cypher = FALSE]

\* UninitImpl as far as it cannot fail
WithoutCodecs(s) ==
    [CypherStop(DataFlowUninit([CodecUninit(s) EXCEPT !.sched = FALSE])) EXCEPT !.uds = FALSE]

\* Mutant: the memory pool outlives the driver.
WithoutPoolKept(s) ==
    [s EXCEPT !.flush = FALSE, !.logger = "null", !.registered = FALSE, !.inited = FALSE]

\* The end of UninitImpl: MemoryPool::Reset, which does nothing for a pool that is not
\* initialized, ShutdownLogging, Scheduler::Clear
WithoutPool(s) ==
    [s EXCEPT !.pool = FALSE, !.regions = @ /\ ~s.pool, !.flush = FALSE,
              !.logger = "null", !.registered = FALSE, !.inited = FALSE]

\* QatUserStart is done once; QatUserStop can fail, and logs that
UserStarts(s, o) == (o.qat \/ o.cypher) /\ ~s.user
UserStopFails(s, stop) == s.user /\ ~stop

\* UninitImpl; a failing QatUserStop ends it early
UninitImpl(s, stop) ==
    LET t == WithoutCodecs(s)
    IN  IF UserStopFails(t, stop) THEN Logged(t) ELSE WithoutPool([t EXCEPT !.user = FALSE])

\* ChunkPool::Init: a Preallocate that fails returns with the address manager and the regions
\* it has so far, which a later one that succeeds makes part of the pool
PoolFails(s, o, fail) == o.pool /\ ~s.pool /\ fail \in {"pool", "prealloc"}
Preallocate(s, fail) ==
    IF s.pool THEN s
    ELSE [s EXCEPT !.pool = fail \notin {"pool", "prealloc"},
                   !.regions = IF fail = "pool" THEN @ ELSE fail = "prealloc"]

\* Init up to the point where it returns, before the deferred UninitImpl
Started(s, o, fail) ==
    LET t == [InitLogging(s, fail) EXCEPT !.sched = TRUE]
        p == IF o.pool THEN Preallocate(t, fail) ELSE t
        u == [p EXCEPT !.user = @ \/ o.qat \/ o.cypher]
        no_pool == ~o.pool /\ (o.qat \/ o.cypher \/ o.dsa)
    IN  IF LoggingFails(s, fail) THEN InitLogging(s, fail)
        ELSE IF no_pool THEN t
        ELSE IF PoolFails(s, o, fail) THEN p
        ELSE IF UserStarts(s, o) /\ fail = "user" THEN p
        ELSE Codecs(u, o, fail)

\* Mutant: Init cleans up only after a stage that follows the driver.
NeedsCleanupLate(s) == ~s.inited /\ s.df

\* The deferred cleanup of Init
NeedsCleanup(s) == ~s.inited

\* vesal::Init
InitCall(o, fail, stop) ==
    LET s == Started(sys, o, fail)
        t == IF NeedsCleanup(s) THEN UninitImpl(s, stop) ELSE s
    IN  /\ calls < MaxCalls /\ ~sys.crashed
        /\ sys' = IF sys.inited THEN sys ELSE t
        /\ opts' = IF ~sys.inited /\ s.inited THEN o ELSE opts
        /\ returned' = [call |-> "Init", ok |-> sys.inited \/ s.inited,
                        finished |-> IF sys.inited THEN returned.finished
                                     ELSE ~(NeedsCleanup(s) /\ UserStopFails(s, stop))]
        /\ calls' = calls + 1

\* vesal::Uninit
Uninit(stop) ==
    LET ok == ~sys.inited \/ ~UserStopFails(sys, stop)
    IN  /\ calls < MaxCalls /\ ~sys.crashed
        /\ sys' = IF sys.inited THEN UninitImpl(sys, stop) ELSE sys
        /\ returned' = [call |-> "Uninit", ok |-> ok,
                        finished |-> IF sys.inited THEN ok ELSE returned.finished]
        /\ calls' = calls + 1
        /\ UNCHANGED opts

Next ==
    \/ \E o \in Options, f \in Stages \cup {"none"}, stop \in BOOLEAN : InitCall(o, f, stop)
    \/ \E stop \in BOOLEAN : Uninit(stop)

Spec == Init /\ [][Next]_vars

-----------------------------------------------------------------------------
(* Properties *)

\* The global objects
Objects == [logger : {"default", "set", "null"}, registered : BOOLEAN, flush : BOOLEAN,
            sched : BOOLEAN, pool : BOOLEAN, regions : BOOLEAN, user : BOOLEAN,
            codec : BOOLEAN, sw : BOOLEAN, df : BOOLEAN, dsa : BOOLEAN,
            cypher : BOOLEAN, uds : BOOLEAN, inited : BOOLEAN, crashed : BOOLEAN]

TypeOK ==
    /\ sys \in Objects /\ opts \in Options
    /\ returned \in [call : {"none", "Init", "Uninit"}, ok : BOOLEAN, finished : BOOLEAN]

\* The objects of a library that is not up
NothingRuns(s) ==
    s.logger # "set" /\ [s EXCEPT !.regions = FALSE, !.logger = "null"] = Clean

\* A failed Init leaves no engine, thread or driver process behind, wherever it failed, and
\* so does Uninit ("initialized atomically", vesal.h:80): unless QatUserStop failed, all is
\* as before the first Init but for the regions of a Preallocate that failed, which the
\* code does leave mapped (ChunkPool::Reset returns early, chunk_pool.cc:61).  After a
\* success there is everything that was asked for, and such regions belong to the pool.
AllOrNothing ==
    /\ ~sys.inited /\ returned.finished /\ ~sys.crashed => NothingRuns(sys)
    /\ sys.pool => ~sys.regions
    /\ sys.inited /\ returned.finished =>
         /\ sys.sched /\ sys.flush /\ sys.sw /\ sys.df /\ sys.cypher
         /\ opts.pool => sys.pool
         /\ opts.qat => sys.codec /\ sys.user /\ sys.pool
         /\ opts.cypher => sys.user
         /\ opts.dsa => sys.dsa /\ sys.pool

\* What still runs finds what it works on: the engines have the driver and the pool, and the
\* flush task, which the scheduler runs, its logger - also between a call that failed and
\* the next one.
NothingDangles ==
    /\ sys.codec \/ sys.uds => sys.user /\ sys.pool
    /\ sys.dsa => sys.pool
    /\ sys.flush => sys.logger = "set"
    /\ sys.user => sys.pool

\* A DSA engine is kept by the DataFlowResourceManager, which is up with it: its Uninit
\* returns early only when there is no engine to stop.
EnginesOwned == sys.dsa => sys.df

\* After a failure Init can be called again ("Caller can retry if failed", vesal.h:80): no call
\* logs through the logger that the clean-up of an earlier one took away.
RetryIsSafe == ~sys.crashed
=============================================================================
