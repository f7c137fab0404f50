------------------------------ MODULE QatUnits ------------------------------
(***************************************************************************)
(* QatUnitManager, QatUnit, QatHandle and QatSession (src/src/common/qat/,  *)
(* src/src/codec/qat/qat_handle.cc): the hardware instances ("units") of a  *)
(* machine, which channel's handle holds which unit, the failover of a      *)
(* handle to a unit of another device, and the driver sessions a handle     *)
(* opens on its unit.                                                       *)
(*                                                                          *)
(* Every operation of the manager runs under its mutex and is a step; a     *)
(* handle belongs to one thread, and the operations of two handles          *)
(* interleave between the calls they make of the manager.                   *)
(***************************************************************************)
EXTENDS Integers, Sequences, SequencesExt, FiniteSetsExt

CONSTANTS
    UnitNum,    \* instances cpaDcGetInstances reports
    Device,     \* unit -> the physical device (pf) it is on
    Handles,    \* one for each channel
    Algos,      \* algorithms the channels ask sessions for
    AnyDevice   \* selection.pf_id < 0

VARIABLES
    caps,       \* unit -> what the hardware supports (driver, fixed)
    listed,     \* all_units_ is filled
    blacklisted, ref_cnt,   \* QatUnit
    pf_in_use,  \* pf_in_use_cnt_, on the devices that have an entry
    unit,       \* handle -> unit_, 0 if none
    cache,      \* handle -> session_cache_, the sessions of unit_
    old_units,  \* handle -> discarded_units_
    old_sess,   \* handle -> discarded_sessions_
    result      \* handle -> what the last Init, Reinit or Uninit returned, or which of
                \* them is at work

vars == <<caps, listed, blacklisted, ref_cnt, pf_in_use, unit, cache, old_units, old_sess,
          result>>
manager == <<listed, blacklisted, ref_cnt, pf_in_use>>

Units == 1 .. UnitNum
Devices == {Device[u] : u \in Units}

\* CpaDcInstanceCapabilities, as far as QueryCapabilities reads them: the codecs, and the
\* checksums and verification in one
Capabilities == {"lz4", "lz4s", "deflate", "checksums"}

\* Mutant: the deflate capability is not required at start-up.
RequiredNoDeflate == Capabilities \ {"deflate"}

\* QueryCapabilities: what a unit must support to be started
Required == Capabilities

\* SetQatSessionData: the codec of the hardware that a session of the algorithm uses
CompType(algo) ==
    CASE algo = "lz4" -> "lz4" [] algo = "zstd" -> "lz4s" [] algo \in {"deflate", "zlib"} -> "deflate"

\* CheckCapabilities: the attributes it looks at, for kZlib only the checksums
CheckCapabilities(u, algo) ==
    /\ algo \in {"lz4", "zstd", "deflate"} => CompType(algo) \in caps[u]
    /\ "checksums" \in caps[u]

\* A session of the driver: the unit it was initialized on, its algorithm, whether the
\* driver still has it, and whether calls on it are outstanding
Session(u, algo) == [unit |-> u, algo |-> algo, open |-> TRUE, busy |-> FALSE]

Init ==
    /\ caps \in [Units -> {Capabilities} \cup {Capabilities \ {c} : c \in Capabilities}]
    /\ listed = FALSE
    /\ blacklisted = [u \in Units |-> FALSE] /\ ref_cnt = [u \in Units |-> 0]
    /\ pf_in_use = <<>>
    /\ unit = [h \in Handles |-> 0] /\ cache = [h \in Handles |-> {}]
    /\ old_units = [h \in Handles |-> <<>>] /\ old_sess = [h \in Handles |-> {}]
    /\ result = [h \in Handles |-> "none"]

-----------------------------------------------------------------------------
(* QatUnitManager *)

\* QatUnit::Start: the units it can succeed on; each of its driver calls may fail too
Startable == {u \in Units : Required \subseteq caps[u]}

\* Init: start every unit; one that lacks a capability or that the driver fails to
\* start is listed on the black list
ManagerInit ==
    /\ ~listed /\ listed' = TRUE
    /\ \E ok \in SUBSET Startable :
         /\ blacklisted' = [u \in Units |-> u \notin ok]
         /\ pf_in_use' = [d \in {Device[u] : u \in ok} |-> 0]
    /\ UNCHANGED <<caps, ref_cnt, unit, cache, old_units, old_sess, result>>

\* Uninit: stop every unit and forget them; the codec is stopped after the channels
ManagerUninit ==
    /\ listed /\ listed' = FALSE
    /\ \A h \in Handles : unit[h] = 0 /\ old_units[h] = <<>>
    /\ blacklisted' = [u \in Units |-> FALSE] /\ ref_cnt' = [u \in Units |-> 0]
    /\ pf_in_use' = <<>>
    /\ UNCHANGED <<caps, unit, cache, old_units, old_sess, result>>

\* Mutant: a unit is taken although another channel holds it.
UsableShared(u) == ~blacklisted[u]

\* QatUnit::Usable
Usable(u) == ~blacklisted[u] /\ ref_cnt[u] = 0

InUseOn(d) == IF d \in DOMAIN pf_in_use THEN pf_in_use[d] ELSE 0

\* The loop of both grabs: the first of the least busy ones
LeastBusy(us) ==
    LET least == Min({InUseOn(Device[u]) : u \in us})
    IN  Min({u \in us : InUseOn(Device[u]) = least})

FitSelection(d, u) == d \in {AnyDevice, Device[u]}

\* GrabAvailableUnit: the unit it returns, 0 if none
GrabAvailableUnit(d) ==
    LET us == {u \in Units : Usable(u) /\ FitSelection(d, u)}
    IN  IF us = {} THEN 0 ELSE LeastBusy(us)

\* Mutant: only the unit itself is excluded, not its device.
GrabFromDiffDeviceSame(excluded) ==
    LET us == {u \in Units : Usable(u) /\ u \notin excluded}
    IN  IF us = {} THEN 0 ELSE LeastBusy(us)

\* GrabFromDiffDevice: the unit it returns, 0 if none
GrabFromDiffDevice(excluded) ==
    LET us == {u \in Units : Usable(u) /\ \A e \in excluded : Device[e] # Device[u]}
    IN  IF us = {} THEN 0 ELSE LeastBusy(us)

\* What taking the units us, and giving back the units gs, does to the counts
Delta(us, gs, d) ==
    Cardinality({u \in us : Device[u] = d}) - Cardinality({u \in gs : Device[u] = d})

Count(us, gs) ==
    /\ ref_cnt' = [u \in Units |-> ref_cnt[u] + (IF u \in us THEN 1 ELSE 0)
                                              - (IF u \in gs THEN 1 ELSE 0)]
    /\ pf_in_use' = [d \in DOMAIN pf_in_use |-> pf_in_use[d] + Delta(us, gs, d)]

-----------------------------------------------------------------------------
(* QatHandle *)

\* Init failed and is about to call Uninit; in the loop of Reinit; in the last of Uninit
AtWork(h) == result[h] \in {"init failed", "reinit", "uninit"}

\* QatHandle::Init: grab a unit and open the default session; when that fails, Uninit
\* gives the unit back
HandleInit(h, d, algo) ==
    LET u == GrabAvailableUnit(d)
    IN  /\ listed /\ unit[h] = 0 /\ old_units[h] = <<>> /\ cache[h] = {} /\ ~AtWork(h)
        /\ \/ /\ u = 0 /\ result' = [result EXCEPT ![h] = "busy"]
              /\ UNCHANGED <<manager, unit, cache>>
           \/ /\ u # 0 /\ CheckCapabilities(u, algo)
              /\ Count({u}, {}) /\ unit' = [unit EXCEPT ![h] = u]
              /\ cache' = [cache EXCEPT ![h] = {Session(u, algo)}]
              /\ result' = [result EXCEPT ![h] = "ok"]
              /\ UNCHANGED <<listed, blacklisted>>
           \/ /\ u # 0 /\ Count({u}, {}) /\ unit' = [unit EXCEPT ![h] = u]
              /\ result' = [result EXCEPT ![h] = "init failed"]
              /\ UNCHANGED <<listed, blacklisted, cache>>
        /\ UNCHANGED <<caps, old_units, old_sess>>

\* QatSession::Init: none when the unit cannot do what the session is for
SessionInit(u, algo) == {Session(u, a) : a \in {b \in {algo} : CheckCapabilities(u, b)}}

\* GetOrCreateSession: the cached session of the algorithm, or a new one if it can be opened
GetOrCreateSession(h, algo) ==
    LET have == {s \in cache[h] : s.algo = algo}
    IN  IF have # {} THEN have
        ELSE SessionInit(unit[h], algo)

\* SubmitAsync: the session of the algorithm gets a call
SubmitAsync(h, algo) ==
    /\ unit[h] # 0 /\ result[h] # "close failed" /\ ~AtWork(h)
    /\ \E sess \in GetOrCreateSession(h, algo) :
         cache' = [cache EXCEPT ![h] = (@ \ {sess}) \cup {[sess EXCEPT !.busy = TRUE]}]
    /\ UNCHANGED <<caps, manager, unit, old_units, old_sess, result>>

\* PollInstance of the current unit: outstanding calls of some sessions are answered
PollInstance(h, done) ==
    /\ unit[h] # 0 /\ done # {} /\ done \subseteq {s \in cache[h] : s.busy}
    /\ cache' = [cache EXCEPT ![h] = (@ \ done) \cup {[s EXCEPT !.busy = FALSE] : s \in done}]
    /\ UNCHANGED <<caps, manager, unit, old_units, old_sess, result>>

\* Reinit: the sessions and the unit are kept for later
Reinit(h) ==
    /\ unit[h] # 0 /\ result[h] # "close failed" /\ ~AtWork(h)
    /\ old_sess' = [old_sess EXCEPT ![h] = @ \cup cache[h]]
    /\ cache' = [cache EXCEPT ![h] = {}]
    /\ old_units' = [old_units EXCEPT ![h] = Append(@, unit[h])]
    /\ unit' = [unit EXCEPT ![h] = 0]
    /\ result' = [result EXCEPT ![h] = "reinit"]
    /\ UNCHANGED <<caps, manager>>

\* Mutant: a unit whose session failed is not kept with the discarded ones.
DiscardedForgets(olds, u) == olds

\* Reinit's discarded_units_ after the session of a unit could not be opened
Discarded(olds, u) == Append(olds, u)

\* The loop of Reinit: try a unit of a further device, until the default session opens
TryUnit(h, algo) ==
    LET u == GrabFromDiffDevice(Range(old_units[h]))
    IN  /\ result[h] = "reinit"
        /\ \/ /\ u = 0 /\ result' = [result EXCEPT ![h] = "hardware error"]
              /\ UNCHANGED <<manager, unit, cache, old_units>>
           \/ /\ u # 0 /\ CheckCapabilities(u, algo)
              /\ Count({u}, {}) /\ unit' = [unit EXCEPT ![h] = u]
              /\ cache' = [cache EXCEPT ![h] = {Session(u, algo)}]
              /\ result' = [result EXCEPT ![h] = "ok"]
              /\ UNCHANGED <<listed, blacklisted, old_units>>
           \/ /\ u # 0 /\ Count({u}, {})
              /\ old_units' = [old_units EXCEPT ![h] = Discarded(@, u)]
              /\ UNCHANGED <<listed, blacklisted, unit, cache, result>>
        /\ UNCHANGED <<caps, old_sess>>

\* QatSession::Close: the driver removes a session when no calls on it are outstanding.
SessionClose(s) == IF s.busy THEN s ELSE [s EXCEPT !.open = FALSE]

\* TryCloseSession polls and tries again, ten times: calls of the sessions left are still
\* outstanding then, and those of others may have been answered.
TryCloseSession(sessions, left, closed) ==
    LET after(s) == [s EXCEPT !.busy = s \in left]
    IN  {IF s \in closed THEN SessionClose(after(s)) ELSE after(s) : s \in sessions}

\* Uninit when TryCloseSession gives up on a session; the sessions visited before it are
\* closed
UninitFails(h) ==
    \E left \in SUBSET {s \in cache[h] : s.busy}, closed \in SUBSET cache[h] :
        /\ left # {} /\ left \cap closed = {}
        /\ cache' = [cache EXCEPT ![h] = TryCloseSession(@, left, closed)]
        /\ result' = [result EXCEPT ![h] = "close failed"]
        /\ UNCHANGED <<caps, manager, unit, old_units, old_sess>>

\* Uninit when every session of the cache can be closed: the discarded sessions are
\* closed as far as possible and deleted, and PutBackUnit takes the unit
Uninit(h) ==
    /\ unit[h] # 0 \/ old_units[h] # <<>>
    /\ result[h] \notin {"reinit", "uninit"}
    /\ Count({}, {unit[h]} \ {0})
    /\ unit' = [unit EXCEPT ![h] = 0] /\ cache' = [cache EXCEPT ![h] = {}]
    /\ old_sess' = [old_sess EXCEPT ![h] = {}]
    /\ result' = [result EXCEPT ![h] = IF old_units[h] = <<>> THEN "ok" ELSE "uninit"]
    /\ UNCHANGED <<caps, listed, blacklisted, old_units>>

\* The last loop of Uninit: PutBackToBlackList of each discarded unit
PutBackToBlackList(h) ==
    LET u == Head(old_units[h])
    IN  /\ result[h] = "uninit"
        /\ Count({}, {u}) /\ blacklisted' = [blacklisted EXCEPT ![u] = TRUE]
        /\ old_units' = [old_units EXCEPT ![h] = Tail(@)]
        /\ result' = [result EXCEPT ![h] = IF Len(old_units[h]) = 1 THEN "ok" ELSE @]
        /\ UNCHANGED <<caps, listed, unit, cache, old_sess>>

Next ==
    \/ ManagerInit \/ ManagerUninit
    \/ \E h \in Handles :
         \/ \E d \in Devices \cup {AnyDevice}, a \in Algos : HandleInit(h, d, a)
         \/ \E a \in Algos : SubmitAsync(h, a)
         \/ \E done \in SUBSET cache[h] : PollInstance(h, done)
         \/ Reinit(h)
         \/ \E a \in Algos : TryUnit(h, a)
         \/ UninitFails(h) \/ Uninit(h) \/ PutBackToBlackList(h)

Spec == Init /\ [][Next]_vars

-----------------------------------------------------------------------------
(* Properties *)

Held(h) == Range(old_units[h]) \cup ({unit[h]} \ {0})

\* Whatever mix of Init, failover and close of the channels: a unit is held by at most one
\* handle, ref_cnt_ and pf_in_use_cnt_ (which the choice of the least busy device and the
\* dereferenced find() of GrabAvailableUnit rely on) count exactly the held units, and a
\* unit that failed, at start-up or in use, is not handed out again.
UnitsExact ==
    /\ \A h1, h2 \in Handles : h1 # h2 => Held(h1) \cap Held(h2) = {}
    /\ \A h \in Handles : IsInjective(old_units[h]) /\ unit[h] \notin Range(old_units[h])
    /\ \A u \in Units : ref_cnt[u] = Cardinality({h \in Handles : u \in Held(h)})
    /\ \A u \in Units : listed /\ ~blacklisted[u] => Device[u] \in DOMAIN pf_in_use
    /\ \A d \in DOMAIN pf_in_use :
         pf_in_use[d] = Cardinality({u \in Units : ref_cnt[u] > 0 /\ Device[u] = d})
    /\ \A h \in Handles : \A u \in Held(h) : ~blacklisted[u]

\* A failover leaves the device: the unit a handle works on is on a device none of its
\* failed units is on, its sessions were opened on that unit, and the unit supports the
\* codec the session was set up for - although CheckCapabilities does not look at kZlib.
SessionsFitUnit ==
    \A h \in Handles :
        /\ unit[h] # 0 => Device[unit[h]] \notin {Device[u] : u \in Range(old_units[h])}
        /\ \A s \in cache[h] : s.unit = unit[h] /\ CompType(s.algo) \in caps[s.unit]
=============================================================================
