----------------------------- MODULE DummyDriver -----------------------------
(***************************************************************************)
(* The stubs of the drivers (src/dummy_driver/src/): on load the QAT stub   *)
(* looks up the driver's functions in libqat_s.so, first those of the codec *)
(* then those of the cypher, and tells by two flags which can be used; the  *)
(* KAE stub looks up those in libkaezip.so.  The library starts QAT, the    *)
(* codec and the cypher as the flags say, the KAE codec without asking, and *)
(* then calls through the stubs, which do not test their pointers.          *)
(*                                                                          *)
(* Functions are grouped by how they are looked up: a group stands for the  *)
(* symbols that are looked up in a row.                                     *)
(***************************************************************************)
EXTENDS Integers, Sequences, SequencesExt

\* LOAD_SYM_OPTIONAL_COMMON: the CRC control, the simulated errors and the ring dump
Optional == {"crc", "simulate", "dump"}

\* The order in LoadDC and in LoadCY
DcOrder == <<"dc", "crc", "dcData", "user", "simulate", "dcPoll", "dump">>
CyOrder == <<"cyPoll", "cyCommon", "cySym">>
Symbols == ToSet(DcOrder) \cup ToSet(CyOrder)

\* The order in Loadlibkaezip
KaeOrder == <<"kz", "kaeSession", "kaeDevices">>

\* A stub that tests its pointer and returns an error.  Of the simulated errors one stub
\* does and the other does not; the library calls neither.
Tested == {"dump"}

VARIABLES
    loaded,    \* qat_dummy_driver_init has run
    ptrs,      \* FUNC_PTRs that are not null
    codec_ok,  \* g_driver_load_codec_ok
    cypher_ok, \* g_driver_load_cypher_ok
    kae_ok,    \* g_driver_load_kae_ok
    started,   \* what runs: "user", "codec", "cypher", "kae"
    null       \* functions called through a null pointer, which ends the process

vars == <<loaded, ptrs, codec_ok, cypher_ok, kae_ok, started, null>>
stub == <<loaded, ptrs, codec_ok, cypher_ok, kae_ok>>

Init ==
    /\ loaded = FALSE /\ ptrs = {} /\ codec_ok = FALSE /\ cypher_ok = FALSE
    /\ kae_ok = FALSE /\ started = {} /\ null = {}

\* Mutant: the flag is set when the last symbol is found.
AllLoadedLast(order, lib) == order[Len(order)] \in lib \cup Optional

\* LOAD_SYM_COMMON gives up at the first symbol that is missing and not optional; the
\* pointers set before it stay set.
Loads(order, lib) ==
    {order[i] : i \in {j \in DOMAIN order :
        order[j] \in lib /\ \A k \in 1 .. j - 1 : order[k] \in lib \cup Optional}}
AllLoaded(order, lib) == ToSet(order) \subseteq lib \cup Optional

LoadDC(lib) == codec_ok' = AllLoaded(DcOrder, lib)
LoadCY(lib) == cypher_ok' = AllLoaded(CyOrder, lib)

\* The pointers of the QAT stub; with neither service qat_dummy_driver_reset clears them.
Pointers(lib) ==
    IF AllLoaded(DcOrder, lib) \/ AllLoaded(CyOrder, lib)
    THEN Loads(DcOrder, lib) \cup Loads(CyOrder, lib)
    ELSE {}

\* Loadlibkaezip, with no libkaezip.so ({}) or with one that has the symbols lib
Loadlibkaezip(lib) == kae_ok' = AllLoaded(KaeOrder, lib)

\* The constructors qat_dummy_driver_init, with no libqat_s.so or with one that has the
\* symbols lib, and driver_load_kae_init
DriverInit ==
    /\ ~loaded /\ loaded' = TRUE
    /\ \E kae \in SUBSET ToSet(KaeOrder) :
         /\ Loadlibkaezip(kae)
         /\ \/ UNCHANGED <<codec_ok, cypher_ok>> /\ ptrs' = Loads(KaeOrder, kae)
            \/ \E lib \in SUBSET Symbols :
                 /\ LoadDC(lib) /\ LoadCY(lib)
                 /\ ptrs' = Pointers(lib) \cup Loads(KaeOrder, kae)
    /\ UNCHANGED <<started, null>>

\* A call through the stub
CallsAll(fs) == null' = null \cup (fs \ (ptrs \cup Tested))

\* QatUserStart goes ahead with either flag.
UserStart ==
    /\ loaded /\ null = {} /\ "user" \notin started
    /\ codec_ok \/ cypher_ok
    /\ CallsAll({"user"})
    /\ started' = started \cup {"user"}
    /\ UNCHANGED stub

\* QatCodec::Start and Cypher::Start, whose unit managers look for the instances and start
\* them
CodecStart ==
    /\ "user" \in started /\ null = {} /\ "codec" \notin started /\ codec_ok
    /\ CallsAll({"dc"})
    /\ started' = started \cup {"codec"}
    /\ UNCHANGED stub
CypherStart ==
    /\ "user" \in started /\ null = {} /\ "cypher" \notin started /\ cypher_ok
    /\ CallsAll({"cyCommon"})
    /\ started' = started \cup {"cypher"}
    /\ UNCHANGED stub

\* Sessions, requests and polls of the two services; CRC control only for a channel with
\* the checksum kCrc32.
UseCodec ==
    /\ "codec" \in started /\ null = {}
    /\ \E f \in ToSet(DcOrder) \ {"user", "simulate"} : CallsAll({f})
    /\ UNCHANGED <<stub, started>>
UseCypher ==
    /\ "cypher" \in started /\ null = {}
    /\ \E f \in ToSet(CyOrder) : CallsAll({f})
    /\ UNCHANGED <<stub, started>>

\* Codec::Init makes a KaeCodec, which asks for the devices; its channels open sessions.
KaeStart ==
    /\ loaded /\ null = {} /\ "kae" \notin started
    /\ CallsAll({"kaeDevices"})
    /\ started' = started \cup {"kae"}
    /\ UNCHANGED stub
UseKae ==
    /\ "kae" \in started /\ null = {}
    /\ CallsAll({"kaeSession"})
    /\ UNCHANGED <<stub, started>>

\* QatUserStop
UserStop ==
    /\ "user" \in started /\ started \subseteq {"user", "kae"} /\ null = {}
    /\ CallsAll({"user"})
    /\ started' = started \ {"user"}
    /\ UNCHANGED stub

Next ==
    \/ DriverInit \/ UserStart \/ CodecStart \/ CypherStart \/ UseCodec \/ UseCypher
    \/ KaeStart \/ UseKae \/ UserStop

Spec == Init /\ [][Next]_vars

-----------------------------------------------------------------------------

\* The flags are enough: a null function is called only for the CRC control of a driver
\* that lacks it; to start QAT with a driver that has the cypher and not the codec, since
\* LoadCY does not look icp_sal_userStart up; or for the KAE codec without its library, as
\* no one reads that flag - and a KAE codec that came up has all its functions, since the
\* one it calls first is looked up last (LoadDC, LoadCY, Loadlibkaezip).
StubCallsLoaded ==
    /\ null \subseteq {"crc", "user", "kaeDevices"}
    /\ "user" \in null => ~codec_ok
    /\ "kaeDevices" \in null => ~kae_ok
=============================================================================
